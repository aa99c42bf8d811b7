-------------------------- MODULE ServiceLifecycle ---------------------------
(***************************************************************************)
(* The service process: run() of cmd/translation-layer starts the poll     *)
(* scheduler, the watchdog and one or two HTTP servers, waits for a        *)
(* signal, shuts the servers down within one shared budget, waits for the  *)
(* four goroutines and closes the state store.  The scheduler's cycle fans *)
(* out one goroutine per Datastream it discovers; PollIngest is the life   *)
(* of one of them, PushIngest that of a request.                           *)
(***************************************************************************)
EXTENDS Naturals, Sequences, FiniteSets

CONSTANTS
    Streams,    \* Datastreams of the poll vendors
    Listings,   \* for each registered poll adapter, what discovery may return:
                \* sequences of Datastreams, repeats included
    Requests,   \* HTTP requests that may be active at a time
    At,         \* the server each of them is for
    MaxRepeat   \* bound: how often a Datastream occurs in one listing

Servers == {"admin", "push"}

ASSUME ServiceAssumption ==
    /\ \A a \in DOMAIN Listings : Listings[a] \subseteq Seq(Streams)
    /\ At \in [Requests -> Servers]
    /\ MaxRepeat \in Nat
    /\ \A a \in DOMAIN Listings : \A l \in Listings[a], s \in Streams :
          Cardinality({i \in DOMAIN l : l[i] = s}) <= MaxRepeat

VARIABLES
    signal,    \* SIGINT or SIGTERM has arrived: ctx is cancelled
    main, stopping, spent,   \* run(), the server it shuts down, the 10 s are over
    store,     \* "none", "open", "closed"
    servers,   \* the servers that are configured
    srv,       \* their goroutines
    closed,    \* http.Servers told to shut down
    missed,    \* servers whose Shutdown found no http.Server
    sched, turn, listing, fan, live,   \* the scheduler and its stream goroutines
    wd,        \* the watchdog's goroutine
    handler    \* the requests' goroutines

mainVars   == <<main, stopping, missed>>
serverVars == <<servers, srv>>
schedVars  == <<sched, turn, listing, fan, live>>
vars == <<signal, spent, store, closed, mainVars, serverVars, schedVars, wd, handler>>

NoStreams == [s \in Streams |-> 0]

Init ==
    /\ signal = FALSE /\ spent = FALSE
    /\ main = "config" /\ stopping = "admin" /\ missed = {}
    /\ store = "none"
    /\ servers \in {{"admin"}, Servers}
    /\ srv = [x \in Servers |-> "off"] /\ closed = {}
    /\ sched = "off" /\ turn = 1 /\ listing = <<>> /\ fan = 1 /\ live = NoStreams
    /\ wd = "off"
    /\ handler = [r \in Requests |-> "none"]

-----------------------------------------------------------------------------
(* "Slip*" operators are plausible slips of the definition that follows    *)
(* them; no specification uses them.                                       *)

(* run(), up to the wait for the signal.                                   *)

(* config.Load, then NewPGStore, which connects and migrates under ctx; an *)
(* error of either ends the process.                                       *)
OpenStore ==
    /\ \/ /\ main = "config" /\ main' \in {"open", "exited"} /\ UNCHANGED store
       \/ /\ main = "open" /\ ~signal
          /\ main' = "wire" /\ store' = "open"
       \/ /\ main = "open"
          /\ main' = "exited" /\ UNCHANGED store
    /\ UNCHANGED <<signal, spent, closed, stopping, missed, serverVars, schedVars, wd,
                   handler>>

(* Writers, adapters and servers are built, and the goroutines launched; a *)
(* configuration error on the way runs the deferred closes.                *)
Launch ==
    /\ main = "wire"
    /\ \/ /\ main' = "serve"
          /\ sched' = "tick" /\ wd' = "tick"
          /\ srv' = [x \in Servers |-> IF x \in servers THEN "launched" ELSE "off"]
       \/ main' = "close" /\ UNCHANGED <<sched, wd, srv>>
    /\ UNCHANGED <<signal, spent, store, closed, stopping, missed, servers, turn, listing,
                   fan, live, handler>>

-----------------------------------------------------------------------------
(* run(), from the signal on.                                              *)

SlipAfter(x) == IF x = "admin" /\ "push" \in servers /\ ~spent THEN "stop" ELSE "wait"

(* The push server follows the admin server, whatever Shutdown returned.   *)
After(x) == IF x = "admin" /\ "push" \in servers THEN "stop" ELSE "wait"

Proceed == main' = After(stopping) /\ stopping' = "push"

(* Shutdown before ListenAndServe has set srv does nothing; otherwise the  *)
(* listener is closed.  (The field is read without synchronisation: a read *)
(* that misses the assignment is a read before it.)                        *)
Shutdown ==
    /\ \/ main = "serve" /\ signal
       \/ main = "stop"
    /\ \/ /\ srv[stopping] = "launched"
          /\ missed' = missed \cup {stopping}
          /\ Proceed
          /\ UNCHANGED closed
       \/ /\ srv[stopping] # "launched"
          /\ closed' = closed \cup {stopping}
          /\ main' = "drain"
          /\ UNCHANGED <<stopping, missed>>
    /\ UNCHANGED <<signal, spent, store, serverVars, schedVars, wd, handler>>

Active(x) == {r \in Requests : At[r] = x /\ handler[r] # "none"}

SlipDrained(x) == TRUE

(* http.Server.Shutdown returns when no request of the server is active or *)
(* the budget both Shutdowns share is spent.                               *)
Drained(x) == Active(x) = {} \/ spent

Drain ==
    /\ main = "drain" /\ Drained(stopping)
    /\ Proceed
    /\ UNCHANGED <<signal, spent, store, closed, missed, serverVars, schedVars, wd, handler>>

SlipAllDone == \A x \in servers : srv[x] = "done"

AllDone == sched = "done" /\ wd = "done" /\ \A x \in servers : srv[x] = "done"

(* wg.Wait, then the deferred closes: the store rejects new queries and    *)
(* waits for the ones that hold a connection.                              *)
Wait ==
    /\ main = "wait" /\ AllDone
    /\ main' = "close"
    /\ UNCHANGED <<signal, spent, store, closed, stopping, missed, serverVars, schedVars, wd,
                   handler>>

CloseStore ==
    /\ \/ main = "close" /\ main' = "leave" /\ store' = "closed"
       \/ /\ main = "leave" /\ \A r \in Requests : handler[r] # "query"
          /\ main' = "exited" /\ UNCHANGED store
    /\ UNCHANGED <<signal, spent, closed, stopping, missed, serverVars, schedVars, wd, handler>>

Main == OpenStore \/ Launch \/ Shutdown \/ Drain \/ Wait \/ CloseStore

Alive == main # "exited"

-----------------------------------------------------------------------------
(* The server goroutines and their requests.                               *)

(* ListenAndServe sets srv; then it binds and serves, fails to bind, or    *)
(* finds the server shut down already.  It returns when that happens.      *)
Serve(x) ==
    /\ Alive
    /\ \/ srv[x] = "launched" /\ srv' = [srv EXCEPT ![x] = "assigned"]
       \/ srv[x] = "assigned" /\ x \notin closed
          /\ srv' \in {[srv EXCEPT ![x] = "listening"], [srv EXCEPT ![x] = "done"]}
       \/ srv[x] \in {"assigned", "listening"} /\ x \in closed
          /\ srv' = [srv EXCEPT ![x] = "done"]
    /\ UNCHANGED <<signal, spent, store, closed, mainVars, servers, schedVars, wd, handler>>

Accept(r) ==
    /\ Alive /\ handler[r] = "none"
    /\ srv[At[r]] = "listening" /\ At[r] \notin closed
    /\ handler' = [handler EXCEPT ![r] = "running"]
    /\ UNCHANGED <<signal, spent, store, closed, mainVars, serverVars, schedVars, wd>>

(* A handler queries the store, is refused when it is closed, and answers; *)
(* another request may follow it.                                          *)
Handle(r) ==
    /\ Alive
    /\ \/ /\ handler[r] = "running"
          /\ handler' = [handler EXCEPT ![r] = IF store = "open" THEN "query" ELSE "answering"]
       \/ handler[r] = "query" /\ handler' = [handler EXCEPT ![r] = "answering"]
       \/ handler[r] = "answering" /\ handler' = [handler EXCEPT ![r] = "none"]
    /\ UNCHANGED <<signal, spent, store, closed, mainVars, serverVars, schedVars, wd>>

-----------------------------------------------------------------------------
(* The scheduler and the watchdog.                                         *)

(* A tick visits the poll adapters in turn.                                *)
NextAdapter ==
    /\ IF turn < Len(Listings)
       THEN turn' = turn + 1 /\ sched' = "tick"
       ELSE turn' = 1 /\ sched' = "select"
    /\ listing' = <<>> /\ fan' = 1

(* ListThings, or its failure.                                             *)
Discover ==
    /\ sched = "tick"
    /\ \/ turn \in DOMAIN Listings
          /\ listing' \in Listings[turn]
          /\ sched' = "fan"
          /\ UNCHANGED <<turn, fan>>
       \/ NextAdapter
    /\ UNCHANGED live

(* One entry of the listing: its rows are upserted and a goroutine is      *)
(* started for it, or an error skips it; under a cancelled ctx every query *)
(* fails.                                                                  *)
FanOut ==
    /\ sched = "fan" /\ fan <= Len(listing)
    /\ fan' = fan + 1
    /\ \/ ~signal /\ live' = [live EXCEPT ![listing[fan]] = @ + 1]
       \/ UNCHANGED live
    /\ UNCHANGED <<sched, turn, listing>>

SlipJoined == TRUE

Joined == live = NoStreams

(* runAdapterCycle's wg.Wait.                                              *)
Join ==
    /\ sched = "fan" /\ fan > Len(listing) /\ Joined
    /\ NextAdapter
    /\ UNCHANGED live

Schedule ==
    /\ Alive
    /\ Discover \/ FanOut \/ Join
    /\ UNCHANGED <<signal, spent, store, closed, mainVars, serverVars, wd, handler>>

(* A stream goroutine ends: PollIngest's cycle is over.                    *)
StreamEnds(s) ==
    /\ Alive /\ live[s] > 0
    /\ live' = [live EXCEPT ![s] = @ - 1]
    /\ UNCHANGED <<signal, spent, store, closed, mainVars, serverVars, sched, turn, listing,
                   fan, wd, handler>>

(* The select of the two loops: a tick, or the end.                        *)
SchedulerTicks ==
    /\ Alive /\ sched = "select" /\ sched' = "tick"
    /\ UNCHANGED <<signal, spent, store, closed, mainVars, serverVars, turn, listing, fan,
                   live, wd, handler>>

SchedulerStops ==
    /\ Alive /\ sched = "select" /\ signal /\ sched' = "done"
    /\ UNCHANGED <<signal, spent, store, closed, mainVars, serverVars, turn, listing, fan,
                   live, wd, handler>>

WatchdogWorks ==
    /\ Alive /\ wd = "tick" /\ wd' = "select"
    /\ UNCHANGED <<signal, spent, store, closed, mainVars, serverVars, schedVars, handler>>

WatchdogTicks ==
    /\ Alive /\ wd = "select" /\ wd' = "tick"
    /\ UNCHANGED <<signal, spent, store, closed, mainVars, serverVars, schedVars, handler>>

WatchdogStops ==
    /\ Alive /\ wd = "select" /\ signal /\ wd' = "done"
    /\ UNCHANGED <<signal, spent, store, closed, mainVars, serverVars, schedVars, handler>>

-----------------------------------------------------------------------------
(* The signal; before NotifyContext is called it ends the process.         *)
Interrupt ==
    /\ Alive /\ ~signal /\ signal' = TRUE
    /\ main' = IF main = "config" THEN "exited" ELSE main
    /\ UNCHANGED <<spent, store, closed, stopping, missed, serverVars, schedVars, wd, handler>>

(* Ten seconds after the first Shutdown was called.                        *)
Expire ==
    /\ main \in {"stop", "drain", "wait", "close", "leave"} /\ signal /\ ~spent
    /\ spent' = TRUE
    /\ UNCHANGED <<signal, store, closed, mainVars, serverVars, schedVars, wd, handler>>

Exited == ~Alive /\ UNCHANGED vars

Next ==
    \/ Main \/ Schedule
    \/ \E x \in Servers : Serve(x)
    \/ \E r \in Requests : Accept(r) \/ Handle(r)
    \/ \E s \in Streams : StreamEnds(s)
    \/ SchedulerTicks \/ SchedulerStops
    \/ WatchdogWorks \/ WatchdogTicks \/ WatchdogStops
    \/ Interrupt \/ Expire \/ Exited

Spec == Init /\ [][Next]_vars

(* Goroutines run and their calls return; the budget's timer fires.  A     *)
(* select with a tick and the cancelled context both ready chooses at      *)
(* random, so it does not choose the tick for ever (strong fairness).      *)
FairSpec ==
    /\ Spec
    /\ WF_vars(Main) /\ WF_vars(Schedule) /\ WF_vars(WatchdogWorks) /\ WF_vars(Expire)
    /\ \A x \in Servers : WF_vars(Serve(x))
    /\ \A r \in Requests : WF_vars(Handle(r))
    /\ \A s \in Streams : WF_vars(StreamEnds(s))
    /\ SF_vars(SchedulerStops) /\ SF_vars(WatchdogStops)

-----------------------------------------------------------------------------
TypeOK ==
    /\ signal \in BOOLEAN /\ spent \in BOOLEAN
    /\ main \in {"config", "open", "wire", "serve", "stop", "drain", "wait", "close",
                 "leave", "exited"}
    /\ stopping \in Servers /\ missed \subseteq servers /\ closed \subseteq servers
    /\ store \in {"none", "open", "closed"}
    /\ servers \subseteq Servers
    /\ srv \in [Servers -> {"off", "launched", "assigned", "listening", "done"}]
    /\ sched \in {"off", "tick", "fan", "select", "done"}
    /\ turn \in Nat \ {0}
    /\ listing \in Seq(Streams) /\ fan \in 1..(Len(listing) + 1)
    /\ live \in [Streams -> 0..MaxRepeat]
    /\ wd \in {"off", "tick", "select", "done"}
    /\ handler \in [Requests -> {"none", "running", "query", "answering"}]

(* The store is closed last: neither a loop nor a stream goroutine it has  *)
(* started is still running then, so no cycle is cut off half-way by a     *)
(* closed pool (main.go:66, :245; scheduler.go:148).                       *)
StoreOutlivesTheLoops ==
    store = "closed" =>
        /\ sched \in {"off", "done"} /\ wd \in {"off", "done"}
        /\ live = NoStreams

(* The serial fetch, ingest, advance of a Datastream (scheduler.go:7-9):   *)
(* cycles never overlap, so two goroutines meet in one stream only when    *)
(* discovery returned it twice in one listing.                             *)
Repeats(s) == Cardinality({i \in DOMAIN listing : listing[i] = s})

OverlapNeedsARepeat == \A s \in Streams : live[s] <= Repeats(s)

(* The shutdown is graceful: once run() has gone past the servers, every   *)
(* request that got in has been answered, unless the budget was spent on   *)
(* the way or the server was not there yet when it was told to stop.       *)
DrainIsComplete ==
    (main \in {"wait", "close", "leave", "exited"} /\ ~spent) =>
        \A r \in Requests :
            At[r] \notin missed => handler[r] = "none"

(* A signal ends the process, however the loops, the requests and the      *)
(* budget interleave, unless a Shutdown came before its server had one to  *)
(* shut down: run() then waits for a listener nobody will close.           *)
ShutdownCompletes == signal ~> (main = "exited" \/ missed # {})

-----------------------------------------------------------------------------
(* The inductive strengthening.                                            *)

(* Where run() is tells what it has started and not yet stopped.           *)
RunOwnsTheLoops ==
    /\ "admin" \in servers
    /\ main \in {"config", "open", "wire"} => sched = "off"
    /\ main \in {"serve", "stop", "drain", "wait"} => sched # "off"
    /\ main \in {"close", "leave", "exited"} =>
          sched \in {"off", "done"} /\ wd \in {"off", "done"}
    /\ store = "closed" => main \in {"leave", "exited"}
    /\ sched = "off" => wd = "off" /\ \A x \in Servers : srv[x] = "off"
    /\ \A x \in Servers \ servers : srv[x] = "off"

(* Stream goroutines exist only while runAdapterCycle fans out, one for    *)
(* each entry it has been through at most.                                 *)
StreamsBelongToACycle ==
    /\ sched # "fan" => live = NoStreams /\ fan = 1
    /\ \A s \in Streams :
          /\ live[s] <= Cardinality({i \in 1..(fan - 1) : listing[i] = s})
          /\ Repeats(s) <= MaxRepeat

RequestsHaveAServer ==
    \A r \in Requests : handler[r] # "none" => srv[At[r]] \in {"listening", "done"}

(* Shutdown of the server found none, or has waited as long as it may.     *)
ShutDown(x) == x \in missed \/ (x \in closed /\ (spent \/ Active(x) = {}))

(* The servers are shut down in turn, and nothing enters one that is.      *)
ServersGoInTurn ==
    /\ main \in {"config", "open", "wire", "serve"} => stopping = "admin"
    /\ main = "stop" => stopping = "push"
    /\ main \in {"stop", "drain"} =>
          stopping \in servers /\ (stopping = "push" => ShutDown("admin"))
    /\ main = "drain" => stopping \in closed
    /\ main \in {"wait", "close", "leave", "exited"} /\ sched # "off" =>
          \A x \in servers : ShutDown(x)

IInv ==
    /\ RunOwnsTheLoops /\ StreamsBelongToACycle /\ RequestsHaveAServer
    /\ ServersGoInTurn
=============================================================================
