----------------------- MODULE ServiceLifecycleProofs ------------------------
(***************************************************************************)
(* Proofs about ServiceLifecycle, for any adapters and listings and any    *)
(* number of requests.                                                     *)
(***************************************************************************)
EXTENDS ServiceLifecycle, FiniteSetTheorems, TLAPS

-----------------------------------------------------------------------------
(* Cardinalities of the places where a Datastream stands in a listing.     *)

Places(l, n, s) == {i \in 1..n : l[i] = s}

LEMMA PlacesFinite ==
    ASSUME NEW l, NEW n \in Nat, NEW s
    PROVE  IsFiniteSet(Places(l, n, s)) /\ Cardinality(Places(l, n, s)) \in Nat
<1>1. IsFiniteSet(1..n)
  BY FS_Interval
<1>2. IsFiniteSet(Places(l, n, s))
  BY <1>1, FS_Subset DEF Places
<1> QED BY <1>2, FS_CardinalityType

LEMMA OneMorePlace ==
    ASSUME NEW l, NEW n \in Nat, NEW s
    PROVE  Cardinality(Places(l, n + 1, s)) =
               Cardinality(Places(l, n, s)) + (IF l[n + 1] = s THEN 1 ELSE 0)
<1>1. CASE l[n + 1] = s
  <2>1. Places(l, n + 1, s) = Places(l, n, s) \cup {n + 1} /\ n + 1 \notin Places(l, n, s)
    BY <1>1 DEF Places
  <2> QED BY <1>1, <2>1, PlacesFinite, FS_AddElement
<1>2. CASE l[n + 1] # s
  <2>1. Places(l, n + 1, s) = Places(l, n, s)
    BY <1>2 DEF Places
  <2> QED BY <1>2, <2>1, PlacesFinite
<1> QED BY <1>1, <1>2

LEMMA FewerPlaces ==
    ASSUME NEW l, NEW m \in Nat, NEW n \in Nat, m <= n, NEW s
    PROVE  Cardinality(Places(l, m, s)) <= Cardinality(Places(l, n, s))
<1>1. Places(l, m, s) \subseteq Places(l, n, s)
  BY DEF Places
<1> QED BY <1>1, PlacesFinite, FS_Subset

(* In terms of the listing in hand.                                        *)
LEMMA RepeatsArePlaces ==
    ASSUME listing \in Seq(Streams), NEW s \in Streams
    PROVE  Repeats(s) = Cardinality(Places(listing, Len(listing), s)) /\ Len(listing) \in Nat
<1>1. DOMAIN listing = 1..Len(listing) /\ Len(listing) \in Nat
  OBVIOUS
<1>2. {i \in DOMAIN listing : listing[i] = s} = Places(listing, Len(listing), s)
  BY <1>1 DEF Places
<1> QED BY <1>1, <1>2 DEF Repeats

-----------------------------------------------------------------------------
(* Type correctness.                                                       *)

LEMMA InitTyped == Init => TypeOK
<1> SUFFICES ASSUME Init PROVE TypeOK
  OBVIOUS
<1>1. signal \in BOOLEAN /\ spent \in BOOLEAN
  BY DEF Init
<1>2. listing = <<>> /\ Len(listing) = 0 /\ listing \in Seq(Streams)
  BY DEF Init
<1>3. live \in [Streams -> 0..MaxRepeat]
  BY ServiceAssumption DEF Init, NoStreams
<1> QED BY <1>1, <1>2, <1>3 DEF Init, TypeOK, Servers

LEMMA InitIInv == Init => IInv
<1> SUFFICES ASSUME Init PROVE IInv
  OBVIOUS
<1>1. RunOwnsTheLoops
  BY DEF Init, RunOwnsTheLoops, Servers
<1>3. RequestsHaveAServer
  BY DEF Init, RequestsHaveAServer
<1>4. ServersGoInTurn
  BY DEF Init, ServersGoInTurn
<1>2. StreamsBelongToACycle
  <2> SUFFICES ASSUME NEW s \in Streams
               PROVE  /\ live[s] <= Cardinality({i \in 1..(fan - 1) : listing[i] = s})
                      /\ Repeats(s) <= MaxRepeat
    BY DEF Init, StreamsBelongToACycle
  <2>1. {i \in 1..(fan - 1) : listing[i] = s} = {} /\ {i \in DOMAIN listing : listing[i] = s} = {}
    BY DEF Init
  <2> QED BY <2>1, FS_EmptySet, ServiceAssumption DEF Init, NoStreams, Repeats
<1> QED BY <1>1, <1>2, <1>3, <1>4 DEF IInv

(* The goroutine of the scheduler: what its steps do to the listing.       *)
LEMMA NextAdapterTyped ==
    ASSUME TypeOK, NextAdapter
    PROVE  /\ turn' \in Nat \ {0} /\ sched' \in {"tick", "select"}
           /\ listing' = <<>> /\ listing' \in Seq(Streams) /\ fan' = 1
           /\ fan' \in 1..(Len(listing') + 1)
           /\ \A s \in Streams : Repeats(s)' <= MaxRepeat
<1>1. turn' \in Nat \ {0} /\ sched' \in {"tick", "select"} /\ listing' = <<>> /\ fan' = 1
  BY DEF NextAdapter, TypeOK
<1>2. listing' \in Seq(Streams) /\ Len(listing') = 0
  BY <1>1
<1>3. \A s \in Streams : Repeats(s)' <= MaxRepeat
  <2> SUFFICES ASSUME NEW s \in Streams PROVE Repeats(s)' <= MaxRepeat
    OBVIOUS
  <2>1. {i \in DOMAIN listing' : listing'[i] = s} = {}
    BY <1>1
  <2> QED BY <2>1, FS_EmptySet, ServiceAssumption DEF Repeats
<1> QED BY <1>1, <1>2, <1>3

LEMMA ListingTyped ==
    ASSUME NEW a \in DOMAIN Listings, listing' \in Listings[a]
    PROVE  /\ listing' \in Seq(Streams) /\ 1 \in 1..(Len(listing') + 1)
           /\ \A s \in Streams : Repeats(s)' <= MaxRepeat
<1>1. listing' \in Seq(Streams)
  BY ServiceAssumption
<1>2. 1 \in 1..(Len(listing') + 1)
  BY <1>1
<1> QED BY <1>1, <1>2, ServiceAssumption DEF Repeats

(* The scheduler's variables, typed; every other action leaves them alone. *)
SchedTyped ==
    /\ sched \in {"off", "tick", "fan", "select", "done"}
    /\ turn \in Nat \ {0}
    /\ listing \in Seq(Streams) /\ fan \in 1..(Len(listing) + 1)
    /\ live \in [Streams -> 0..MaxRepeat]

LEMMA DiscoverStep ==
    ASSUME TypeOK, StreamsBelongToACycle, Discover
    PROVE  SchedTyped' /\ StreamsBelongToACycle'
<1> live' = live /\ live = NoStreams /\ live \in [Streams -> 0..MaxRepeat] /\ MaxRepeat \in Nat
  BY ServiceAssumption DEF Discover, StreamsBelongToACycle, TypeOK
<1>1. /\ sched' \in {"off", "tick", "fan", "select", "done"} /\ turn' \in Nat \ {0}
      /\ listing' \in Seq(Streams) /\ fan' \in 1..(Len(listing') + 1)
      /\ \A s \in Streams : Repeats(s)' <= MaxRepeat
      /\ fan' = 1
  <2>1. CASE NextAdapter
    BY <2>1, NextAdapterTyped
  <2>2. CASE turn \in DOMAIN Listings /\ listing' \in Listings[turn]
             /\ sched' = "fan" /\ UNCHANGED <<turn, fan>>
    <3>1. fan = 1
      BY DEF Discover, StreamsBelongToACycle
    <3> QED BY <2>2, <3>1, ListingTyped DEF TypeOK
  <2> QED BY <2>1, <2>2 DEF Discover
<1>2. \A s \in Streams : live'[s] <= Cardinality({i \in 1..(fan' - 1) : listing'[i] = s})
  <2> SUFFICES ASSUME NEW s \in Streams
               PROVE  live'[s] <= Cardinality(Places(listing', fan' - 1, s))
    BY DEF Places
  <2>1. live'[s] = 0
    BY DEF NoStreams
  <2>2. fan' - 1 \in Nat
    BY <1>1
  <2> QED BY <2>1, <2>2, PlacesFinite
<1>3. NoStreams' = NoStreams
  BY DEF NoStreams
<1>4. SchedTyped'
  BY <1>1 DEF SchedTyped
<1>5. StreamsBelongToACycle'
  BY <1>1, <1>2, <1>3 DEF StreamsBelongToACycle
<1> QED BY <1>4, <1>5

LEMMA FanOutStep ==
    ASSUME TypeOK, StreamsBelongToACycle, FanOut
    PROVE  SchedTyped' /\ StreamsBelongToACycle'
<1> USE DEF FanOut
<1>1. listing' = listing /\ fan' = fan + 1 /\ sched' = sched /\ turn' = turn /\ sched = "fan"
  OBVIOUS
<1>2. /\ listing \in Seq(Streams) /\ Len(listing) \in Nat /\ fan \in 1..Len(listing)
      /\ MaxRepeat \in Nat
  BY ServiceAssumption DEF TypeOK
<1>3. fan' \in 1..(Len(listing) + 1) /\ fan - 1 \in Nat /\ fan \in Nat /\ (fan - 1) + 1 = fan
  BY <1>1, <1>2
<1>4. listing[fan] \in Streams
  BY <1>2
<1>5. ASSUME NEW s \in Streams
      PROVE  /\ live'[s] \in 0..MaxRepeat
             /\ live'[s] <= Cardinality(Places(listing, fan, s))
             /\ Repeats(s)' <= MaxRepeat
  <2> DEFINE before == Cardinality(Places(listing, fan - 1, s))
             after == Cardinality(Places(listing, fan, s))
             all == Cardinality(Places(listing, Len(listing), s))
  <2>1. live[s] \in 0..MaxRepeat /\ live[s] <= before /\ all <= MaxRepeat
    BY <1>2, RepeatsArePlaces DEF TypeOK, StreamsBelongToACycle, Places
  <2>2. before \in Nat /\ after \in Nat /\ all \in Nat
    BY <1>2, <1>3, PlacesFinite
  <2>3. after <= all
    BY <1>2, <1>3, FewerPlaces
  <2>4. after = before + (IF listing[fan] = s THEN 1 ELSE 0)
    <3>1. Cardinality(Places(listing, (fan - 1) + 1, s)) =
              before + (IF listing[(fan - 1) + 1] = s THEN 1 ELSE 0)
      BY <1>3, OneMorePlace
    <3> QED BY <1>3, <3>1
  <2>5. live'[s] = live[s] \/ (listing[fan] = s /\ live'[s] = live[s] + 1)
    BY <1>4 DEF TypeOK
  <2>6. Repeats(s)' = Repeats(s)
    BY <1>1 DEF Repeats
  <2> HIDE DEF before, after, all
  <2>7. live'[s] \in 0..MaxRepeat /\ live'[s] <= after
    BY <1>2, <2>1, <2>2, <2>3, <2>4, <2>5
  <2> QED BY <2>6, <2>7 DEF after, StreamsBelongToACycle
<1>6. live' \in [Streams -> 0..MaxRepeat]
  <2>1. DOMAIN live' = Streams /\ live' = [s \in Streams |-> live'[s]]
    BY DEF TypeOK
  <2> QED BY <1>5, <2>1
<1>7. SchedTyped'
  BY <1>1, <1>2, <1>3, <1>6 DEF SchedTyped, TypeOK
<1>8. StreamsBelongToACycle'
  <2>1. fan' - 1 = fan
    BY <1>1, <1>3
  <2> QED BY <1>1, <1>5, <2>1 DEF StreamsBelongToACycle, Places
<1> QED BY <1>7, <1>8

LEMMA JoinStep ==
    ASSUME TypeOK, StreamsBelongToACycle, Join
    PROVE  SchedTyped' /\ StreamsBelongToACycle'
<1> live' = live /\ live = NoStreams /\ live \in [Streams -> 0..MaxRepeat] /\ NextAdapter
  BY DEF Join, Joined, TypeOK
<1>1. /\ turn' \in Nat \ {0} /\ sched' \in {"tick", "select"}
      /\ listing' \in Seq(Streams) /\ fan' = 1 /\ fan' \in 1..(Len(listing') + 1)
      /\ \A s \in Streams : Repeats(s)' <= MaxRepeat
  BY NextAdapterTyped
<1>2. \A s \in Streams : live'[s] <= Cardinality({i \in 1..(fan' - 1) : listing'[i] = s})
  <2> SUFFICES ASSUME NEW s \in Streams
               PROVE  live'[s] <= Cardinality(Places(listing', 0, s))
    BY <1>1 DEF Places
  <2>1. live'[s] = 0
    BY DEF NoStreams
  <2> QED BY <2>1, PlacesFinite
<1>3. NoStreams' = NoStreams
  BY DEF NoStreams
<1>4. SchedTyped'
  BY <1>1 DEF SchedTyped
<1>5. StreamsBelongToACycle'
  BY <1>1, <1>2, <1>3 DEF StreamsBelongToACycle
<1> QED BY <1>4, <1>5

LEMMA StreamEndsStep ==
    ASSUME TypeOK, StreamsBelongToACycle, NEW e \in Streams, StreamEnds(e)
    PROVE  SchedTyped' /\ StreamsBelongToACycle'
<1> USE DEF StreamEnds
<1>1. sched = "fan"
  BY DEF StreamsBelongToACycle, NoStreams
<1>2. UNCHANGED <<sched, turn, listing, fan>> /\ live' = [live EXCEPT ![e] = @ - 1]
  OBVIOUS
<1>3. ASSUME NEW s \in Streams
      PROVE  live'[s] \in 0..MaxRepeat /\ live'[s] <= live[s]
  BY <1>2, ServiceAssumption DEF TypeOK
<1>4. live' \in [Streams -> 0..MaxRepeat]
  <2>1. live' = [s \in Streams |-> live'[s]]
    BY <1>2 DEF TypeOK
  <2> QED BY <1>3, <2>1
<1>5. SchedTyped'
  BY <1>2, <1>4 DEF SchedTyped, TypeOK
<1>6. StreamsBelongToACycle'
  <2>1. ASSUME NEW s \in Streams
        PROVE  live'[s] <= Cardinality({i \in 1..(fan' - 1) : listing'[i] = s})
    <3>1. fan - 1 \in Nat
      BY DEF TypeOK
    <3>2. Cardinality(Places(listing, fan - 1, s)) \in Nat
      BY <3>1, PlacesFinite
    <3>3. live[s] <= Cardinality(Places(listing, fan - 1, s)) /\ live[s] \in 0..MaxRepeat
      BY DEF StreamsBelongToACycle, Places, TypeOK
    <3>4. live'[s] <= Cardinality(Places(listing, fan - 1, s))
      BY <1>3, <3>2, <3>3, ServiceAssumption
    <3> QED BY <1>2, <3>4 DEF Places
  <2>2. \A s \in Streams : Repeats(s)' = Repeats(s)
    BY <1>2 DEF Repeats
  <2> QED BY <1>1, <1>2, <2>1, <2>2 DEF StreamsBelongToACycle
<1> QED BY <1>5, <1>6

(* The other actions leave the cycle alone, or find none.                  *)
LEMMA NoCycleStep ==
    ASSUME TypeOK, StreamsBelongToACycle, UNCHANGED <<turn, listing, fan, live>>,
           \/ sched' = sched
           \/ sched # "fan" /\ sched' \in {"tick", "done"}
    PROVE  SchedTyped' /\ StreamsBelongToACycle'
<1>1. SchedTyped'
  BY DEF SchedTyped, TypeOK
<1>2. \A s \in Streams : Repeats(s)' = Repeats(s)
  BY DEF Repeats
<1>3. NoStreams' = NoStreams
  BY DEF NoStreams
<1>4. StreamsBelongToACycle'
  BY <1>2, <1>3 DEF StreamsBelongToACycle
<1> QED BY <1>1, <1>4

LEMMA StreamsStep ==
    ASSUME TypeOK, IInv, [Next]_vars
    PROVE  SchedTyped' /\ StreamsBelongToACycle'
<1> USE DEF IInv, schedVars
<1>1. CASE Main
  <2>1. \/ UNCHANGED schedVars
        \/ sched = "off" /\ sched' = "tick" /\ UNCHANGED <<turn, listing, fan, live>>
    BY <1>1 DEF Main, OpenStore, Launch, Shutdown, Drain, Wait, CloseStore, RunOwnsTheLoops
  <2> QED BY <2>1, NoCycleStep
<1>2. CASE Schedule
  BY <1>2, DiscoverStep, FanOutStep, JoinStep DEF Schedule
<1>3. CASE \E x \in Servers : Serve(x)
  BY <1>3, NoCycleStep DEF Serve
<1>4. CASE \E r \in Requests : Accept(r) \/ Handle(r)
  BY <1>4, NoCycleStep DEF Accept, Handle
<1>5. CASE \E s \in Streams : StreamEnds(s)
  BY <1>5, StreamEndsStep
<1>6. CASE SchedulerTicks \/ SchedulerStops
  BY <1>6, NoCycleStep DEF SchedulerTicks, SchedulerStops
<1>7. CASE WatchdogWorks \/ WatchdogTicks \/ WatchdogStops
  BY <1>7, NoCycleStep DEF WatchdogWorks, WatchdogTicks, WatchdogStops
<1>8. CASE Interrupt \/ Expire \/ Exited \/ UNCHANGED vars
  BY <1>8, NoCycleStep DEF Interrupt, Expire, Exited, vars
<1> QED BY <1>1, <1>2, <1>3, <1>4, <1>5, <1>6, <1>7, <1>8 DEF Next

(* The rest of the type invariant: run(), the servers and the requests.    *)
RunTyped ==
    /\ main \in {"config", "open", "wire", "serve", "stop", "drain", "wait", "close",
                 "leave", "exited"}
    /\ stopping \in Servers /\ missed \subseteq servers /\ closed \subseteq servers
    /\ store \in {"none", "open", "closed"}
    /\ servers \subseteq Servers
    /\ srv \in [Servers -> {"off", "launched", "assigned", "listening", "done"}]
    /\ wd \in {"off", "tick", "select", "done"}
    /\ handler \in [Requests -> {"none", "running", "query", "answering"}]

LEMMA TypeParts == TypeOK <=> (signal \in BOOLEAN /\ spent \in BOOLEAN) /\ SchedTyped /\ RunTyped
BY DEF TypeOK, SchedTyped, RunTyped

(* A shutdown is of a configured server.                                   *)
LEMMA StoppingIsConfigured ==
    ASSUME IInv, main \in {"serve", "stop", "drain"}
    PROVE  stopping \in servers
BY DEF IInv, RunOwnsTheLoops, ServersGoInTurn

LEMMA RunTypedStep ==
    ASSUME RunTyped, IInv, [Next]_vars
    PROVE  RunTyped'
<1> USE DEF RunTyped, mainVars, serverVars, schedVars
<1>1. CASE OpenStore
  BY <1>1 DEF OpenStore
<1>2. CASE Launch
  BY <1>2 DEF Launch
<1>3. CASE Shutdown
  BY <1>3, StoppingIsConfigured DEF Shutdown, Proceed, After, Servers
<1>4. CASE Drain
  BY <1>4 DEF Drain, Proceed, After, Servers
<1>5. CASE Wait \/ CloseStore
  BY <1>5 DEF Wait, CloseStore
<1>6. CASE \E x \in Servers : Serve(x)
  BY <1>6 DEF Serve
<1>7. CASE \E r \in Requests : Accept(r) \/ Handle(r)
  BY <1>7 DEF Accept, Handle
<1>8. CASE Schedule \/ SchedulerTicks \/ SchedulerStops \/ \E s \in Streams : StreamEnds(s)
  BY <1>8 DEF Schedule, SchedulerTicks, SchedulerStops, StreamEnds
<1>9. CASE WatchdogWorks \/ WatchdogTicks \/ WatchdogStops
  BY <1>9 DEF WatchdogWorks, WatchdogTicks, WatchdogStops
<1>10. CASE Interrupt \/ Expire \/ Exited \/ UNCHANGED vars
  BY <1>10 DEF Interrupt, Expire, Exited, vars
<1> QED BY <1>1, <1>2, <1>3, <1>4, <1>5, <1>6, <1>7, <1>8, <1>9, <1>10 DEF Next, Main

(* The two latches are only ever set.                                      *)
LEMMA Latches ==
    ASSUME [Next]_vars
    PROVE  (signal' = signal \/ signal' = TRUE) /\ (spent' = spent \/ spent' = TRUE)
<1> USE DEF vars
<1>1. CASE Main
  BY <1>1 DEF Main, OpenStore, Launch, Shutdown, Drain, Wait, CloseStore
<1>2. CASE Schedule \/ SchedulerTicks \/ SchedulerStops \/ \E s \in Streams : StreamEnds(s)
  BY <1>2 DEF Schedule, SchedulerTicks, SchedulerStops, StreamEnds
<1>3. CASE \E x \in Servers : Serve(x)
  BY <1>3 DEF Serve
<1>4. CASE \E r \in Requests : Accept(r) \/ Handle(r)
  BY <1>4 DEF Accept, Handle
<1>5. CASE WatchdogWorks \/ WatchdogTicks \/ WatchdogStops
  BY <1>5 DEF WatchdogWorks, WatchdogTicks, WatchdogStops
<1>6. CASE Interrupt \/ Expire \/ Exited \/ UNCHANGED vars
  BY <1>6 DEF Interrupt, Expire, Exited
<1> QED BY <1>1, <1>2, <1>3, <1>4, <1>5, <1>6 DEF Next

LEMMA TypeStep ==
    ASSUME TypeOK, IInv, [Next]_vars
    PROVE  TypeOK'
<1>1. signal' \in BOOLEAN /\ spent' \in BOOLEAN
  BY Latches DEF TypeOK
<1>2. SchedTyped'
  BY StreamsStep
<1>3. RunTyped'
  BY TypeParts, RunTypedStep
<1> QED BY <1>1, <1>2, <1>3 DEF TypeOK, SchedTyped, RunTyped

-----------------------------------------------------------------------------
(* The inductive invariant, conjunct by conjunct.                          *)

LEMMA RunOwnsStep ==
    ASSUME RunTyped, IInv, [Next]_vars
    PROVE  RunOwnsTheLoops'
<1> USE DEF RunTyped, IInv, RunOwnsTheLoops, mainVars, serverVars, schedVars
<1>1. CASE OpenStore
  BY <1>1 DEF OpenStore
<1>2. CASE Launch
  BY <1>2 DEF Launch
<1>3. CASE Shutdown
  BY <1>3 DEF Shutdown, Proceed, After
<1>4. CASE Drain
  BY <1>4 DEF Drain, Proceed, After
<1>5. CASE Wait \/ CloseStore
  BY <1>5 DEF Wait, CloseStore, AllDone
<1>6. CASE \E x \in Servers : Serve(x)
  BY <1>6 DEF Serve
<1>7. CASE \E r \in Requests : Accept(r) \/ Handle(r)
  BY <1>7 DEF Accept, Handle
<1>8. CASE Schedule
  BY <1>8 DEF Schedule, Discover, FanOut, Join, NextAdapter
<1>9. CASE SchedulerTicks \/ SchedulerStops \/ \E s \in Streams : StreamEnds(s)
  BY <1>9 DEF SchedulerTicks, SchedulerStops, StreamEnds
<1>10. CASE WatchdogWorks \/ WatchdogTicks \/ WatchdogStops
  BY <1>10 DEF WatchdogWorks, WatchdogTicks, WatchdogStops
<1>11. CASE Interrupt \/ Expire \/ Exited \/ UNCHANGED vars
  BY <1>11 DEF Interrupt, Expire, Exited, vars
<1> QED BY <1>1, <1>2, <1>3, <1>4, <1>5, <1>6, <1>7, <1>8, <1>9, <1>10, <1>11 DEF Next, Main

LEMMA RequestsStep ==
    ASSUME RunTyped, IInv, [Next]_vars
    PROVE  RequestsHaveAServer'
<1> USE ServiceAssumption DEF RunTyped, IInv, RequestsHaveAServer, mainVars, serverVars, schedVars
<1>1. CASE Launch
  BY <1>1 DEF Launch, RunOwnsTheLoops
<1>2. CASE OpenStore \/ Shutdown \/ Drain \/ Wait \/ CloseStore
  BY <1>2 DEF OpenStore, Shutdown, Drain, Wait, CloseStore
<1>3. CASE \E x \in Servers : Serve(x)
  BY <1>3 DEF Serve
<1>4. CASE \E r \in Requests : Accept(r) \/ Handle(r)
  BY <1>4 DEF Accept, Handle
<1>5. CASE Schedule \/ SchedulerTicks \/ SchedulerStops \/ \E s \in Streams : StreamEnds(s)
  BY <1>5 DEF Schedule, SchedulerTicks, SchedulerStops, StreamEnds
<1>6. CASE WatchdogWorks \/ WatchdogTicks \/ WatchdogStops
  BY <1>6 DEF WatchdogWorks, WatchdogTicks, WatchdogStops
<1>7. CASE Interrupt \/ Expire \/ Exited \/ UNCHANGED vars
  BY <1>7 DEF Interrupt, Expire, Exited, vars
<1> QED BY <1>1, <1>2, <1>3, <1>4, <1>5, <1>6, <1>7 DEF Next, Main

(* What is missed, closed or spent stays so, and a closed server lets no   *)
(* request in.                                                             *)
LEMMA NothingReopens ==
    ASSUME RunTyped, [Next]_vars
    PROVE  /\ missed \subseteq missed' /\ closed \subseteq closed'
           /\ \A x \in closed : Active(x)' \subseteq Active(x)
<1> USE DEF RunTyped, Active, mainVars, serverVars, schedVars
<1>1. CASE Main
  BY <1>1 DEF Main, OpenStore, Launch, Shutdown, Drain, Wait, CloseStore
<1>2. CASE \E x \in Servers : Serve(x)
  BY <1>2 DEF Serve
<1>3. CASE \E r \in Requests : Accept(r) \/ Handle(r)
  BY <1>3 DEF Accept, Handle
<1>4. CASE Schedule \/ SchedulerTicks \/ SchedulerStops \/ \E s \in Streams : StreamEnds(s)
  BY <1>4 DEF Schedule, SchedulerTicks, SchedulerStops, StreamEnds
<1>5. CASE WatchdogWorks \/ WatchdogTicks \/ WatchdogStops
  BY <1>5 DEF WatchdogWorks, WatchdogTicks, WatchdogStops
<1>6. CASE Interrupt \/ Expire \/ Exited \/ UNCHANGED vars
  BY <1>6 DEF Interrupt, Expire, Exited, vars
<1> QED BY <1>1, <1>2, <1>3, <1>4, <1>5, <1>6 DEF Next

LEMMA ShutDownLasts ==
    ASSUME RunTyped, spent \in BOOLEAN, [Next]_vars, NEW x, ShutDown(x)
    PROVE  ShutDown(x)'
<1>1. missed \subseteq missed' /\ closed \subseteq closed'
  BY NothingReopens
<1>2. x \in closed /\ Active(x) = {} => Active(x)' = {}
  BY NothingReopens
<1>3. spent => spent'
  BY Latches
<1> QED BY <1>1, <1>2, <1>3 DEF ShutDown

(* run() goes on to the next server when it has shut one down.             *)
LEMMA ProceedStep ==
    ASSUME RunTyped, spent \in BOOLEAN, IInv, [Next]_vars,
           main \in {"serve", "stop", "drain"}, Proceed, UNCHANGED <<servers, sched>>,
           NEW y \in Servers, y = stopping, ShutDown(y)'
    PROVE  ServersGoInTurn'
<1>1. y \in servers /\ servers \subseteq Servers
  BY StoppingIsConfigured DEF RunTyped
<1>2. y = "push" => ShutDown("admin")'
  <2>1. y = "push" => ShutDown("admin")
    BY DEF IInv, ServersGoInTurn
  <2> QED BY <2>1, ShutDownLasts
<1>3. CASE y = "admin" /\ "push" \in servers
  <2>1. main' = "stop" /\ stopping' = "push" /\ stopping' \in servers'
    BY <1>3 DEF Proceed, After
  <2> QED BY <1>3, <2>1 DEF ServersGoInTurn
<1>4. CASE ~(y = "admin" /\ "push" \in servers)
  <2>1. main' = "wait"
    BY <1>4 DEF Proceed, After
  <2>2. ASSUME NEW x \in servers PROVE ShutDown(x)'
    <3>1. x = y \/ (x = "admin" /\ y = "push")
      BY <1>1, <1>4 DEF Servers
    <3> QED BY <1>2, <3>1
  <2> QED BY <2>1, <2>2 DEF ServersGoInTurn
<1> QED BY <1>3, <1>4

LEMMA TurnStep ==
    ASSUME RunTyped, spent \in BOOLEAN, IInv, [Next]_vars
    PROVE  ServersGoInTurn'
<1> USE DEF ServersGoInTurn, mainVars, serverVars, schedVars
<1>0. RunOwnsTheLoops /\ ServersGoInTurn
  BY DEF IInv
<1>1. CASE OpenStore \/ Launch
  BY <1>0, <1>1 DEF OpenStore, Launch, RunOwnsTheLoops
<1>2. PICK y \in Servers : y = stopping
  BY DEF RunTyped
<1>3. CASE Shutdown
  <2>1. CASE srv[stopping] = "launched"
    <3>1. Proceed /\ main \in {"serve", "stop", "drain"} /\ UNCHANGED <<servers, sched>>
      BY <1>3, <2>1 DEF Shutdown
    <3>2. y \in missed'
      BY <1>3, <1>2, <2>1 DEF Shutdown
    <3>3. ShutDown(y)'
      BY <3>2 DEF ShutDown
    <3> QED BY <1>2, <3>1, <3>3, ProceedStep
  <2>2. CASE srv[stopping] # "launched"
    <3>1. /\ closed' = closed \cup {stopping} /\ main' = "drain" /\ stopping' = stopping
          /\ main \in {"serve", "stop", "drain"} /\ servers' = servers
      BY <1>3, <2>2 DEF Shutdown
    <3>2. stopping \in servers
      BY <3>1, StoppingIsConfigured
    <3>3. stopping = "push" => ShutDown("admin")'
      BY <1>0, <1>3, ShutDownLasts DEF Shutdown
    <3> QED BY <3>1, <3>2, <3>3
  <2> QED BY <2>1, <2>2
<1>4. CASE Drain
  <2>1. Proceed /\ main = "drain" /\ UNCHANGED <<servers, sched>>
    BY <1>4 DEF Drain
  <2>2. ShutDown(y)
    BY <1>0, <1>4, <1>2 DEF Drain, Drained, ShutDown
  <2>3. ShutDown(y)'
    BY <2>2, ShutDownLasts
  <2> QED BY <1>2, <2>1, <2>3, ProceedStep
<1>5. CASE Wait \/ CloseStore
  BY <1>0, <1>5, ShutDownLasts DEF Wait, CloseStore
<1>6. CASE \E x \in Servers : Serve(x)
  BY <1>0, <1>6, ShutDownLasts DEF Serve
<1>7. CASE \E r \in Requests : Accept(r) \/ Handle(r)
  BY <1>0, <1>7, ShutDownLasts DEF Accept, Handle
<1>8. CASE Schedule
  BY <1>0, <1>8, ShutDownLasts DEF Schedule, Discover, FanOut, Join, NextAdapter
<1>9. CASE SchedulerTicks \/ SchedulerStops \/ \E s \in Streams : StreamEnds(s)
  BY <1>0, <1>9, ShutDownLasts DEF SchedulerTicks, SchedulerStops, StreamEnds
<1>10. CASE WatchdogWorks \/ WatchdogTicks \/ WatchdogStops
  BY <1>0, <1>10, ShutDownLasts DEF WatchdogWorks, WatchdogTicks, WatchdogStops
<1>11. CASE Interrupt
  BY <1>0, <1>11, ShutDownLasts DEF Interrupt, RunOwnsTheLoops
<1>12. CASE Expire \/ Exited \/ UNCHANGED vars
  BY <1>0, <1>12, ShutDownLasts DEF Expire, Exited, vars
<1> QED BY <1>1, <1>3, <1>5, <1>6, <1>7, <1>8, <1>9, <1>10, <1>11, <1>12, <1>4 DEF Next, Main

LEMMA InvStep ==
    ASSUME TypeOK, IInv, [Next]_vars
    PROVE  IInv'
<1>1. RunTyped /\ spent \in BOOLEAN
  BY DEF TypeOK, RunTyped
<1>2. RunOwnsTheLoops'
  BY <1>1, RunOwnsStep
<1>3. StreamsBelongToACycle'
  BY StreamsStep
<1>4. RequestsHaveAServer'
  BY <1>1, RequestsStep
<1>5. ServersGoInTurn'
  BY <1>1, TurnStep
<1> QED BY <1>2, <1>3, <1>4, <1>5 DEF IInv

-----------------------------------------------------------------------------
(* The theorems.                                                           *)

(* What run() has started and stopped is told by where it stands, stream   *)
(* goroutines belong to the cycle that fans out, and a server that run()   *)
(* has gone past was missed, is drained or the budget is spent.            *)
THEOREM InductiveInvariant == Spec => [](TypeOK /\ IInv)
<1>1. Init => TypeOK /\ IInv
  BY InitTyped, InitIInv
<1>2. TypeOK /\ IInv /\ [Next]_vars => (TypeOK /\ IInv)'
  BY TypeStep, InvStep
<1> QED BY <1>1, <1>2, PTL DEF Spec

(* Every variable stays in its type; in particular no Datastream has more  *)
(* stream goroutines than the longest repetition a discovery may return.   *)
THEOREM TypeCorrect == Spec => []TypeOK
BY InductiveInvariant, PTL

(* run() closes the state store only when the scheduler, its stream        *)
(* goroutines and the watchdog have ended or were never started.           *)
THEOREM StoreIsClosedLast == Spec => []StoreOutlivesTheLoops
<1>1. TypeOK /\ IInv => StoreOutlivesTheLoops
  BY DEF IInv, RunOwnsTheLoops, StreamsBelongToACycle, StoreOutlivesTheLoops
<1> QED BY <1>1, InductiveInvariant, PTL

(* runAdapterCycle joins what it fans out, so a Datastream never has more  *)
(* goroutines than the listing in hand has entries for it.                 *)
THEOREM CyclesNeverOverlap == Spec => []OverlapNeedsARepeat
<1>1. TypeOK /\ IInv => OverlapNeedsARepeat
  <2> SUFFICES ASSUME TypeOK, IInv, NEW s \in Streams PROVE live[s] <= Repeats(s)
    BY DEF OverlapNeedsARepeat
  <2>1. /\ listing \in Seq(Streams) /\ Len(listing) \in Nat
        /\ fan \in 1..(Len(listing) + 1) /\ live[s] \in 0..MaxRepeat
    BY DEF TypeOK
  <2>2. fan - 1 \in Nat /\ fan - 1 <= Len(listing)
    BY <2>1
  <2>3. live[s] <= Cardinality(Places(listing, fan - 1, s))
    BY DEF IInv, StreamsBelongToACycle, Places
  <2>4. Cardinality(Places(listing, fan - 1, s)) <= Cardinality(Places(listing, Len(listing), s))
    BY <2>1, <2>2, FewerPlaces
  <2>5. /\ Cardinality(Places(listing, fan - 1, s)) \in Nat
        /\ Cardinality(Places(listing, Len(listing), s)) \in Nat
    BY <2>1, <2>2, PlacesFinite
  <2>6. live[s] <= Cardinality(Places(listing, Len(listing), s))
    BY <2>1, <2>3, <2>4, <2>5, ServiceAssumption
  <2> QED BY <2>1, <2>6, RepeatsArePlaces
<1> QED BY <1>1, InductiveInvariant, PTL

(* Past the two Shutdowns every request that got in has been answered,     *)
(* unless its server was missed or the shared budget ran out.              *)
THEOREM ShutdownIsGraceful == Spec => []DrainIsComplete
<1>1. TypeOK /\ IInv => DrainIsComplete
  <2> SUFFICES ASSUME TypeOK, IInv, main \in {"wait", "close", "leave", "exited"}, ~spent,
                      NEW r \in Requests, At[r] \notin missed
               PROVE  handler[r] = "none"
    BY DEF DrainIsComplete
  <2>1. At[r] \in Servers
    BY ServiceAssumption
  <2>2. CASE srv[At[r]] = "off"
    BY <2>2 DEF IInv, RequestsHaveAServer
  <2>3. CASE srv[At[r]] # "off"
    <3>1. At[r] \in servers /\ sched # "off"
      BY <2>1, <2>3 DEF IInv, RunOwnsTheLoops
    <3>2. ShutDown(At[r])
      BY <3>1 DEF IInv, ServersGoInTurn
    <3>3. Active(At[r]) = {}
      BY <3>2 DEF ShutDown
    <3> QED BY <3>3 DEF Active
  <2> QED BY <2>2, <2>3
<1> QED BY <1>1, InductiveInvariant, PTL
=============================================================================
