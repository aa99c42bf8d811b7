-------------------------- MODULE CollaborallReader --------------------------
(***************************************************************************)
(* cmd/collaborall-reader: the separate binary that copies watched streams *)
(* of a Collaborall STA server into the translation layer's push endpoint. *)
(* runOnce discovers the streams, reads a page of each after its cursor,   *)
(* posts the page in chunks and advances the cursor; the cursors live in   *)
(* memory and in one JSON file, which every advance rewrites in full.      *)
(*                                                                         *)
(* Behind the endpoint stands PushIngest: a 202 means that every reading   *)
(* of the chunk is settled or was rejected by the validator, here as       *)
(* in_future.  Times are the identities of a stream's rows, as there.      *)
(***************************************************************************)
EXTENDS Naturals, FiniteSets

CONSTANTS
    Streams,   \* watched source Datastreams
    MaxTime,   \* bound: the last instant of the clock and of the rows
    Slots,     \* bound: the <<stream, time, kind>> of rows the source may hold
    Lookback,  \* READER_CURSOR_LOOKBACK_SECONDS
    Skew,      \* the clock-skew tolerance of the push endpoint
    PageLimit, \* rows asked for per stream and cycle
    ChunkSize, \* maxEnvelopeBytes, the size aimed at for one POST
    PushSize   \* api.MaxPushBytes, the size the endpoint takes

Times == 1..MaxTime

(* "big": a reading whose JSON is twice as long as a "good" one's (results  *)
(* are copied verbatim, and may be text or objects).                       *)
(* "blank": FetchObservations skips the row (undecodable, no time it can   *)
(* parse although FROST orders by it, or an empty result).                 *)
Kinds == {"good", "big", "blank"}

ASSUME ConstantsAssumption ==
    MaxTime \in Nat \ {0} /\ Lookback \in Nat /\ Skew \in Nat
    /\ PageLimit \in Nat \ {0} /\ ChunkSize \in Nat /\ PushSize \in Nat
    /\ Slots \subseteq Streams \X Times \X Kinds

VARIABLES
    row,       \* the source's rows per stream and time
    now,       \* the wall clock, the same for reader and service
    calm,      \* nothing fails and nothing new is published any more
    \* the reader
    mem,       \* cursors in memory, 0 when absent
    pc,
    left,      \* streams of the cycle not begun
    st,        \* the stream in hand, {} between streams
    obs,       \* its fetched readings
    todo,      \* those not posted yet
    \* the disk
    file,      \* cursors in the cursor file
    \* the service
    delivered, \* readings the service took in, as <<stream, time>>
    \* history
    fetched,   \* readings some fetch returned
    refused,   \* of those, rejected as in_future by an answered POST
    aged       \* of those, older than the first-sight window of a later fetch

sourceVars == <<row, now, calm>>
cycleVars  == <<pc, left, st, obs, todo>>
resultVars == <<delivered, fetched, refused, aged>>
vars == <<sourceVars, mem, file, cycleVars, resultVars>>

Init ==
    /\ row = [s \in Streams |-> [t \in Times |-> "none"]]
    /\ now = 1 /\ calm = FALSE
    /\ mem = [s \in Streams |-> 0] /\ file = [s \in Streams |-> 0]
    /\ pc = "idle" /\ left = {} /\ st = {} /\ obs = {} /\ todo = {}
    /\ delivered = {} /\ fetched = {} /\ refused = {} /\ aged = {}

-----------------------------------------------------------------------------
(* "Slip" definitions are plausible slips of the code next to them, kept   *)
(* so that a property can be shown to notice them; nothing uses them.      *)

SlipNextStream ==
    /\ pc' = IF left \subseteq st THEN "idle" ELSE "stream"
    /\ left' = left \ st
    /\ st' = {} /\ obs' = {} /\ UNCHANGED todo

(* On to the next stream of the cycle, or to sleep until the next cycle.   *)
NextStream ==
    /\ pc' = IF left \subseteq st THEN "idle" ELSE "stream"
    /\ left' = left \ st
    /\ st' = {} /\ obs' = {} /\ todo' = {}

(* Discover: a failure ends the cycle before it begins.                    *)
Discover ==
    /\ pc = "idle"
    /\ \/ pc' = "stream" /\ left' = Streams /\ UNCHANGED <<st, obs, todo>>
       \/ ~calm /\ UNCHANGED cycleVars
    /\ UNCHANGED <<sourceVars, mem, file, resultVars>>

Since(s) == IF mem[s] # 0 THEN mem[s]
            ELSE IF now > Lookback THEN now - Lookback ELSE 0

(* The oldest rows after the cursor, forecasts included.                   *)
Page(s) ==
    LET rows == {t \in Times : row[s][t] # "none" /\ t > Since(s)}
    IN  {t \in rows : Cardinality({u \in rows : u < t}) < PageLimit}

Usable(s) == {t \in Page(s) : row[s][t] # "blank"}

SlipSkip(s) == pc' = "idle" /\ left' = {} /\ UNCHANGED <<st, obs, todo>>

(* The stream has nothing to send: on to the next one.                     *)
Skip(s) ==
    /\ pc' = IF left = {s} THEN "idle" ELSE "stream"
    /\ left' = left \ {s}
    /\ UNCHANGED <<st, obs, todo>>

(* FetchObservations: a failed fetch and a page without usable rows both   *)
(* leave the cursor alone and go on with the next stream.                  *)
Fetch(s) ==
    /\ pc = "stream" /\ s \in left
    /\ \/ /\ Usable(s) # {}
          /\ pc' = "post" /\ st' = {s} /\ obs' = Usable(s) /\ todo' = Usable(s)
          /\ fetched' = fetched \cup ({s} \X Usable(s))
          /\ UNCHANGED left
       \/ /\ Usable(s) = {} \/ ~calm
          /\ Skip(s)
          /\ UNCHANGED fetched
    /\ aged' = aged \cup {p \in fetched : p[1] = s /\ mem[s] < p[2] /\ p[2] <= Since(s)}
    /\ UNCHANGED <<sourceVars, mem, file, delivered, refused>>

Size(s, ts) == Cardinality(ts) + Cardinality({t \in ts : row[s][t] = "big"})

(* chunkEnvelopes: how many readings go into one POST is reckoned from the *)
(* size of the page's first reading alone.                                 *)
PerChunk(s, ts) ==
    LET first == {t \in ts : \A u \in ts : t <= u}
        n == ChunkSize \div Size(s, first)
    IN  IF n < 1 THEN 1 ELSE n

Chunks(s, ts) ==
    {{t \in ts : Cardinality({u \in ts : u < t}) \div PerChunk(s, ts) = i} : i \in 0..Cardinality(ts)}

IsChunk(s, c) ==
    /\ c \in Chunks(s, obs) /\ c \cap todo # {}
    /\ \A t \in c, u \in todo \ c : t < u

(* handleIngest answers 413 before it reads the envelope.                  *)
TooBig(s, c) == Size(s, c) > PushSize

InFuture(c) == {t \in c : t > now + Skew}

SlipPostFails(s) ==
    pc' = "advance" /\ todo' = {} /\ UNCHANGED <<left, st, obs>>

(* A chunk failed: the rest of the page is not sent.                       *)
PostFails(s) == NextStream

(* post: 2xx; an error after the service took in any part of the chunk; or *)
(* 413.                                                                    *)
Post(s) ==
    /\ pc = "post" /\ s \in st
    /\ \E c \in SUBSET todo :
        /\ IsChunk(s, c)
        /\ \/ /\ ~TooBig(s, c)
              /\ delivered' = delivered \cup ({s} \X (c \ InFuture(c)))
              /\ refused' = refused \cup ({s} \X InFuture(c))
              /\ todo' = todo \ c
              /\ pc' = IF c = todo THEN "advance" ELSE "post"
              /\ UNCHANGED <<left, st, obs>>
           \/ /\ ~calm /\ ~TooBig(s, c) /\ PostFails(s)
              /\ \E part \in SUBSET (c \ InFuture(c)) :
                    delivered' = delivered \cup ({s} \X part)
              /\ UNCHANGED refused
           \/ /\ TooBig(s, c) /\ PostFails(s)
              /\ UNCHANGED <<delivered, refused>>
    /\ UNCHANGED <<sourceVars, mem, file, fetched, aged>>

SlipPersisted(memNow) == [s \in Streams |-> IF memNow[s] = 0 THEN now ELSE memNow[s]]

(* What cursorStore.advance writes: the cursors of all streams.            *)
Persisted(memNow) == memNow

(* advance: memory first, then the temporary file and the rename.  A       *)
(* failed write is only logged, and nothing tries it again until some      *)
(* cursor moves.                                                           *)
Advance(s) ==
    /\ pc = "advance" /\ s \in st
    /\ \E m \in obs :
        /\ \A t \in obs : t <= m
        /\ mem' = [mem EXCEPT ![s] = IF @ < m THEN m ELSE @]
    /\ \/ file' = IF mem' = mem THEN file ELSE Persisted(mem')
       \/ ~calm /\ UNCHANGED file
    /\ NextStream
    /\ UNCHANGED <<sourceVars, resultVars>>

StreamStep(s) == Fetch(s) \/ Post(s) \/ Advance(s)

RunOnce == Discover \/ \E s \in Streams : StreamStep(s)

-----------------------------------------------------------------------------
(* The process dies, or is stopped; loadCursorStore reads the file.        *)
Restart ==
    /\ ~calm
    /\ mem' = file
    /\ pc' = "idle" /\ left' = {} /\ st' = {} /\ obs' = {} /\ todo' = {}
    /\ UNCHANGED <<sourceVars, file, resultVars>>

(* The source may hold a row before its time comes, or long after.         *)
Publish(s, t, kind) ==
    /\ ~calm /\ <<s, t, kind>> \in Slots /\ row[s][t] = "none"
    /\ row' = [row EXCEPT ![s][t] = kind]
    /\ UNCHANGED <<now, calm, mem, file, cycleVars, resultVars>>

Tick ==
    /\ now < MaxTime /\ now' = now + 1
    /\ UNCHANGED <<row, calm, mem, file, cycleVars, resultVars>>

CalmDown ==
    /\ ~calm /\ calm' = TRUE
    /\ UNCHANGED <<row, now, mem, file, cycleVars, resultVars>>

Next ==
    \/ RunOnce \/ Restart \/ Tick \/ CalmDown
    \/ \E s \in Streams, t \in Times, kind \in Kinds : Publish(s, t, kind)

Spec == Init /\ [][Next]_vars

(* The loop of main goes on cycle after cycle, and its calls return: both  *)
(* HTTP clients have timeouts.                                             *)
FairSpec == Spec /\ WF_vars(RunOnce)

-----------------------------------------------------------------------------
TypeOK ==
    /\ row \in [Streams -> [Times -> Kinds \cup {"none"}]]
    /\ now \in Times /\ calm \in BOOLEAN
    /\ mem \in [Streams -> 0..MaxTime] /\ file \in [Streams -> 0..MaxTime]
    /\ pc \in {"idle", "stream", "post", "advance"}
    /\ left \in SUBSET Streams /\ st \in SUBSET Streams
    /\ obs \in SUBSET Times /\ todo \in SUBSET obs
    /\ delivered \in SUBSET (Streams \X Times)
    /\ fetched \in SUBSET (Streams \X Times)
    /\ refused \in SUBSET (Streams \X Times)
    /\ aged \in SUBSET (Streams \X Times)

(* The cursor rule of run.go:34-37, for the cursor in memory and for the   *)
(* one a restart would resume from: a reading that was fetched and lies at *)
(* or below it was taken in by the service or rejected by the validator,   *)
(* however chunks, failures and restarts of the reader interleave.  While  *)
(* a stream has no cursor its window slides with the clock, and what slips *)
(* out of it between two attempts is lost.                                 *)
CursorIsBacked ==
    \A p \in fetched \ aged :
        p[2] <= mem[p[1]] \/ p[2] <= file[p[1]] => p \in delivered \cup refused

(* The file is never ahead of memory, so a restart can repeat work but     *)
(* never skip any; and every cursor in it is a reading that was fetched.   *)
FileIsAPast ==
    \A s \in Streams :
        /\ file[s] <= mem[s]
        /\ file[s] # 0 => <<s, file[s]>> \in fetched

(* A page whose rows have no usable value, and one with a chunk that is    *)
(* larger than the endpoint takes, are asked for again for ever: the       *)
(* cursor does not move past them.                                         *)
Blocked(s) ==
    /\ Page(s) # {}
    /\ Usable(s) # {} => \E c \in Chunks(s, Usable(s)) : TooBig(s, c)

(* Once failures have stopped, what lies above the cursor of a known       *)
(* stream between two cycles gets through, a page per cycle, unless a page *)
(* blocks the stream or the reading is still in the service's future.  (A  *)
(* row published during a cycle, below what that cycle fetched, is lost.)  *)
BacklogDrains ==
    \A s \in Streams, t \in Times :
        (calm /\ pc = "idle" /\ mem[s] # 0 /\ mem[s] < t /\ row[s][t] \in {"good", "big"})
            ~> (<<s, t>> \in delivered \cup refused \/ Blocked(s))

-----------------------------------------------------------------------------
(* The inductive strengthening.                                            *)

(* A page is in hand exactly while its stream is, and is non-empty.        *)
PageHasStream ==
    /\ pc \in {"idle", "stream"} => st = {} /\ obs = {} /\ todo = {}
    /\ pc \in {"post", "advance"} => obs # {} /\ \E s \in Streams : st = {s}
    /\ pc = "advance" => todo = {}

(* What was sent of the page was answered for.                             *)
SentIsSettled ==
    \A s \in st, t \in obs :
        /\ <<s, t>> \in fetched
        /\ t \notin todo => <<s, t>> \in delivered \cup refused

(* What an earlier attempt fetched above the cursor and could not send is  *)
(* in the page again, as far as the page reaches: the rows do not go away, *)
(* and the page is the oldest rows of the stream's window.                 *)
FetchedStays == \A p \in fetched : row[p[1]][p[2]] \in {"good", "big"}

PageHasNoGap ==
    \A p \in fetched \ aged :
        (p[1] \in st /\ mem[p[1]] < p[2] /\ \E t \in obs : p[2] <= t) => p[2] \in obs

CursorWasFetched == \A s \in Streams : mem[s] # 0 => <<s, mem[s]>> \in fetched

IInv ==
    /\ PageHasStream /\ SentIsSettled /\ FetchedStays /\ PageHasNoGap
    /\ CursorWasFetched /\ FileIsAPast /\ CursorIsBacked
=============================================================================
