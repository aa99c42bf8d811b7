----------------------------- MODULE PollIngest -----------------------------
(***************************************************************************)
(* One poll stream of the translation layer, from the vendor's history to  *)
(* the FROST targets: scheduler.runDatastreamCycle, the SULO adapter's     *)
(* FetchObservations, ingest.ProcessStream with the validator and          *)
(* writeObservation, frost.Writer.PostObservation over HTTP, and the rows  *)
(* of the Postgres state store the cycle reads and writes.                 *)
(*                                                                         *)
(* A step is one call that leaves the process (a query, a request) with    *)
(* the local computation that follows it, so another actor can move        *)
(* between any two calls: the clock, the vendor, FROST completing an       *)
(* abandoned request, or a crash of the process.  Phenomenon times are the *)
(* identities of readings: 1..MaxTime on the same axis as the wall clock.  *)
(***************************************************************************)
EXTENDS Naturals, FiniteSets

CONSTANTS
    MaxTime,      \* bound: the last instant of the clock and of the readings
    NumTargets,   \* FROST targets, written in configuration order
    Lookback,     \* CursorInitLookback: the first window of a new stream
    Skew,         \* ClockSkewTolerance of the validator
    Limit,        \* rows FetchObservations asks for (1000 in the code)
    MaxOrphans,   \* bound: POSTs left on the wire by a dying process
    MaxRefusals   \* bound: (target, reading) pairs FROST answers with a 4xx

ASSUME ConstantsAssumption ==
    /\ MaxTime \in Nat \ {0} /\ NumTargets \in Nat \ {0} /\ Limit \in Nat \ {0}
    /\ Lookback \in Nat /\ Skew \in Nat
    /\ MaxOrphans \in Nat /\ MaxRefusals \in Nat

Times   == 1..MaxTime
Targets == 1..NumTargets

(* "low": the adapter drops the row (no value, low confidence);            *)
(* "invalid": the validator rejects it (missing or out-of-range result).   *)
Kinds == {"good", "invalid", "low"}

VARIABLES
    \* the environment
    reading,      \* what the vendor serves for each time
    now,          \* the wall clock
    calm,         \* nothing fails and nothing new is published any more
    \* the stream's rows in the state store
    cursor,       \* datastream.poll_cursor, 0 when null
    polled,       \* datastream.last_polled_at is not null
    linked,       \* thing.sta_thing_id / datastream.sta_datastream_id are set
    log,          \* observation_write_log: times with a row
    lastWritten,  \* datastream.last_written_at, 0 when null
    \* the FROST targets
    copies,       \* Observations stored by completed POSTs
    orphan,       \* a POST whose sender died: "none", on the "wire", "landed"
    verdict,      \* the last 4xx a target gave a reading: "none", "rejected"
                  \* (a genuine 4xx) or "limited" (429)
    \* the goroutine running the cycle
    pc, since, todo, covered, ti, wrote, permanent,
    \* history
    seen,         \* usable-by-time rows that were on offer at some fetch
    forgone       \* of those, rows a fetch left behind

envVars     == <<reading, now, calm>>
storeVars   == <<cursor, polled, linked, log, lastWritten>>
frostVars   == <<copies, orphan, verdict>>
cycleVars   == <<pc, since, todo, covered, ti, wrote, permanent>>
historyVars == <<seen, forgone>>
vars == <<envVars, storeVars, frostVars, cycleVars, historyVars>>

(* The Observation is in FROST as far as a probe can tell.                 *)
Present(k, t) == copies[k][t] > 0 \/ orphan[k][t] = "landed"

(* Nothing is owed for t any more: it was unusable, or every target holds  *)
(* it or has answered it with a 4xx.                                       *)
Settled(t) ==
    \/ reading[t] \in {"invalid", "low"}
    \/ \A k \in Targets : Present(k, t) \/ verdict[k][t] # "none"

Init ==
    /\ reading = [t \in Times |-> "none"]
    /\ now = 1 /\ calm = FALSE
    /\ cursor = 0 /\ polled = FALSE /\ linked = FALSE
    /\ log = {} /\ lastWritten = 0
    /\ copies = [k \in Targets |-> [t \in Times |-> 0]]
    /\ orphan = [k \in Targets |-> [t \in Times |-> "none"]]
    /\ verdict = [k \in Targets |-> [t \in Times |-> "none"]]
    /\ pc = "idle" /\ since = 0 /\ todo = {} /\ covered = 0
    /\ ti = 1 /\ wrote = FALSE /\ permanent = FALSE
    /\ seen = {} /\ forgone = {}

-----------------------------------------------------------------------------
(* Operators whose name starts with "Slip" are plausible slips of the code: *)
(* each is a variant of the definition that follows it, kept so that a     *)
(* property can be shown to notice it.  No specification uses them.        *)

(* Leaving the cycle.  Every return of runDatastreamCycle runs the         *)
(* deferred SetLastPolledAt; a crash runs nothing.                         *)

LeaveTo(label) ==
    /\ pc' = label /\ since' = 0 /\ todo' = {} /\ covered' = 0
    /\ ti' = 1 /\ wrote' = FALSE /\ permanent' = FALSE

SlipFail == ~calm /\ pc' = "advance" /\ todo' = {}
            /\ UNCHANGED <<since, covered, ti, wrote, permanent>>

(* A call fails in a way the code treats as retryable: the cycle returns   *)
(* with the cursor where it was.  calm switches such failures off.         *)
Fail == ~calm /\ LeaveTo("mark")

-----------------------------------------------------------------------------
(* The cycle: scheduler.runDatastreamCycle.                                *)

(* GetPollCursor; a null cursor is seeded from the clock, in memory only.  *)
SeedCursor == IF now > Lookback THEN now - Lookback ELSE 0

ReadCursor ==
    /\ pc = "idle"
    /\ \/ /\ pc' = "fetch"
          /\ since' = IF cursor = 0 THEN SeedCursor ELSE cursor
          /\ UNCHANGED <<todo, covered, ti, wrote, permanent>>
       \/ Fail
    /\ UNCHANGED <<envVars, storeVars, frostVars, historyVars>>

(* The vendor's rows after `since`, forecasts included, newest first and   *)
(* cut at Limit.                                                           *)
Newest(rows) == {t \in rows : Cardinality({u \in rows : u > t}) < Limit}

Page == Newest({t \in Times : reading[t] # "none" /\ t > since})

SlipToObservations(page) == {t \in page : reading[t] # "low"}

(* The adapter's filter: forecasts and rows without a trustworthy value    *)
(* never reach the ingest core.                                            *)
ToObservations(page) == {t \in page : t <= now /\ reading[t] # "low"}

SlipRejects(t) == reading[t] = "invalid" \/ t > now + Skew \/ t >= since

(* validator.validate, for a poll stream.                                  *)
Rejects(t) ==
    \/ reading[t] = "invalid"
    \/ t > now + Skew
    \/ t <= since

OnOffer == {t \in Times : reading[t] # "none" /\ since < t /\ t <= now}

(* FetchObservations, then validator.Filter: covered starts at the cursor  *)
(* and moves past every rejected reading; the kept ones are written next.  *)
FetchAndFilter ==
    /\ pc = "fetch"
    /\ \/ LET rejected == {t \in ToObservations(Page) : Rejects(t)}
              kept     == ToObservations(Page) \ rejected
          IN  /\ \E m \in rejected \cup {since} :
                    /\ \A u \in rejected \cup {since} : u <= m
                    /\ covered' = m
              /\ todo' = kept
              /\ pc' = IF kept = {} THEN "advance" ELSE "resolve"
              /\ seen' = seen \cup OnOffer
              /\ forgone' = forgone \cup (OnOffer \ Page)
                                    \cup {t \in seen : cursor < t /\ t <= since}
              /\ UNCHANGED <<since, ti, wrote, permanent>>
       \/ Fail /\ UNCHANGED historyVars
    /\ UNCHANGED <<envVars, storeVars, frostVars>>

(* resolveTargets runs the entity chain on every target (EntityUpsert      *)
(* models one link of it); any error stops the stream.  recordSTAIDs       *)
(* follows and its failure is swallowed.                                   *)
ResolveTargets ==
    /\ pc = "resolve"
    /\ \/ /\ pc' = "check"
          /\ linked' \in {linked, TRUE}
          /\ calm => linked'
          /\ UNCHANGED <<since, todo, covered, ti, wrote, permanent>>
       \/ Fail /\ UNCHANGED linked
    /\ UNCHANGED <<envVars, cursor, polled, log, lastWritten, frostVars, historyVars>>

(* The kept readings are written oldest first.                             *)
IsNext(t) == t \in todo /\ \A u \in todo : t <= u

(* writeObservation returned without error: the reading is covered.        *)
Cover(t) ==
    /\ todo' = todo \ {t}
    /\ covered' = IF t > covered THEN t ELSE covered
    /\ pc' = IF todo = {t} THEN "advance" ELSE "check"
    /\ ti' = 1 /\ wrote' = FALSE /\ permanent' = FALSE
    /\ UNCHANGED since

(* writeObservation's first call: is the reading in the write log?         *)
CheckLog(t) ==
    /\ pc = "check" /\ IsNext(t)
    /\ \/ t \in log /\ Cover(t)
       \/ /\ t \notin log
          /\ pc' = "probe"
          /\ UNCHANGED <<since, todo, covered, ti, wrote, permanent>>
       \/ Fail
    /\ UNCHANGED <<envVars, storeVars, frostVars, historyVars>>

SlipNextTarget ==
    /\ IF ti > NumTargets
       THEN pc' = "record" /\ UNCHANGED ti
       ELSE pc' = "probe" /\ ti' = ti + 1
    /\ UNCHANGED <<since, todo, covered>>

(* On to the next target, or to the end of writeObservation's loop.        *)
NextTarget ==
    /\ IF ti = NumTargets
       THEN pc' = "record" /\ UNCHANGED ti
       ELSE pc' = "probe" /\ ti' = ti + 1
    /\ UNCHANGED <<since, todo, covered>>

Refused == {p \in Targets \X Times : verdict[p[1]][p[2]] # "none"}

(* The target answers with a 4xx that IsPermanent recognises, 429 among    *)
(* them: note it and go on with the next target.                           *)
PermanentAnswer(t) ==
    /\ <<ti, t>> \in Refused \/ Cardinality(Refused) < MaxRefusals
    /\ \E v \in {"rejected", "limited"} : verdict' = [verdict EXCEPT ![ti][t] = v]
    /\ permanent' = TRUE
    /\ NextTarget
    /\ UNCHANGED wrote

SlipObservationExists(k, t) == FALSE

SlipFirstTargetOnly(k, t) == Present(1, t)

(* frost.Client.ObservationExists.                                         *)
ObservationExists(k, t) == Present(k, t)

(* PostObservation's idempotency probe.                                    *)
Probe(t) ==
    /\ pc = "probe" /\ IsNext(t)
    /\ \/ /\ ObservationExists(ti, t)
          /\ NextTarget
          /\ UNCHANGED <<wrote, permanent, verdict>>
       \/ /\ ~ObservationExists(ti, t)
          /\ pc' = "post"
          /\ UNCHANGED <<since, todo, covered, ti, wrote, permanent, verdict>>
       \/ PermanentAnswer(t)
       \/ Fail /\ UNCHANGED verdict
    /\ UNCHANGED <<envVars, storeVars, copies, orphan, historyVars>>

(* The POST: created, refused, answered 409 because a copy landed since    *)
(* the probe, failed before FROST took it, or taken with the answer lost.  *)
Post(t) ==
    /\ pc = "post" /\ IsNext(t)
    /\ \/ /\ copies' = [copies EXCEPT ![ti][t] = @ + 1]
          /\ wrote' = TRUE
          /\ NextTarget
          /\ UNCHANGED <<permanent, verdict>>
       \/ /\ Present(ti, t)
          /\ NextTarget
          /\ UNCHANGED <<wrote, permanent, copies, verdict>>
       \/ PermanentAnswer(t) /\ UNCHANGED copies
       \/ /\ Fail
          /\ copies' \in {copies, [copies EXCEPT ![ti][t] = @ + 1]}
          /\ UNCHANGED verdict
    /\ UNCHANGED <<envVars, storeVars, orphan, historyVars>>

SlipNothingLanded == FALSE

NothingLanded == ~wrote /\ permanent

(* Nothing new landed and some target refused for good: the reading is     *)
(* dropped without a write-log row.                                        *)
Drop(t) ==
    /\ pc = "record" /\ IsNext(t)
    /\ NothingLanded
    /\ Cover(t)
    /\ UNCHANGED <<envVars, storeVars, frostVars, historyVars>>

SlipTouchOnly(t) == UNCHANGED log /\ lastWritten' = IF lastWritten < t THEN t ELSE lastWritten

SlipLastCommitWins(t) == log' = log \cup {t} /\ lastWritten' = t

(* RecordObservationWrite: the row and last_written_at in one transaction; *)
(* the commit may succeed although its acknowledgement is lost.            *)
CommitRow(t) ==
    /\ log' = log \cup {t}
    /\ lastWritten' = IF lastWritten < t THEN t ELSE lastWritten

Record(t) ==
    /\ pc = "record" /\ IsNext(t)
    /\ ~NothingLanded
    /\ \/ CommitRow(t) /\ Cover(t)
       \/ Fail /\ CommitRow(t)
       \/ Fail /\ UNCHANGED <<log, lastWritten>>
    /\ UNCHANGED <<envVars, cursor, polled, linked, frostVars, historyVars>>

(* AdvancePollCursor, monotonic in SQL; its failure is only logged.        *)
AdvanceCursor ==
    /\ pc = "advance"
    /\ \/ /\ covered > since
          /\ cursor' = IF cursor < covered THEN covered ELSE cursor
       \/ /\ covered > since => ~calm
          /\ UNCHANGED cursor
    /\ LeaveTo("mark")
    /\ UNCHANGED <<envVars, polled, linked, log, lastWritten, frostVars, historyVars>>

(* The deferred SetLastPolledAt.                                           *)
MarkPolled ==
    /\ pc = "mark"
    /\ LeaveTo("idle")
    /\ polled' \in {polled, TRUE}
    /\ calm => polled'
    /\ UNCHANGED <<envVars, cursor, linked, log, lastWritten, frostVars, historyVars>>

WriteStep(t) == CheckLog(t) \/ Probe(t) \/ Post(t) \/ Drop(t) \/ Record(t)

Cycle ==
    \/ ReadCursor \/ FetchAndFilter \/ ResolveTargets
    \/ \E t \in Times : WriteStep(t)
    \/ AdvanceCursor \/ MarkPolled

-----------------------------------------------------------------------------
(* Everything around the cycle.                                            *)

(* The process dies (or is cancelled at shutdown, which no deferred call   *)
(* survives either) and the next one starts with an empty memory.  A POST  *)
(* that was on its way may still reach FROST later.                        *)
Orphans == {p \in Targets \X Times : orphan[p[1]][p[2]] # "none"}

Crash ==
    /\ ~calm /\ pc # "idle"
    /\ LeaveTo("idle")
    /\ \/ UNCHANGED orphan
       \/ /\ pc = "post" /\ Cardinality(Orphans) < MaxOrphans
          /\ \E t \in Times :
                /\ IsNext(t) /\ orphan[ti][t] = "none"
                /\ orphan' = [orphan EXCEPT ![ti][t] = "wire"]
    /\ UNCHANGED <<envVars, storeVars, copies, verdict, historyVars>>

Land(k, t) ==
    /\ orphan[k][t] = "wire"
    /\ orphan' = [orphan EXCEPT ![k][t] = "landed"]
    /\ UNCHANGED <<envVars, storeVars, copies, verdict, cycleVars, historyVars>>

(* The vendor may serve a row before its time comes (a forecast) or after. *)
Publish(t, kind) ==
    /\ ~calm /\ reading[t] = "none"
    /\ reading' = [reading EXCEPT ![t] = kind]
    /\ UNCHANGED <<now, calm, storeVars, frostVars, cycleVars, historyVars>>

Tick ==
    /\ now < MaxTime
    /\ now' = now + 1
    /\ UNCHANGED <<reading, calm, storeVars, frostVars, cycleVars, historyVars>>

CalmDown ==
    /\ ~calm /\ calm' = TRUE
    /\ UNCHANGED <<reading, now, storeVars, frostVars, cycleVars, historyVars>>

Environment ==
    \/ Crash
    \/ \E k \in Targets, t \in Times : Land(k, t)
    \/ \E t \in Times, kind \in Kinds : Publish(t, kind)
    \/ Tick \/ CalmDown

Next == Cycle \/ Environment

Spec == Init /\ [][Next]_vars

(* The goroutine is scheduled and its calls return (both HTTP clients have *)
(* timeouts); the ticker starts another cycle after every cycle; time      *)
(* passes.  Nothing is assumed of crashes, of the vendor or of FROST.      *)
Fairness == WF_vars(Cycle) /\ WF_vars(Tick)

FairSpec == Spec /\ Fairness

-----------------------------------------------------------------------------
(* Types.                                                                  *)

Labels == {"idle", "fetch", "resolve", "check", "probe", "post", "record",
           "advance", "mark"}

TypeOK ==
    /\ reading \in [Times -> Kinds \cup {"none"}]
    /\ now \in Times /\ calm \in BOOLEAN
    /\ cursor \in 0..MaxTime /\ polled \in BOOLEAN /\ linked \in BOOLEAN
    /\ log \in SUBSET Times /\ lastWritten \in 0..MaxTime
    /\ copies \in [Targets -> [Times -> Nat]]
    /\ orphan \in [Targets -> [Times -> {"none", "wire", "landed"}]]
    /\ verdict \in [Targets -> [Times -> {"none", "rejected", "limited"}]]
    /\ pc \in Labels /\ since \in 0..MaxTime /\ todo \in SUBSET Times
    /\ covered \in 0..MaxTime /\ ti \in Targets
    /\ wrote \in BOOLEAN /\ permanent \in BOOLEAN
    /\ seen \in SUBSET Times /\ forgone \in SUBSET Times

-----------------------------------------------------------------------------
(* Safety.                                                                 *)

(* Cursor rule (F1 step 7): a reading that was on offer and was not left   *)
(* behind by the fetch is settled before the cursor passes it, whatever    *)
(* crashes, transient errors and lost acknowledgements came in between.    *)
SettledBelowCursor ==
    \A t \in seen \ forgone : t <= cursor => Settled(t)

(* Replays are idempotent: however often a cycle is retried after a crash  *)
(* or a lost answer, its completed POSTs store a reading at most once per  *)
(* target.  (A POST orphaned by a crash can still land beside them.)        *)
NoReplayDuplicate ==
    \A k \in Targets, t \in Times : copies[k][t] <= 1

(* The write log answers for FROST: a row is only written when nothing is  *)
(* owed for the reading and some target really holds it, so skipping on a  *)
(* log hit never hides data that is nowhere (ingest.go:322-325).           *)
LogRowsAreBacked ==
    \A t \in log : Settled(t) /\ \E k \in Targets : Present(k, t)

(* The watchdog's clock, last_written_at, is the newest row of the write   *)
(* log, even when a reading that is served late, while the cursor has not  *)
(* moved, is written after a newer one (pgstore.go:272-276).               *)
FreshnessTracksLog ==
    /\ \A t \in log : t <= lastWritten
    /\ lastWritten \in log \cup {0}

(* A forecast never moves the cursor past the present: it would shut out   *)
(* every real reading until that time (sulo.go:235-243).                   *)
CursorNotAhead == cursor <= now

-----------------------------------------------------------------------------
(* The inductive strengthening of the safety properties, by parts.         *)

Writing == {"check", "probe", "post", "record"}

(* No time the layer acts on lies in the future.                           *)
NothingFromTheFuture ==
    /\ cursor <= now /\ since <= now /\ covered <= now
    /\ \A t \in todo : t <= now
    /\ \A t \in seen : t <= now /\ reading[t] # "none"

(* Between the fetch and the cursor update, what is owed is still queued.  *)
OwedIsQueued ==
    /\ pc \in Writing \cup {"resolve", "advance"} =>
          \A t \in seen \ forgone : Settled(t) \/ t \in todo
    /\ pc = "advance" => todo = {}

(* What writeObservation has established about the reading in hand.        *)
ProgressOnTargets ==
    \A t \in Times : IsNext(t) =>
        /\ pc \in {"probe", "post"} =>
              \A k \in 1..(ti - 1) : Present(k, t) \/ verdict[k][t] # "none"
        /\ pc = "record" =>
              \A k \in Targets : Present(k, t) \/ verdict[k][t] # "none"
        /\ wrote => \E k \in Targets : Present(k, t)
        /\ (pc \in {"probe", "post"} /\ ~permanent) =>
              \A k \in 1..(ti - 1) : Present(k, t)
        /\ (pc = "record" /\ ~permanent) => \A k \in Targets : Present(k, t)

(* A POST follows a probe that found nothing.                              *)
PostIsFresh ==
    \A t \in Times : (pc = "post" /\ IsNext(t)) => copies[ti][t] = 0

(* wrote and permanent speak of the reading in hand only.                  *)
FreshCounters ==
    pc \notin {"probe", "post", "record"} => ti = 1 /\ ~wrote /\ ~permanent

(* The window a cycle fetches starts at the cursor or, while the cursor is *)
(* null, later.                                                            *)
WindowAboveCursor == pc \notin {"idle", "mark"} => cursor <= since

IInv ==
    /\ SettledBelowCursor /\ NoReplayDuplicate /\ LogRowsAreBacked
    /\ FreshnessTracksLog
    /\ NothingFromTheFuture /\ OwedIsQueued /\ ProgressOnTargets
    /\ PostIsFresh /\ FreshCounters /\ WindowAboveCursor

-----------------------------------------------------------------------------
(* The pipeline implements the ledger.                                     *)

Owed == {t \in seen \ forgone : ~Settled(t)}
Done == {t \in seen : Settled(t)}

Ledger == INSTANCE DeliveryLedger WITH
    Readings <- Times, owed <- Owed, done <- Done, behind <- forgone, mark <- cursor

(* Every step is a step of the ledger or leaves it alone: an owed reading  *)
(* is only ever dealt with or left behind by a fetch, and the cursor only  *)
(* advances, never past an owed reading.                                   *)
ImplementsLedger == Ledger!Spec

-----------------------------------------------------------------------------
(* Liveness, once failures have stopped.                                   *)

(* A reading the stream still has to deal with when a cycle may start.     *)
Due(t) ==
    \/ t \in seen
    \/ pc = "idle" /\ cursor # 0 /\ cursor < t /\ reading[t] # "none"

(* Whatever the failures left half done, once they stop every reading that *)
(* is due is settled, unless the fetch window leaves it behind.            *)
BacklogIsSettled ==
    \A t \in Times : (calm /\ Due(t)) ~> (Settled(t) \/ t \in forgone)

-----------------------------------------------------------------------------
(* What the documents and comments say and the code does not do.           *)

(* errors.go:29-30 sets 429 apart from the non-retryable 4xx answers: a    *)
(* reading below the cursor should be in every target that has not really  *)
(* rejected it.                                                            *)
RateLimitIsRetried ==
    \A t \in seen \ forgone, k \in Targets :
        (t <= cursor /\ reading[t] = "good" /\ verdict[k][t] = "limited")
            => Present(k, t)

(* Design document, line 147 and 194: the adapter pages until the vendor's *)
(* answer is exhausted, so a backlog is written in full.                   *)
BacklogIsNeverCut ==
    \A t \in seen : t <= cursor => Settled(t)
=============================================================================
