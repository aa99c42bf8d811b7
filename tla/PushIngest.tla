----------------------------- MODULE PushIngest -----------------------------
(***************************************************************************)
(* Push mode: POST /ingest/{vendorID}.  net/http runs one goroutine per    *)
(* request, so several handlers take batches of the same streams through   *)
(* api.ingestBatch, ingest.ProcessStream and writeObservation at once, and *)
(* meet only in FROST and in the Postgres write log.  A vendor may send a  *)
(* batch again whenever it likes, and may hang up in the middle of one.    *)
(*                                                                         *)
(* A reading is <<stream, phenomenon time>>.  A step is one call that      *)
(* leaves the process, with the local computation that follows it.         *)
(***************************************************************************)
EXTENDS Naturals, FiniteSets

CONSTANTS
    Handlers,     \* request slots: how many requests can be in hand at once
    Batches,      \* the sets of readings vendors send, again and again
    NumTargets,   \* FROST targets, written in configuration order
    MaxRefusals   \* bound: (target, reading) pairs FROST answers with a 4xx

ASSUME ConstantsAssumption ==
    /\ IsFiniteSet(Handlers)
    /\ \A r \in UNION Batches : r = <<r[1], r[2]>> /\ r[2] \in Nat \ {0}
    /\ NumTargets \in Nat \ {0} /\ MaxRefusals \in Nat

Targets  == 1..NumTargets
Readings == UNION Batches
Streams  == {r[1] : r \in Readings}
Of(rs, s) == {r \in rs : r[1] = s}

VARIABLES
    work,         \* what each handler holds
    log,          \* observation_write_log: readings with a row
    lastWritten,  \* datastream.last_written_at per stream, 0 when null
    copies,       \* Observations stored by completed POSTs
    verdict,      \* a permanent 4xx was the target's last word on the reading
    raced         \* history: readings two requests have carried at once

storeVars == <<log, lastWritten>>
frostVars == <<copies, verdict>>
vars == <<work, storeVars, frostVars, raced>>

(* queue: readings of streams not begun; todo: kept readings of the stream *)
(* in hand, cur among them the one being written; accepted: what           *)
(* resp.Accepted counts so far.                                            *)
Free == [pc |-> "free", queue |-> {}, todo |-> {}, cur |-> {}, accepted |-> {},
         ti |-> 1, wrote |-> FALSE, permanent |-> FALSE]

Present(k, r) == copies[k][r] > 0

(* Every target holds the reading or has refused it for good.              *)
Settled(r) == \A k \in Targets : Present(k, r) \/ verdict[k][r]

Init ==
    /\ work = [h \in Handlers |-> Free]
    /\ log = {} /\ lastWritten = [s \in Streams |-> 0]
    /\ copies = [k \in Targets |-> [r \in Readings |-> 0]]
    /\ verdict = [k \in Targets |-> [r \in Readings |-> FALSE]]
    /\ raced = {}

-----------------------------------------------------------------------------
(* "Slip" definitions are plausible slips of the code next to them, kept   *)
(* so that a property can be shown to notice them; nothing uses them.      *)

Become(h, w) == work' = [work EXCEPT ![h] = w]

SlipFail(h) == Become(h, [Free EXCEPT !.pc = "stream", !.queue = work[h].queue,
                                      !.accepted = work[h].accepted])

(* A call fails retryably, or its context is cancelled because the vendor  *)
(* hung up: the handler returns, with 503 if anyone still listens.         *)
Fail(h) == Become(h, Free)

(* Readings a handler has received and not yet been through.               *)
Carried(h) == work[h].queue \cup work[h].todo

(* A request is authenticated and decoded.  batch is its observations of   *)
(* the Datastreams it declares; the others are only listed as rejected.    *)
Receive(h, batch) ==
    /\ work[h].pc = "free"
    /\ Become(h, [Free EXCEPT !.pc = "register", !.queue = batch])
    /\ raced' = raced \cup (batch \cap UNION {Carried(g) : g \in Handlers})
    /\ UNCHANGED <<storeVars, frostVars>>

(* UpsertThing and UpsertDatastream for everything the batch declares.     *)
Register(h) ==
    /\ work[h].pc = "register"
    /\ Become(h, [work[h] EXCEPT !.pc = "stream"]) \/ Fail(h)
    /\ UNCHANGED <<storeVars, frostVars, raced>>

(* The next stream of the grouped map, in any order.  The validator runs   *)
(* with a zero cursor; what it rejects depends on the values and the clock, *)
(* which nothing else here looks at.                                       *)
TakeStream(h) ==
    /\ work[h].pc = "stream"
    /\ \E s \in {r[1] : r \in work[h].queue} :
         \E kept \in SUBSET Of(work[h].queue, s) :
            Become(h, [work[h] EXCEPT
                         !.pc = IF kept = {} THEN "stream" ELSE "resolve",
                         !.queue = @ \ Of(@, s),
                         !.todo = kept,
                         !.accepted = @ \cup kept])
    /\ UNCHANGED <<storeVars, frostVars, raced>>

(* Every stream went through: 202 with the counts.                         *)
Accept(h) ==
    /\ work[h].pc = "stream" /\ work[h].queue = {}
    /\ Become(h, Free)
    /\ UNCHANGED <<storeVars, frostVars, raced>>

(* resolveTargets (EntityUpsert models one link of the chain), recordSTAIDs. *)
Resolve(h) ==
    /\ work[h].pc = "resolve"
    /\ Become(h, [work[h] EXCEPT !.pc = "check"]) \/ Fail(h)
    /\ UNCHANGED <<storeVars, frostVars, raced>>

(* The reading in hand needs no more work.  The readings of a stream are   *)
(* written in the order of the batch, which may be any order.              *)
Cover(h, r) ==
    Become(h, [work[h] EXCEPT
                 !.pc = IF work[h].todo = {r} THEN "stream" ELSE "check",
                 !.todo = @ \ {r}, !.cur = {},
                 !.ti = 1, !.wrote = FALSE, !.permanent = FALSE])

(* writeObservation's first call: is the reading in the write log?         *)
CheckLog(h, r) ==
    /\ work[h].pc = "check" /\ r \in work[h].todo
    /\ \/ r \in log /\ Cover(h, r)
       \/ r \notin log /\ Become(h, [work[h] EXCEPT !.pc = "probe", !.cur = {r}])
       \/ Fail(h)
    /\ UNCHANGED <<storeVars, frostVars, raced>>

SlipNextTarget(h, w) ==
    Become(h, IF w.ti > NumTargets THEN [w EXCEPT !.pc = "record"]
                                   ELSE [w EXCEPT !.pc = "probe", !.ti = @ + 1])

(* The loop over the targets goes on with w, or ends.                      *)
NextTarget(h, w) ==
    Become(h, IF w.ti = NumTargets THEN [w EXCEPT !.pc = "record"]
                                   ELSE [w EXCEPT !.pc = "probe", !.ti = @ + 1])

Refused == {p \in Targets \X Readings : verdict[p[1]][p[2]]}

(* A 4xx that IsPermanent recognises: note it and go on.                   *)
PermanentAnswer(h, r) ==
    /\ <<work[h].ti, r>> \in Refused \/ Cardinality(Refused) < MaxRefusals
    /\ verdict' = [verdict EXCEPT ![work[h].ti][r] = TRUE]
    /\ NextTarget(h, [work[h] EXCEPT !.permanent = TRUE])

SlipObservationExists(k, r) == FALSE

(* frost.Client.ObservationExists.                                         *)
ObservationExists(k, r) == Present(k, r)

Probe(h, r) ==
    /\ work[h].pc = "probe" /\ r \in work[h].cur
    /\ \/ /\ ObservationExists(work[h].ti, r)
          /\ NextTarget(h, work[h])
          /\ UNCHANGED verdict
       \/ /\ ~ObservationExists(work[h].ti, r)
          /\ Become(h, [work[h] EXCEPT !.pc = "post"])
          /\ UNCHANGED verdict
       \/ PermanentAnswer(h, r)
       \/ Fail(h) /\ UNCHANGED verdict
    /\ UNCHANGED <<storeVars, copies, raced>>

(* The POST: created, answered 409, refused, or failed, before FROST took  *)
(* it or after.  (PollIngest has the POST that lands later than that.)     *)
Post(h, r) ==
    LET k      == work[h].ti
        stored == [copies EXCEPT ![k][r] = @ + 1]
    IN  /\ work[h].pc = "post" /\ r \in work[h].cur
        /\ \/ /\ copies' = stored
              /\ NextTarget(h, [work[h] EXCEPT !.wrote = TRUE])
              /\ UNCHANGED verdict
           \/ /\ Present(k, r)
              /\ NextTarget(h, work[h])
              /\ UNCHANGED frostVars
           \/ PermanentAnswer(h, r) /\ UNCHANGED copies
           \/ /\ Fail(h)
              /\ copies' \in {copies, stored}
              /\ UNCHANGED verdict
        /\ UNCHANGED <<storeVars, raced>>

SlipNothingLanded(w) == FALSE

NothingLanded(w) == ~w.wrote /\ w.permanent

(* Dropped: no write-log row, and still counted as accepted.               *)
Drop(h, r) ==
    /\ work[h].pc = "record" /\ r \in work[h].cur
    /\ NothingLanded(work[h])
    /\ Cover(h, r)
    /\ UNCHANGED <<storeVars, frostVars, raced>>

SlipCommitRow(r) ==
    /\ log' = log \cup {r}
    /\ lastWritten' = [lastWritten EXCEPT ![r[1]] = r[2]]

(* The row and last_written_at, in one transaction.                        *)
CommitRow(r) ==
    /\ log' = log \cup {r}
    /\ lastWritten' = [lastWritten EXCEPT ![r[1]] = IF @ < r[2] THEN r[2] ELSE @]

(* RecordObservationWrite.  A second handler of the same reading finds the *)
(* UNIQUE row taken: its transaction is rolled back and it goes on.        *)
Record(h, r) ==
    /\ work[h].pc = "record" /\ r \in work[h].cur
    /\ ~NothingLanded(work[h])
    /\ \/ r \notin log /\ CommitRow(r) /\ Cover(h, r)
       \/ r \in log /\ Cover(h, r) /\ UNCHANGED storeVars
       \/ r \notin log /\ CommitRow(r) /\ Fail(h)
       \/ Fail(h) /\ UNCHANGED storeVars
    /\ UNCHANGED <<frostVars, raced>>

WriteStep(h, r) ==
    \/ CheckLog(h, r) \/ Probe(h, r) \/ Post(h, r) \/ Drop(h, r) \/ Record(h, r)

(* The goroutine of a request that is in hand.                             *)
Serve(h) ==
    \/ Register(h) \/ TakeStream(h) \/ Accept(h) \/ Resolve(h)
    \/ \E r \in Readings : WriteStep(h, r)

(* The process dies with every request in it.                              *)
Crash ==
    /\ \E h \in Handlers : work[h] # Free
    /\ work' = [h \in Handlers |-> Free]
    /\ UNCHANGED <<storeVars, frostVars, raced>>

Next ==
    \/ \E h \in Handlers, batch \in Batches : Receive(h, batch)
    \/ \E h \in Handlers : Serve(h)
    \/ Crash

Spec == Init /\ [][Next]_vars

-----------------------------------------------------------------------------
Labels == {"free", "register", "stream", "resolve", "check", "probe", "post",
           "record"}

Holdings == [pc : Labels, queue : SUBSET Readings, todo : SUBSET Readings,
             cur : SUBSET Readings, accepted : SUBSET Readings, ti : Targets,
             wrote : BOOLEAN, permanent : BOOLEAN]

TypeOK ==
    /\ work \in [Handlers -> Holdings]
    /\ log \in SUBSET Readings /\ lastWritten \in [Streams -> Nat]
    /\ copies \in [Targets -> [Readings -> Nat]]
    /\ verdict \in [Targets -> [Readings -> BOOLEAN]]
    /\ raced \in SUBSET Readings

(* 202 is durable (push.go:170-172): when the answer goes out, every       *)
(* reading it counts as accepted is in every target, or that target has    *)
(* refused it for good, even if this request only found a row that another *)
(* request had written, or is a retry of one that died half-way.           *)
AckIsDurable ==
    [][\A h \in Handlers : Accept(h) => \A r \in work[h].accepted : Settled(r)]_vars

(* The write log answers for FROST: a row exists only for a reading that   *)
(* nothing is owed for and that some target holds (ingest.go:321-325),     *)
(* whichever of the racing handlers wrote it.                              *)
LogRowsAreBacked ==
    \A r \in log : Settled(r) /\ \E k \in Targets : Present(k, r)

(* last_written_at is the newest row of its stream, although batches       *)
(* backfill and handlers of the same stream commit in any order.           *)
FreshnessTracksLog ==
    \A s \in Streams :
        /\ \A r \in Of(log, s) : r[2] <= lastWritten[s]
        /\ lastWritten[s] # 0 => <<s, lastWritten[s]>> \in log

(* A full re-send is safe as long as it does not overlap the first one:    *)
(* only a reading two requests carried at once is ever stored twice by     *)
(* completed POSTs.                                                        *)
DuplicatesNeedARace ==
    \A k \in Targets, r \in Readings : copies[k][r] > 1 => r \in raced

-----------------------------------------------------------------------------
(* The inductive strengthening.                                            *)

Writing == {"probe", "post", "record"}

(* A handler holds readings of a stream only while it is on that stream,   *)
(* and a reading in hand only while writeObservation runs, whose variables *)
(* are new for each reading.                                               *)
InStage(w) ==
    /\ w.pc = "free" => w = Free
    /\ w.pc \in {"register", "stream"} => w.todo = {}
    /\ w.pc \in Writing => \E r \in w.todo : w.cur = {r}
    /\ w.pc \notin Writing => w.cur = {} /\ w.ti = 1 /\ ~w.wrote /\ ~w.permanent

(* The targets the loop has been through.                                  *)
Done(w) == IF w.pc = "record" THEN Targets ELSE 1..(w.ti - 1)

(* They hold the reading or have refused it; wrote and permanent tell      *)
(* which, whatever the other handlers do to the same targets.              *)
InProgress(w) ==
    \A r \in w.cur :
        /\ \A k \in Done(w) : Present(k, r) \/ (verdict[k][r] /\ w.permanent)
        /\ w.wrote => \E k \in Targets : Present(k, r)

(* What counts as accepted is settled or still to be written.              *)
Accounted(w) == \A r \in w.accepted : r \in w.todo \/ Settled(r)

(* A handler can only post what a target has got since its probe if        *)
(* another handler has the reading too.                                    *)
ProbeHolds(w) == \A r \in w.cur : w.pc = "post" /\ Present(w.ti, r) => r \in raced

(* Readings in two hands are known to be raced.                            *)
SharingIsARace ==
    \A g, h \in Handlers : g # h => Carried(g) \cap Carried(h) \subseteq raced

HandlersInvariant ==
    \A h \in Handlers :
        InStage(work[h]) /\ InProgress(work[h]) /\ Accounted(work[h]) /\ ProbeHolds(work[h])

IInv ==
    /\ HandlersInvariant /\ SharingIsARace
    /\ LogRowsAreBacked /\ FreshnessTracksLog /\ DuplicatesNeedARace

-----------------------------------------------------------------------------
(* Design document, line 146 and ADR-011: the probe and the UNIQUE key     *)
(* make re-sends safe; a re-pushed observation does not create a           *)
(* duplicate.                                                              *)
ResendIsSafe ==
    \A k \in Targets, r \in Readings : copies[k][r] <= 1
=============================================================================
