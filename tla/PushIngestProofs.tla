-------------------------- MODULE PushIngestProofs --------------------------
(***************************************************************************)
(* Proofs about PushIngest, for any number of handlers and targets and any *)
(* batches.                                                                *)
(***************************************************************************)
EXTENDS PushIngest, TLAPS

-----------------------------------------------------------------------------
(* Type correctness.                                                       *)

LEMMA FreeTyped == Free \in Holdings
  BY ConstantsAssumption DEF Free, Holdings, Labels, Targets

LEMMA InitTyped == Init => TypeOK
<1> SUFFICES ASSUME Init PROVE TypeOK
  OBVIOUS
<1>1. work \in [Handlers -> Holdings]
  BY FreeTyped DEF Init
<1> QED BY <1>1 DEF Init, TypeOK

(* One handler moves; the others keep what they hold.                      *)
LEMMA BecomeMoves ==
    ASSUME TypeOK, NEW h \in Handlers, NEW w, Become(h, w)
    PROVE  /\ work'[h] = w
           /\ \A g \in Handlers \ {h} : work'[g] = work[g]
           /\ w \in Holdings => work' \in [Handlers -> Holdings]
  BY DEF Become, TypeOK

LEMMA FailTyped ==
    ASSUME TypeOK, NEW h \in Handlers, Fail(h)
    PROVE  work' \in [Handlers -> Holdings] /\ work'[h] = Free
  BY BecomeMoves, FreeTyped DEF Fail

LEMMA CoverTyped ==
    ASSUME TypeOK, NEW h \in Handlers, NEW r \in Readings, Cover(h, r)
    PROVE  work' \in [Handlers -> Holdings]
<1> DEFINE label == IF work[h].todo = {r} THEN "stream" ELSE "check"
           w == [work[h] EXCEPT !.pc = label, !.todo = @ \ {r}, !.cur = {},
                                !.ti = 1, !.wrote = FALSE, !.permanent = FALSE]
<1>1. w \in Holdings
  <2>1. label \in Labels /\ 1 \in Targets /\ work[h] \in Holdings
    BY ConstantsAssumption DEF TypeOK, Labels, Targets
  <2> HIDE DEF label
  <2> QED BY <2>1 DEF Holdings
<1>2. Become(h, w)
  BY DEF Cover
<1> HIDE DEF w
<1> QED BY <1>1, <1>2, BecomeMoves

LEMMA NextTargetTyped ==
    ASSUME TypeOK, NEW h \in Handlers, NEW w \in Holdings, NextTarget(h, w)
    PROVE  work' \in [Handlers -> Holdings]
<1> DEFINE v == IF w.ti = NumTargets THEN [w EXCEPT !.pc = "record"]
                                     ELSE [w EXCEPT !.pc = "probe", !.ti = @ + 1]
<1>1. v \in Holdings
  <2>1. w.ti \in 1..NumTargets
    BY DEF Holdings, Targets
  <2>2. CASE w.ti = NumTargets
    BY <2>2 DEF Holdings, Labels
  <2>3. CASE w.ti # NumTargets
    <3>1. w.ti + 1 \in Targets
      BY <2>1, <2>3, ConstantsAssumption DEF Targets
    <3> QED BY <2>3, <3>1 DEF Holdings, Labels
  <2> QED BY <2>2, <2>3
<1>2. Become(h, v)
  BY DEF NextTarget
<1> HIDE DEF v
<1> QED BY <1>1, <1>2, BecomeMoves

LEMMA PermanentTyped ==
    ASSUME TypeOK, NEW h \in Handlers, NEW r \in Readings, PermanentAnswer(h, r)
    PROVE  /\ work' \in [Handlers -> Holdings]
           /\ verdict' \in [Targets -> [Readings -> BOOLEAN]]
<1>1. [work[h] EXCEPT !.permanent = TRUE] \in Holdings
  BY DEF TypeOK, Holdings
<1>2. verdict' \in [Targets -> [Readings -> BOOLEAN]]
  BY DEF PermanentAnswer, TypeOK
<1> QED BY <1>1, <1>2, NextTargetTyped DEF PermanentAnswer
(* What FROST holds after a POST, whatever its answer.                      *)
LEMMA PostStores ==
    ASSUME TypeOK, NEW h \in Handlers, NEW r \in Readings, Post(h, r)
    PROVE  /\ work[h].ti \in Targets
           /\ copies' \in [Targets -> [Readings -> Nat]]
           /\ \A k \in Targets, q \in Readings :
                 \/ copies'[k][q] = copies[k][q]
                 \/ k = work[h].ti /\ q = r /\ copies'[k][q] = copies[k][q] + 1
<1>1. work[h].ti \in Targets
  BY DEF TypeOK, Holdings
<1>2. copies' = copies \/ copies' = [copies EXCEPT ![work[h].ti][r] = @ + 1]
  BY DEF Post, frostVars
<1>3. copies \in [Targets -> [Readings -> Nat]]
  BY DEF TypeOK
<1>4. CASE copies' = [copies EXCEPT ![work[h].ti][r] = @ + 1]
  BY <1>1, <1>3, <1>4
<1> QED BY <1>1, <1>2, <1>3, <1>4

(* What a 4xx leaves behind.                                                *)
LEMMA RefusalNoted ==
    ASSUME TypeOK, NEW h \in Handlers, NEW r \in Readings, PermanentAnswer(h, r)
    PROVE  /\ work[h].ti \in Targets
           /\ \A k \in Targets, q \in Readings : verdict[k][q] => verdict'[k][q]
           /\ verdict'[work[h].ti][r]
<1>1. work[h].ti \in Targets
  BY DEF TypeOK, Holdings
<1>2. verdict \in [Targets -> [Readings -> BOOLEAN]]
  BY DEF TypeOK
<1>3. verdict' = [verdict EXCEPT ![work[h].ti][r] = TRUE]
  BY DEF PermanentAnswer
<1> QED BY <1>1, <1>2, <1>3

LEMMA TypeStep == TypeOK /\ [Next]_vars => TypeOK'
<1> SUFFICES ASSUME TypeOK, [Next]_vars PROVE TypeOK'
  OBVIOUS
<1> USE DEF storeVars, frostVars
<1> DEFINE WorkTyped == work' \in [Handlers -> Holdings]
<1>1. ASSUME NEW h \in Handlers, NEW batch \in Batches, Receive(h, batch) PROVE TypeOK'
  <2>1. [Free EXCEPT !.pc = "register", !.queue = batch] \in Holdings
    BY FreeTyped DEF Holdings, Labels, Readings
  <2>2. WorkTyped
    BY <1>1, <2>1, BecomeMoves DEF Receive
  <2>3. raced' \in SUBSET Readings
    BY <1>1 DEF Receive, TypeOK, Readings
  <2> QED BY <1>1, <2>2, <2>3 DEF Receive, TypeOK
<1>2. ASSUME NEW h \in Handlers, Register(h) \/ Resolve(h) \/ Accept(h) PROVE TypeOK'
  <2>1. [work[h] EXCEPT !.pc = "stream"] \in Holdings /\ [work[h] EXCEPT !.pc = "check"] \in Holdings
    BY DEF TypeOK, Holdings, Labels
  <2>2. WorkTyped
    BY <1>2, <2>1, FreeTyped, FailTyped, BecomeMoves DEF Register, Resolve, Accept
  <2> QED BY <1>2, <2>2 DEF Register, Resolve, Accept, TypeOK
<1>3. ASSUME NEW h \in Handlers, TakeStream(h) PROVE TypeOK'
  <2>0. PICK s \in {r[1] : r \in work[h].queue} :
          \E kept \in SUBSET Of(work[h].queue, s) :
            Become(h, [work[h] EXCEPT
                         !.pc = IF kept = {} THEN "stream" ELSE "resolve",
                         !.queue = @ \ Of(@, s),
                         !.todo = kept,
                         !.accepted = @ \cup kept])
    BY <1>3 DEF TakeStream
  <2>1. PICK kept \in SUBSET Of(work[h].queue, s) :
            Become(h, [work[h] EXCEPT
                         !.pc = IF kept = {} THEN "stream" ELSE "resolve",
                         !.queue = @ \ Of(@, s),
                         !.todo = kept,
                         !.accepted = @ \cup kept])
    BY <2>0
  <2> DEFINE label == IF kept = {} THEN "stream" ELSE "resolve"
             rest == work[h].queue \ Of(work[h].queue, s)
  <2>2. label \in Labels /\ work[h] \in Holdings
    BY DEF Labels, TypeOK
  <2>3. rest \in SUBSET Readings /\ kept \in SUBSET Readings
    BY <2>2 DEF Holdings, Of
  <2>4. Become(h, [work[h] EXCEPT !.pc = label, !.queue = rest, !.todo = kept,
                                  !.accepted = @ \cup kept])
    BY <2>1
  <2> HIDE DEF label, rest
  <2>5. [work[h] EXCEPT !.pc = label, !.queue = rest, !.todo = kept,
                        !.accepted = @ \cup kept] \in Holdings
    BY <2>2, <2>3 DEF Holdings
  <2>6. WorkTyped
    BY <2>4, <2>5, BecomeMoves
  <2> QED BY <1>3, <2>6 DEF TakeStream, TypeOK
<1>4. ASSUME NEW h \in Handlers, NEW r \in Readings, WriteStep(h, r) PROVE TypeOK'
  <2> DEFINE VerdictTyped == verdict' \in [Targets -> [Readings -> BOOLEAN]]
  <2>1. CASE CheckLog(h, r)
    <3>1. [work[h] EXCEPT !.pc = "probe", !.cur = {r}] \in Holdings
      BY DEF TypeOK, Holdings, Labels
    <3>2. WorkTyped
      BY <2>1, <3>1, CoverTyped, FailTyped, BecomeMoves DEF CheckLog
    <3> QED BY <2>1, <3>2 DEF CheckLog, TypeOK
  <2>2. CASE Probe(h, r)
    <3>1. [work[h] EXCEPT !.pc = "post"] \in Holdings /\ work[h] \in Holdings
      BY DEF TypeOK, Holdings, Labels
    <3>2. WorkTyped /\ VerdictTyped
      BY <2>2, <3>1, NextTargetTyped, PermanentTyped, FailTyped, BecomeMoves DEF Probe, TypeOK
    <3> QED BY <2>2, <3>2 DEF Probe, TypeOK
  <2>3. CASE Post(h, r)
    <3>1. [work[h] EXCEPT !.wrote = TRUE] \in Holdings /\ work[h] \in Holdings
      BY DEF TypeOK, Holdings
    <3>2. WorkTyped /\ VerdictTyped
      BY <2>3, <3>1, NextTargetTyped, PermanentTyped, FailTyped DEF Post, TypeOK
    <3>3. copies' \in [Targets -> [Readings -> Nat]]
      BY <2>3, PostStores DEF TypeOK
    <3> QED BY <2>3, <3>2, <3>3 DEF Post, TypeOK
  <2>4. CASE Drop(h, r)
    BY <2>4, CoverTyped DEF Drop, TypeOK
  <2>5. CASE Record(h, r)
    <3>1. WorkTyped
      BY <2>5, CoverTyped, FailTyped DEF Record
    <3>2. r[1] \in Streams /\ r[2] \in Nat
      BY ConstantsAssumption DEF Readings, Streams
    <3>3. log' \in SUBSET Readings /\ lastWritten' \in [Streams -> Nat]
      BY <2>5, <3>2 DEF Record, CommitRow, TypeOK
    <3> QED BY <2>5, <3>1, <3>3 DEF Record, TypeOK
  <2> QED BY <1>4, <2>1, <2>2, <2>3, <2>4, <2>5 DEF WriteStep
<1>5. CASE Crash
  BY <1>5, FreeTyped DEF Crash, TypeOK
<1>6. CASE UNCHANGED vars
  BY <1>6 DEF vars, TypeOK
<1> QED BY <1>1, <1>2, <1>3, <1>4, <1>5, <1>6 DEF Next, Serve

(* Requests with their rows, answers and races keep to their types.        *)
THEOREM TypeCorrect == Spec => []TypeOK
  BY InitTyped, TypeStep, PTL DEF Spec

-----------------------------------------------------------------------------
(* Nothing that was stored, refused, logged or noticed is taken back.      *)

Grows ==
    /\ \A k \in Targets, r \in Readings :
          /\ copies'[k][r] >= copies[k][r]
          /\ verdict[k][r] => verdict'[k][r]
    /\ log \subseteq log' /\ raced \subseteq raced'

LEMMA StepGrows == TypeOK /\ [Next]_vars => Grows
<1> SUFFICES ASSUME TypeOK, [Next]_vars PROVE Grows
  OBVIOUS
<1> USE DEF storeVars, frostVars, Grows
<1>0. \A k \in Targets, r \in Readings : copies[k][r] \in Nat
  BY DEF TypeOK
<1>1. ASSUME NEW h \in Handlers, NEW batch \in Batches, Receive(h, batch) PROVE Grows
  BY <1>0, <1>1 DEF Receive
<1>2. ASSUME NEW h \in Handlers, Register(h) \/ Resolve(h) \/ Accept(h) \/ TakeStream(h)
      PROVE  Grows
  <2>1. UNCHANGED <<storeVars, frostVars, raced>>
    BY <1>2 DEF Register, Resolve, Accept, TakeStream
  <2> QED BY <1>0, <2>1
<1>3. ASSUME NEW h \in Handlers, NEW r \in Readings, WriteStep(h, r) PROVE Grows
  <2>1. CASE CheckLog(h, r) \/ Drop(h, r) \/ Record(h, r)
    <3>1. UNCHANGED <<frostVars, raced>>
      BY <2>1 DEF CheckLog, Drop, Record
    <3>2. log \subseteq log'
      BY <2>1 DEF CheckLog, Drop, Record, CommitRow
    <3> QED BY <1>0, <3>1, <3>2
  <2>2. CASE Probe(h, r)
    <3>1. UNCHANGED <<storeVars, copies, raced>>
      BY <2>2 DEF Probe
    <3>2. \A k \in Targets, q \in Readings : verdict[k][q] => verdict'[k][q]
      BY <2>2, RefusalNoted DEF Probe
    <3> QED BY <1>0, <3>1, <3>2
  <2>3. CASE Post(h, r)
    <3>1. UNCHANGED storeVars /\ UNCHANGED raced
      BY <2>3 DEF Post
    <3>2. \A k \in Targets, q \in Readings : copies'[k][q] >= copies[k][q]
      BY <1>0, <2>3, PostStores, SMTT(30) DEF TypeOK
    <3>3. \A k \in Targets, q \in Readings : verdict[k][q] => verdict'[k][q]
      BY <2>3, RefusalNoted DEF Post
    <3> QED BY <3>1, <3>2, <3>3
  <2> QED BY <1>3, <2>1, <2>2, <2>3 DEF WriteStep
<1>4. CASE Crash \/ UNCHANGED vars
  BY <1>0, <1>4 DEF Crash, vars
<1> QED BY <1>1, <1>2, <1>3, <1>4 DEF Next, Serve

LEMMA SettledStays ==
    ASSUME TypeOK, [Next]_vars, NEW r \in Readings
    PROVE  /\ \A k \in Targets : Present(k, r) => Present(k, r)'
           /\ Settled(r) => Settled(r)'
<1>1. \A k \in Targets : copies[k][r] \in Nat /\ copies'[k][r] \in Nat
  BY TypeStep DEF TypeOK
<1>2. \A k \in Targets : Present(k, r) => Present(k, r)'
  BY <1>1, StepGrows DEF Grows, Present
<1> QED BY <1>2, StepGrows DEF Grows, Settled
-----------------------------------------------------------------------------
(* What the pieces of writeObservation do to the handler.                  *)

LEMMA CoverEffect ==
    ASSUME TypeOK, NEW h \in Handlers, NEW r \in Readings, Cover(h, r)
    PROVE  /\ work'[h].pc = IF work[h].todo = {r} THEN "stream" ELSE "check"
           /\ work'[h].todo = work[h].todo \ {r} /\ work'[h].cur = {}
           /\ work'[h].queue = work[h].queue /\ work'[h].accepted = work[h].accepted
           /\ work'[h].ti = 1 /\ ~work'[h].wrote /\ ~work'[h].permanent
           /\ \A g \in Handlers \ {h} : work'[g] = work[g]
<1>1. work[h] \in Holdings
  BY DEF TypeOK
<1> QED BY <1>1 DEF Cover, Become, TypeOK, Holdings

LEMMA NextTargetEffect ==
    ASSUME TypeOK, NEW h \in Handlers, NEW w \in Holdings, NextTarget(h, w)
    PROVE  /\ work'[h].todo = w.todo /\ work'[h].cur = w.cur
           /\ work'[h].queue = w.queue /\ work'[h].accepted = w.accepted
           /\ work'[h].wrote = w.wrote /\ work'[h].permanent = w.permanent
           /\ \/ work'[h].pc = "record" /\ w.ti = NumTargets
              \/ work'[h].pc = "probe" /\ w.ti # NumTargets /\ work'[h].ti = w.ti + 1
           /\ \A g \in Handlers \ {h} : work'[g] = work[g]
<1>1. CASE w.ti = NumTargets
  BY <1>1 DEF NextTarget, Become, TypeOK, Holdings
<1>2. CASE w.ti # NumTargets
  BY <1>2 DEF NextTarget, Become, TypeOK, Holdings
<1> QED BY <1>1, <1>2

LEMMA FailEffect ==
    ASSUME TypeOK, NEW h \in Handlers, Fail(h)
    PROVE  work'[h] = Free /\ \A g \in Handlers \ {h} : work'[g] = work[g]
  BY BecomeMoves DEF Fail
-----------------------------------------------------------------------------
(* The handlers' part of the inductive invariant.                          *)

HandlerInvariant(h) ==
    InStage(work[h]) /\ InProgress(work[h]) /\ Accounted(work[h]) /\ ProbeHolds(work[h])

LEMMA FreeIsFine ==
    ASSUME NEW h \in Handlers, work'[h] = Free
    PROVE  HandlerInvariant(h)'
  BY DEF Free, HandlerInvariant, InStage, InProgress, Accounted, ProbeHolds, Writing

LEMMA HoldingsTyped ==
    ASSUME TypeOK, NEW h \in Handlers
    PROVE  /\ work[h] \in Holdings /\ work[h].ti \in Targets
           /\ work[h].todo \subseteq Readings /\ work[h].cur \subseteq Readings
           /\ work[h].accepted \subseteq Readings /\ work[h].queue \subseteq Readings
  BY DEF TypeOK, Holdings

(* A handler that does not move keeps its part, unless a POST of another   *)
(* handler made a reading present that it was about to post itself.        *)
LEMMA OthersKeep ==
    ASSUME TypeOK, [Next]_vars, NEW g \in Handlers, HandlerInvariant(g), work'[g] = work[g],
           \A k \in Targets, q \in work[g].cur :
               copies'[k][q] = copies[k][q] \/ q \in raced
    PROVE  HandlerInvariant(g)'
<1>1. /\ \A r \in work[g].cur, k \in Targets : Present(k, r) => Present(k, r)'
      /\ \A r \in work[g].accepted : Settled(r) => Settled(r)'
  BY HoldingsTyped, SettledStays
<1>2. \A r \in work[g].cur, k \in Targets : verdict[k][r] => verdict'[k][r]
  BY HoldingsTyped, StepGrows DEF Grows
<1>3. Done(work[g]) \subseteq Targets
  BY HoldingsTyped, ConstantsAssumption DEF Done, Targets
<1>4. InProgress(work[g])'
  BY <1>1, <1>2, <1>3 DEF HandlerInvariant, InProgress
<1>5. Accounted(work[g])'
  BY <1>1 DEF HandlerInvariant, Accounted
<1>6. ProbeHolds(work[g])'
  BY HoldingsTyped, StepGrows DEF HandlerInvariant, ProbeHolds, Present, Grows
<1>7. InStage(work[g])'
  BY DEF HandlerInvariant, InStage
<1> QED BY <1>4, <1>5, <1>6, <1>7 DEF HandlerInvariant

(* The reading in hand is done: every target has it or refused it.         *)
LEMMA CoverKeeps ==
    ASSUME TypeOK, [Next]_vars, NEW h \in Handlers, NEW r \in Readings,
           HandlerInvariant(h), Cover(h, r), Settled(r)
    PROVE  HandlerInvariant(h)'
<1>1. \A q \in work[h].accepted : Settled(q) => Settled(q)'
  BY HoldingsTyped, SettledStays
<1>2. Settled(r)'
  BY SettledStays
<1>3. Accounted(work[h])'
  BY <1>1, <1>2, CoverEffect DEF HandlerInvariant, Accounted
<1>4. InStage(work[h])'
  BY CoverEffect DEF InStage, Writing
<1>5. InProgress(work[h])' /\ ProbeHolds(work[h])'
  BY CoverEffect DEF InProgress, ProbeHolds
<1> QED BY <1>3, <1>4, <1>5 DEF HandlerInvariant

(* The loop goes past a target that holds the reading or refused it.       *)
LEMMA PassTarget ==
    ASSUME TypeOK, [Next]_vars, NEW h \in Handlers, NEW r \in Readings,
           HandlerInvariant(h), work[h].pc \in {"probe", "post"}, r \in work[h].cur,
           NEW w \in Holdings, NextTarget(h, w),
           w.ti = work[h].ti, w.cur = work[h].cur, w.todo = work[h].todo,
           w.accepted = work[h].accepted, w.queue = work[h].queue,
           work[h].permanent => w.permanent,
           copies'[w.ti][r] > 0 \/ (verdict'[w.ti][r] /\ w.permanent),
           w.wrote => work[h].wrote \/ copies'[w.ti][r] > 0
    PROVE  HandlerInvariant(h)'
<1>0. copies'[w.ti][r] > 0 => \E k \in Targets : Present(k, r)' /\ k = w.ti
  BY HoldingsTyped DEF Present
<1>1. work[h].ti \in 1..NumTargets /\ work[h].cur = {r} /\ r \in work[h].todo
  BY HoldingsTyped DEF HandlerInvariant, InStage, Writing, Targets
<1>2. work'[h].cur = {r} /\ r \in work'[h].todo
  BY <1>1, NextTargetEffect
<1>3. InStage(work[h])'
  BY <1>2, NextTargetEffect DEF InStage, Writing
<1>4. \A k \in Targets : k < w.ti => Present(k, r)' \/ (verdict'[k][r] /\ w.permanent)
  <2> SUFFICES ASSUME NEW k \in Targets, k < w.ti
               PROVE  Present(k, r)' \/ (verdict'[k][r] /\ w.permanent)
    OBVIOUS
  <2>1. k \in Done(work[h])
    BY <1>1 DEF Done, Targets
  <2>2. Present(k, r) \/ (verdict[k][r] /\ work[h].permanent)
    BY <2>1, <1>1 DEF HandlerInvariant, InProgress
  <2> QED BY <2>2, SettledStays, StepGrows DEF Grows
<1>5. \A k \in Done(work'[h]) : k \in Targets /\ k <= w.ti
  <2>1. CASE work'[h].pc = "record" /\ w.ti = NumTargets
    BY <2>1, ConstantsAssumption DEF Done, Targets
  <2>2. CASE work'[h].pc = "probe" /\ work'[h].ti = w.ti + 1
    BY <1>1, <2>2, ConstantsAssumption DEF Done, Targets
  <2> QED BY <2>1, <2>2, NextTargetEffect
<1>6. work'[h].wrote => \E k \in Targets : Present(k, r)'
  <2>1. work[h].wrote => \E k \in Targets : Present(k, r)
    BY <1>1 DEF HandlerInvariant, InProgress
  <2> QED BY <1>0, <1>1, <2>1, NextTargetEffect, SettledStays DEF Targets
<1>7. InProgress(work[h])'
  BY <1>0, <1>1, <1>2, <1>4, <1>5, <1>6, NextTargetEffect DEF InProgress, Targets
<1>8. Accounted(work[h])'
  BY HoldingsTyped, SettledStays, NextTargetEffect DEF HandlerInvariant, Accounted
<1>9. ProbeHolds(work[h])'
  BY NextTargetEffect DEF ProbeHolds
<1> QED BY <1>3, <1>7, <1>8, <1>9 DEF HandlerInvariant
LEMMA HandlersStep == TypeOK /\ IInv /\ [Next]_vars => HandlersInvariant'
<1> SUFFICES ASSUME TypeOK, IInv, [Next]_vars, NEW g \in Handlers
             PROVE  HandlerInvariant(g)'
  BY DEF HandlersInvariant, HandlerInvariant
<1> USE DEF storeVars, frostVars
<1>0. HandlerInvariant(g)
  BY DEF IInv, HandlersInvariant, HandlerInvariant
<1>k. work'[g] = work[g] /\ UNCHANGED copies => HandlerInvariant(g)'
  BY <1>0, OthersKeep
<1>1. ASSUME NEW h \in Handlers, NEW batch \in Batches, Receive(h, batch)
      PROVE  HandlerInvariant(g)'
  <2>1. CASE g = h
    <3>1. work'[h] = [Free EXCEPT !.pc = "register", !.queue = batch]
      BY <1>1, BecomeMoves DEF Receive
    <3> QED BY <2>1, <3>1 DEF Free, HandlerInvariant, InStage, InProgress, Accounted,
                              ProbeHolds, Writing
  <2> QED BY <1>1, <1>k, <2>1, BecomeMoves DEF Receive
<1>2. ASSUME NEW h \in Handlers, Register(h) \/ Resolve(h) \/ Accept(h)
      PROVE  HandlerInvariant(g)'
  <2>1. CASE g # h
    BY <1>2, <1>k, <2>1, BecomeMoves DEF Register, Resolve, Accept, Fail
  <2>2. CASE work'[h] = Free
    BY <2>1, <2>2, FreeIsFine
  <2>3. CASE /\ work[h].pc \in {"register", "resolve"}
             /\ \E label \in {"stream", "check"} :
                    /\ label = "stream" => work[h].pc = "register"
                    /\ work'[h] = [work[h] EXCEPT !.pc = label]
             /\ UNCHANGED <<storeVars, frostVars, raced>> /\ g = h
    <3>1. \A r \in work[h].accepted : Settled(r) => Settled(r)'
      BY HoldingsTyped, SettledStays
    <3> QED BY <1>0, <2>3, <3>1, HoldingsTyped
            DEF Holdings, HandlerInvariant, InStage, InProgress, Accounted, ProbeHolds, Writing
  <2> QED BY <1>2, <2>1, <2>2, <2>3, BecomeMoves DEF Register, Resolve, Accept, Fail
<1>3. ASSUME NEW h \in Handlers, TakeStream(h) PROVE HandlerInvariant(g)'
  <2>1. CASE g # h
    BY <1>3, <1>k, <2>1, BecomeMoves DEF TakeStream
  <2>2. CASE g = h
    <3>1. PICK s \in {r[1] : r \in work[h].queue} :
            \E kept \in SUBSET Of(work[h].queue, s) :
              Become(h, [work[h] EXCEPT
                           !.pc = IF kept = {} THEN "stream" ELSE "resolve",
                           !.queue = @ \ Of(@, s),
                           !.todo = kept,
                           !.accepted = @ \cup kept])
      BY <1>3 DEF TakeStream
    <3>2. PICK kept \in SUBSET Of(work[h].queue, s) :
              work'[h] = [work[h] EXCEPT
                           !.pc = IF kept = {} THEN "stream" ELSE "resolve",
                           !.queue = @ \ Of(@, s),
                           !.todo = kept,
                           !.accepted = @ \cup kept]
      BY <3>1, BecomeMoves
    <3>3. work'[h].pc = (IF kept = {} THEN "stream" ELSE "resolve")
          /\ work'[h].todo = kept /\ work'[h].accepted = work[h].accepted \cup kept
          /\ work'[h].cur = work[h].cur /\ work'[h].ti = work[h].ti
          /\ work'[h].wrote = work[h].wrote /\ work'[h].permanent = work[h].permanent
      BY <3>2, HoldingsTyped DEF Holdings
    <3>4. work[h].pc = "stream"
      BY <1>3 DEF TakeStream
    <3>5. work[h].todo = {} /\ work[h].cur = {}
      BY <1>0, <2>2, <3>4 DEF HandlerInvariant, InStage, Writing
    <3>6. InStage(work[h])'
      BY <1>0, <2>2, <3>3, <3>4 DEF HandlerInvariant, InStage, Writing
    <3>7. Accounted(work[h])'
      <4>1. \A r \in work[h].accepted : Settled(r)'
        BY <1>0, <2>2, <3>5, HoldingsTyped, SettledStays DEF HandlerInvariant, Accounted
      <4> QED BY <3>3, <4>1 DEF Accounted
    <3>8. InProgress(work[h])' /\ ProbeHolds(work[h])'
      BY <3>3, <3>5 DEF InProgress, ProbeHolds
    <3> QED BY <2>2, <3>6, <3>7, <3>8 DEF HandlerInvariant
  <2> QED BY <2>1, <2>2
<1>4. ASSUME NEW h \in Handlers, NEW r \in Readings, WriteStep(h, r)
      PROVE  HandlerInvariant(g)'
  <2>f. CASE work'[g] = Free
    BY <2>f, FreeIsFine
  <2>1. CASE CheckLog(h, r)
    <3>1. CASE g # h
      BY <1>k, <2>1, <3>1, CoverEffect, FailEffect, BecomeMoves DEF CheckLog
    <3>2. CASE g = h /\ r \in log /\ Cover(h, r)
      <4>1. Settled(r)
        BY <3>2 DEF IInv, LogRowsAreBacked
      <4> QED BY <1>0, <3>2, <4>1, CoverKeeps
    <3>3. CASE g = h /\ Become(h, [work[h] EXCEPT !.pc = "probe", !.cur = {r}])
      <4>1. work[h].pc = "check" /\ r \in work[h].todo
        BY <2>1 DEF CheckLog
      <4>2. work'[h] = [work[h] EXCEPT !.pc = "probe", !.cur = {r}]
        BY <3>3, BecomeMoves
      <4>3. work'[h].pc = "probe" /\ work'[h].cur = {r} /\ work'[h].ti = work[h].ti
            /\ work'[h].todo = work[h].todo /\ work'[h].accepted = work[h].accepted
            /\ work'[h].wrote = work[h].wrote /\ work'[h].permanent = work[h].permanent
        BY <4>2, HoldingsTyped DEF Holdings
      <4>4. work[h].ti = 1 /\ ~work[h].wrote
        BY <1>0, <3>3, <4>1 DEF HandlerInvariant, InStage, Writing
      <4>5. InStage(work[h])' /\ ProbeHolds(work[h])'
        BY <4>1, <4>3 DEF InStage, ProbeHolds, Writing
      <4>6. InProgress(work[h])'
        BY <4>3, <4>4 DEF InProgress, Done
      <4>7. Accounted(work[h])'
        BY <1>0, <3>3, <4>3, HoldingsTyped, SettledStays DEF HandlerInvariant, Accounted
      <4> QED BY <3>3, <4>5, <4>6, <4>7 DEF HandlerInvariant
    <3> QED BY <2>1, <2>f, <3>1, <3>2, <3>3, FailEffect DEF CheckLog
  <2>2. CASE Probe(h, r)
    <3>0. work[h].pc = "probe" /\ r \in work[h].cur /\ UNCHANGED copies
      BY <2>2 DEF Probe
    <3>p. [work[h] EXCEPT !.permanent = TRUE] \in Holdings /\ work[h] \in Holdings
      BY HoldingsTyped DEF Holdings
    <3>1. CASE g # h
      <4>1. work'[g] = work[g]
        BY <2>2, <3>1, <3>p, NextTargetEffect, FailEffect, BecomeMoves DEF Probe, PermanentAnswer
      <4> QED BY <1>k, <3>0, <4>1
    <3>2. CASE g = h /\ Present(work[h].ti, r) /\ NextTarget(h, work[h])
      <4>1. copies'[work[h].ti][r] > 0
        BY <3>2, HoldingsTyped, SettledStays DEF Present
      <4> QED BY <1>0, <3>0, <3>2, <3>p, <4>1, PassTarget
    <3>3. CASE g = h /\ PermanentAnswer(h, r)
      <4> DEFINE w == [work[h] EXCEPT !.permanent = TRUE]
      <4>1. NextTarget(h, w) /\ w.ti = work[h].ti /\ w.cur = work[h].cur
            /\ w.todo = work[h].todo /\ w.accepted = work[h].accepted
            /\ w.queue = work[h].queue /\ w.permanent /\ w.wrote = work[h].wrote
        BY <3>3, HoldingsTyped DEF PermanentAnswer, Holdings
      <4>2. verdict'[work[h].ti][r]
        BY <3>3, RefusalNoted
      <4>3. w \in Holdings
        BY <3>p
      <4> HIDE DEF w
      <4> QED BY <1>0, <3>0, <3>3, <4>1, <4>2, <4>3, PassTarget
    <3>4. CASE g = h /\ ~Present(work[h].ti, r) /\ Become(h, [work[h] EXCEPT !.pc = "post"])
      <4>1. work'[h] = [work[h] EXCEPT !.pc = "post"]
        BY <3>4, BecomeMoves
      <4>2. work'[h].pc = "post" /\ work'[h].cur = work[h].cur /\ work'[h].ti = work[h].ti
            /\ work'[h].todo = work[h].todo /\ work'[h].accepted = work[h].accepted
            /\ work'[h].wrote = work[h].wrote /\ work'[h].permanent = work[h].permanent
        BY <4>1, HoldingsTyped DEF Holdings
      <4>3. InStage(work[h])'
        BY <1>0, <3>0, <3>4, <4>2 DEF HandlerInvariant, InStage, Writing
      <4>4. work[h].cur = {r}
        BY <1>0, <3>0, <3>4 DEF HandlerInvariant, InStage, Writing
      <4>5. ProbeHolds(work[h])'
        BY <3>0, <3>4, <4>2, <4>4 DEF ProbeHolds, Present
      <4>6. InProgress(work[h])'
        <5>1. Done(work'[h]) = Done(work[h]) /\ Done(work[h]) \subseteq Targets
          BY <3>0, <4>2, HoldingsTyped, ConstantsAssumption DEF Done, Targets
        <5>2. \A k \in Targets : Present(k, r) => Present(k, r)'
          BY SettledStays
        <5>3. \A k \in Targets : verdict[k][r] => verdict'[k][r]
          BY StepGrows DEF Grows
        <5> QED BY <1>0, <3>4, <4>2, <4>4, <5>1, <5>2, <5>3 DEF HandlerInvariant, InProgress
      <4>7. Accounted(work[h])'
        BY <1>0, <3>4, <4>2, HoldingsTyped, SettledStays DEF HandlerInvariant, Accounted
      <4> QED BY <3>4, <4>3, <4>5, <4>6, <4>7 DEF HandlerInvariant
    <3> QED BY <2>2, <2>f, <3>1, <3>2, <3>3, <3>4, FailEffect DEF Probe, ObservationExists
  <2>3. CASE Post(h, r)
    <3>0. work[h].pc = "post" /\ r \in work[h].cur
      BY <2>3 DEF Post
    <3>p. [work[h] EXCEPT !.permanent = TRUE] \in Holdings
          /\ [work[h] EXCEPT !.wrote = TRUE] \in Holdings /\ work[h] \in Holdings
      BY HoldingsTyped DEF Holdings
    <3>1. CASE g # h
      <4>1. work'[g] = work[g]
        BY <2>3, <3>1, <3>p, NextTargetEffect, FailEffect DEF Post, PermanentAnswer
      <4>2. ASSUME NEW k \in Targets, NEW q \in work[g].cur
            PROVE  copies'[k][q] = copies[k][q] \/ q \in raced
        <5>1. work[h].pc \in Writing /\ HandlerInvariant(h)
          BY <3>0 DEF Writing, IInv, HandlersInvariant, HandlerInvariant
        <5>2. r \in Carried(h)
          BY <3>0, <5>1 DEF HandlerInvariant, InStage, Carried
        <5>3. q \in Carried(g)
          BY <1>0 DEF HandlerInvariant, InStage, Carried
        <5>4. q = r => q \in raced
          BY <3>1, <5>2, <5>3 DEF IInv, SharingIsARace
        <5>5. q \in Readings
          BY HoldingsTyped
        <5> QED BY <2>3, <5>4, <5>5, PostStores
      <4> QED BY <1>0, <4>1, <4>2, OthersKeep
    <3>2. CASE g = h /\ copies' = [copies EXCEPT ![work[h].ti][r] = @ + 1]
               /\ NextTarget(h, [work[h] EXCEPT !.wrote = TRUE])
      <4> DEFINE w == [work[h] EXCEPT !.wrote = TRUE]
      <4>1. NextTarget(h, w) /\ w.ti = work[h].ti /\ w.cur = work[h].cur
            /\ w.todo = work[h].todo /\ w.accepted = work[h].accepted
            /\ w.queue = work[h].queue /\ w.permanent = work[h].permanent
        BY <3>2, HoldingsTyped DEF Holdings
      <4>2. copies'[work[h].ti][r] > 0
        BY <3>2, HoldingsTyped DEF TypeOK
      <4>3. w \in Holdings
        BY <3>p
      <4> HIDE DEF w
      <4> QED BY <1>0, <3>0, <3>2, <4>1, <4>2, <4>3, PassTarget
    <3>3. CASE g = h /\ Present(work[h].ti, r) /\ NextTarget(h, work[h])
      <4>1. copies'[work[h].ti][r] > 0
        BY <3>3, HoldingsTyped, SettledStays DEF Present
      <4> QED BY <1>0, <3>0, <3>3, <3>p, <4>1, PassTarget
    <3>4. CASE g = h /\ PermanentAnswer(h, r)
      <4> DEFINE w == [work[h] EXCEPT !.permanent = TRUE]
      <4>1. NextTarget(h, w) /\ w.ti = work[h].ti /\ w.cur = work[h].cur
            /\ w.todo = work[h].todo /\ w.accepted = work[h].accepted
            /\ w.queue = work[h].queue /\ w.permanent /\ w.wrote = work[h].wrote
        BY <3>4, HoldingsTyped DEF PermanentAnswer, Holdings
      <4>2. verdict'[work[h].ti][r]
        BY <3>4, RefusalNoted
      <4>3. w \in Holdings
        BY <3>p
      <4> HIDE DEF w
      <4> QED BY <1>0, <3>0, <3>4, <4>1, <4>2, <4>3, PassTarget
    <3> QED BY <2>3, <2>f, <3>1, <3>2, <3>3, <3>4, FailEffect DEF Post
  <2>4. CASE Drop(h, r) \/ Record(h, r)
    <3>0. work[h].pc = "record" /\ r \in work[h].cur /\ UNCHANGED copies
      BY <2>4 DEF Drop, Record
    <3>1. CASE g # h
      BY <1>k, <2>4, <3>1, CoverEffect, FailEffect DEF Drop, Record
    <3>2. CASE g = h /\ Cover(h, r)
      <4>1. Settled(r)
        BY <1>0, <3>0, <3>2 DEF HandlerInvariant, InProgress, Done, Settled
      <4> QED BY <1>0, <3>2, <4>1, CoverKeeps
    <3> QED BY <2>4, <2>f, <3>1, <3>2, FailEffect DEF Drop, Record
  <2> QED BY <1>4, <2>1, <2>2, <2>3, <2>4 DEF WriteStep
<1>5. CASE Crash
  BY <1>5, FreeIsFine DEF Crash
<1>6. CASE UNCHANGED vars
  BY <1>6, <1>k DEF vars
<1> QED BY <1>1, <1>2, <1>3, <1>4, <1>5, <1>6 DEF Next, Serve
-----------------------------------------------------------------------------
(* Races, the write log and the copies.                                    *)

(* Only a new request adds to what a handler carries.                      *)
LEMMA CarriedShrinks ==
    ASSUME TypeOK, NEW h \in Handlers,
           Register(h) \/ TakeStream(h) \/ Accept(h) \/ Resolve(h)
             \/ \E r \in Readings : WriteStep(h, r),
           NEW g \in Handlers
    PROVE  Carried(g)' \subseteq Carried(g)
<1> USE DEF Carried
<1>f. work'[g] = Free => Carried(g)' = {}
  BY DEF Free
<1>k. work'[g].queue = work[g].queue /\ work'[g].todo \subseteq work[g].todo
        => Carried(g)' \subseteq Carried(g)
  OBVIOUS
<1>1. CASE Register(h) \/ Resolve(h) \/ Accept(h)
  <2> DEFINE moved(label) == [work[h] EXCEPT !.pc = label]
  <2>1. \/ work'[g] = Free
        \/ work'[g] = work[g]
        \/ \E label \in {"stream", "check"} : g = h /\ work'[g] = moved(label)
    BY <1>1, BecomeMoves DEF Register, Resolve, Accept, Fail
  <2>2. \A label \in {"stream", "check"} :
           moved(label).queue = work[h].queue /\ moved(label).todo = work[h].todo
    BY HoldingsTyped DEF Holdings
  <2> HIDE DEF moved
  <2> QED BY <1>f, <1>k, <2>1, <2>2
<1>2. CASE TakeStream(h)
  <2>1. PICK s \in {r[1] : r \in work[h].queue} :
          \E kept \in SUBSET Of(work[h].queue, s) :
            Become(h, [work[h] EXCEPT
                         !.pc = IF kept = {} THEN "stream" ELSE "resolve",
                         !.queue = @ \ Of(@, s),
                         !.todo = kept,
                         !.accepted = @ \cup kept])
    BY <1>2 DEF TakeStream
  <2>2. PICK kept \in SUBSET Of(work[h].queue, s) :
            Become(h, [work[h] EXCEPT
                         !.pc = IF kept = {} THEN "stream" ELSE "resolve",
                         !.queue = @ \ Of(@, s),
                         !.todo = kept,
                         !.accepted = @ \cup kept])
    BY <2>1
  <2> DEFINE label == IF kept = {} THEN "stream" ELSE "resolve"
             rest == work[h].queue \ Of(work[h].queue, s)
             w == [work[h] EXCEPT !.pc = label, !.queue = rest, !.todo = kept,
                                  !.accepted = @ \cup kept]
  <2>3. work'[h].queue \subseteq work[h].queue /\ work'[h].todo = kept
    <3>1. work'[h] = w
      BY <2>2, BecomeMoves
    <3>2. rest \subseteq work[h].queue
      OBVIOUS
    <3> HIDE DEF label, rest
    <3>3. w.queue = rest /\ w.todo = kept
      BY HoldingsTyped DEF Holdings
    <3> QED BY <3>1, <3>2, <3>3
  <2>4. kept \subseteq work[h].queue
    BY DEF Of
  <2>5. g # h => work'[g] = work[g]
    BY <2>2, BecomeMoves
  <2> QED BY <2>3, <2>4, <2>5
<1>3. ASSUME NEW r \in Readings, WriteStep(h, r) PROVE Carried(g)' \subseteq Carried(g)
  <2>p. [work[h] EXCEPT !.permanent = TRUE] \in Holdings
        /\ [work[h] EXCEPT !.wrote = TRUE] \in Holdings /\ work[h] \in Holdings
    BY HoldingsTyped DEF Holdings
  <2>1. CASE CheckLog(h, r)
    <3>1. \/ work'[g] = Free
          \/ work'[g].queue = work[g].queue /\ work'[g].todo \subseteq work[g].todo
      <4> DEFINE w == [work[h] EXCEPT !.pc = "probe", !.cur = {r}]
      <4>1. w.queue = work[h].queue /\ w.todo = work[h].todo
        BY HoldingsTyped DEF Holdings
      <4>2. Cover(h, r) \/ Fail(h) \/ Become(h, w)
        BY <2>1 DEF CheckLog
      <4> HIDE DEF w
      <4> QED BY <4>1, <4>2, CoverEffect, FailEffect, BecomeMoves
    <3> QED BY <1>f, <1>k, <3>1
  <2>2. ASSUME NEW w \in Holdings, NextTarget(h, w), w.queue = work[h].queue, w.todo = work[h].todo
        PROVE  Carried(g)' \subseteq Carried(g)
    BY <1>k, <2>2, NextTargetEffect
  <2>3. PermanentAnswer(h, r) => Carried(g)' \subseteq Carried(g)
    BY <2>p, <2>2, HoldingsTyped DEF PermanentAnswer, Holdings
  <2>4. CASE Probe(h, r)
    <3>1. Become(h, [work[h] EXCEPT !.pc = "post"]) => Carried(g)' \subseteq Carried(g)
      BY <1>k, BecomeMoves, HoldingsTyped DEF Holdings
    <3> QED BY <1>f, <1>k, <2>2, <2>3, <2>4, <2>p, <3>1, FailEffect DEF Probe
  <2>5. CASE Post(h, r)
    <3>1. NextTarget(h, [work[h] EXCEPT !.wrote = TRUE]) => Carried(g)' \subseteq Carried(g)
      BY <2>p, <2>2, HoldingsTyped DEF Holdings
    <3> QED BY <1>f, <1>k, <2>2, <2>3, <2>5, <2>p, <3>1, FailEffect DEF Post
  <2>6. CASE Drop(h, r) \/ Record(h, r)
    BY <1>f, <1>k, <2>6, CoverEffect, FailEffect DEF Drop, Record
  <2> QED BY <1>3, <2>1, <2>4, <2>5, <2>6 DEF WriteStep
<1> QED BY <1>1, <1>2, <1>3

LEMMA SharingStep == TypeOK /\ IInv /\ [Next]_vars => SharingIsARace'
<1> SUFFICES ASSUME TypeOK, IInv, [Next]_vars,
                    NEW f \in Handlers, NEW g \in Handlers, f # g
             PROVE  Carried(f)' \cap Carried(g)' \subseteq raced'
  BY DEF SharingIsARace
<1>0. Carried(f) \cap Carried(g) \subseteq raced'
  BY StepGrows DEF IInv, SharingIsARace, Grows
<1>1. ASSUME NEW h \in Handlers, NEW batch \in Batches, Receive(h, batch)
      PROVE  Carried(f)' \cap Carried(g)' \subseteq raced'
  <2>1. work'[h] = [Free EXCEPT !.pc = "register", !.queue = batch]
    BY <1>1, BecomeMoves DEF Receive
  <2>2. Carried(h)' = batch
    BY <2>1 DEF Carried, Free
  <2>3. \A e \in Handlers \ {h} : Carried(e)' = Carried(e)
    BY <1>1, BecomeMoves DEF Receive, Carried
  <2>4. \A e \in Handlers : batch \cap Carried(e) \subseteq raced'
    BY <1>1 DEF Receive
  <2> QED BY <1>0, <2>2, <2>3, <2>4
<1>2. ASSUME NEW h \in Handlers, Serve(h)
      PROVE  Carried(f)' \cap Carried(g)' \subseteq raced'
  BY <1>0, <1>2, CarriedShrinks DEF Serve
<1>3. CASE Crash
  BY <1>3 DEF Crash, Carried, Free
<1>4. CASE UNCHANGED vars
  BY <1>0, <1>4 DEF vars, Carried
<1> QED BY <1>1, <1>2, <1>3, <1>4 DEF Next

(* The write log changes when a reading is recorded, and at no other time. *)
LEMMA LogChanges ==
    ASSUME TypeOK, IInv, [Next]_vars
    PROVE  \/ UNCHANGED <<log, lastWritten>>
           \/ \E r \in Readings :
                 /\ Settled(r) /\ \E k \in Targets : Present(k, r)
                 /\ CommitRow(r)
<1> USE DEF storeVars
<1>1. ASSUME NEW h \in Handlers, NEW r \in Readings, Record(h, r), CommitRow(r)
      PROVE  Settled(r) /\ \E k \in Targets : Present(k, r)
  <2>1. work[h].pc = "record" /\ r \in work[h].cur /\ (work[h].wrote \/ ~work[h].permanent)
    BY <1>1, HoldingsTyped DEF Record, NothingLanded, Holdings
  <2>2. InProgress(work[h])
    BY DEF IInv, HandlersInvariant
  <2>3. \A k \in Targets : Present(k, r) \/ (verdict[k][r] /\ work[h].permanent)
    BY <2>1, <2>2 DEF InProgress, Done
  <2>4. 1 \in Targets
    BY ConstantsAssumption DEF Targets
  <2> QED BY <2>1, <2>2, <2>3, <2>4 DEF InProgress, Settled
<1>2. ASSUME NEW h \in Handlers, NEW r \in Readings, WriteStep(h, r)
      PROVE  UNCHANGED <<log, lastWritten>> \/ (Record(h, r) /\ CommitRow(r))
  BY <1>2 DEF WriteStep, CheckLog, Probe, Post, Drop, Record
<1> QED BY <1>1, <1>2
        DEF Next, Serve, Receive, Register, TakeStream, Accept, Resolve, Crash, vars

LEMMA LogStep == TypeOK /\ IInv /\ [Next]_vars => LogRowsAreBacked' /\ FreshnessTracksLog'
<1> SUFFICES ASSUME TypeOK, IInv, [Next]_vars
             PROVE  LogRowsAreBacked' /\ FreshnessTracksLog'
  OBVIOUS
<1>1. \A r \in Readings : Settled(r) /\ (\E k \in Targets : Present(k, r))
                         => Settled(r)' /\ \E k \in Targets : Present(k, r)'
  BY SettledStays
<1>2. log \subseteq Readings
  BY DEF TypeOK
<1>3. CASE UNCHANGED <<log, lastWritten>>
  BY <1>1, <1>2, <1>3 DEF IInv, LogRowsAreBacked, FreshnessTracksLog, Of
<1>4. ASSUME NEW r \in Readings, Settled(r), \E k \in Targets : Present(k, r), CommitRow(r)
      PROVE  LogRowsAreBacked' /\ FreshnessTracksLog'
  <2>1. LogRowsAreBacked'
    BY <1>1, <1>2, <1>4 DEF IInv, LogRowsAreBacked, CommitRow
  <2>2. r = <<r[1], r[2]>> /\ r[2] \in Nat \ {0} /\ r[1] \in Streams
    BY ConstantsAssumption DEF Readings, Streams
  <2>3. ASSUME NEW s \in Streams
        PROVE  /\ \A q \in Of(log', s) : q[2] <= lastWritten'[s]
               /\ lastWritten'[s] # 0 => <<s, lastWritten'[s]>> \in log'
    <3>1. /\ \A q \in Of(log, s) : q[2] <= lastWritten[s] /\ q[2] \in Nat
          /\ lastWritten[s] # 0 => <<s, lastWritten[s]>> \in log
          /\ lastWritten[s] \in Nat /\ lastWritten \in [Streams -> Nat]
      BY <1>2, ConstantsAssumption DEF IInv, FreshnessTracksLog, TypeOK, Of, Readings
    <3>2. CASE s # r[1]
      BY <1>4, <2>2, <3>1, <3>2 DEF CommitRow, Of
    <3>3. CASE s = r[1] /\ lastWritten[s] < r[2]
      <4>1. lastWritten'[s] = r[2] /\ log' = log \cup {r}
        BY <1>4, <2>2, <3>1, <3>3 DEF CommitRow
      <4> QED BY <2>2, <3>1, <3>3, <4>1 DEF Of
    <3>4. CASE s = r[1] /\ ~(lastWritten[s] < r[2])
      <4>1. lastWritten'[s] = lastWritten[s] /\ log' = log \cup {r}
        BY <1>4, <2>2, <3>1, <3>4 DEF CommitRow
      <4> QED BY <2>2, <3>1, <3>4, <4>1 DEF Of
    <3> QED BY <3>2, <3>3, <3>4
  <2> QED BY <2>1, <2>3 DEF FreshnessTracksLog
<1> QED BY <1>3, <1>4, LogChanges

LEMMA DuplicatesStep == TypeOK /\ IInv /\ [Next]_vars => DuplicatesNeedARace'
<1> SUFFICES ASSUME TypeOK, IInv, [Next]_vars, NEW k \in Targets, NEW q \in Readings,
                    copies'[k][q] > 1
             PROVE  q \in raced'
  BY DEF DuplicatesNeedARace
<1> USE DEF storeVars, frostVars
<1>0. copies[k][q] > 1 => q \in raced'
  BY StepGrows DEF IInv, DuplicatesNeedARace, Grows
<1>1. ASSUME NEW h \in Handlers, NEW r \in Readings, Post(h, r) PROVE q \in raced'
  <2>1. CASE k = work[h].ti /\ q = r /\ copies'[k][q] = copies[k][q] + 1
    <3>1. Present(work[h].ti, r)
      BY <2>1 DEF TypeOK, Present
    <3>2. work[h].pc = "post" /\ r \in work[h].cur /\ ProbeHolds(work[h])
      BY <1>1 DEF Post, IInv, HandlersInvariant
    <3>3. r \in raced
      BY <3>1, <3>2 DEF ProbeHolds
    <3> QED BY <2>1, <3>3, StepGrows DEF Grows
  <2> QED BY <1>0, <1>1, <2>1, PostStores
<1>2. ASSUME NEW h \in Handlers, NEW r \in Readings, WriteStep(h, r)
      PROVE  UNCHANGED copies \/ Post(h, r)
  BY <1>2 DEF WriteStep, CheckLog, Probe, Drop, Record
<1>3. UNCHANGED copies => q \in raced'
  BY <1>0
<1> QED BY <1>1, <1>2, <1>3
        DEF Next, Serve, Receive, Register, TakeStream, Accept, Resolve, Crash, vars

-----------------------------------------------------------------------------
LEMMA InitIInv == Init => IInv
<1> SUFFICES ASSUME Init PROVE IInv
  OBVIOUS
<1>1. HandlersInvariant
  BY DEF Init, Free, HandlersInvariant, InStage, InProgress, Accounted, ProbeHolds, Writing
<1>2. SharingIsARace
  BY DEF Init, Free, SharingIsARace, Carried
<1>3. LogRowsAreBacked /\ FreshnessTracksLog /\ DuplicatesNeedARace
  BY DEF Init, LogRowsAreBacked, FreshnessTracksLog, DuplicatesNeedARace, Of
<1> QED BY <1>1, <1>2, <1>3 DEF IInv

(* The handlers' stages and progress, the log and the copies fit together  *)
(* in every reachable state.                                               *)
THEOREM InductiveInvariant == Spec => []IInv
<1>1. TypeOK /\ IInv /\ [Next]_vars => IInv'
  BY HandlersStep, SharingStep, LogStep, DuplicatesStep DEF IInv
<1> QED BY <1>1, InitIInv, TypeCorrect, PTL DEF Spec

(* No handler, however it races or retries, leaves a log row that FROST    *)
(* does not answer for.                                                    *)
THEOREM LogIsTrustworthy == Spec => []LogRowsAreBacked
<1>1. IInv => LogRowsAreBacked
  BY DEF IInv
<1> QED BY <1>1, InductiveInvariant, PTL

(* last_written_at is the maximum of its stream's rows, in any commit      *)
(* order.                                                                  *)
THEOREM FreshnessIsExact == Spec => []FreshnessTracksLog
<1>1. IInv => FreshnessTracksLog
  BY DEF IInv
<1> QED BY <1>1, InductiveInvariant, PTL

(* Re-sends that do not overlap never duplicate an Observation.            *)
THEOREM SerialResendIsSafe == Spec => []DuplicatesNeedARace
<1>1. IInv => DuplicatesNeedARace
  BY DEF IInv
<1> QED BY <1>1, InductiveInvariant, PTL

(* A 202 covers only readings that every target holds or has refused.      *)
THEOREM DurableAck == Spec => AckIsDurable
<1>1. TypeOK /\ IInv => \A h \in Handlers : Accept(h) => \A r \in work[h].accepted : Settled(r)
  BY DEF IInv, HandlersInvariant, InStage, Accounted, Accept
<1> QED BY <1>1, TypeCorrect, InductiveInvariant, PTL DEF AckIsDurable
=============================================================================
