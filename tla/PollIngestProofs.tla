-------------------------- MODULE PollIngestProofs --------------------------
(***************************************************************************)
(* Proofs about PollIngest, for every value of its constants.              *)
(***************************************************************************)
EXTENDS PollIngest, TLAPS

-----------------------------------------------------------------------------
(* Type correctness.                                                       *)

LEMMA TypeInit == Init => TypeOK
<1> SUFFICES ASSUME Init PROVE TypeOK
  OBVIOUS
<1>1. calm \in BOOLEAN /\ polled \in BOOLEAN /\ linked \in BOOLEAN
      /\ wrote \in BOOLEAN /\ permanent \in BOOLEAN
  BY Zenon DEF Init
<1> QED
  BY <1>1, ConstantsAssumption DEF Init, TypeOK, Times, Targets, Labels, Kinds

(* Leaving the cycle resets its variables to values of their types.        *)
LEMMA LeaveType ==
    ASSUME NEW label \in Labels, LeaveTo(label)
    PROVE  /\ pc' \in Labels /\ since' \in 0..MaxTime /\ todo' \in SUBSET Times
           /\ covered' \in 0..MaxTime /\ ti' \in Targets
           /\ wrote' \in BOOLEAN /\ permanent' \in BOOLEAN
<1>1. wrote' \in BOOLEAN /\ permanent' \in BOOLEAN
  BY Zenon DEF LeaveTo
<1> QED BY <1>1, ConstantsAssumption DEF LeaveTo, Times, Targets

LEMMA CoverType ==
    ASSUME TypeOK, NEW t \in Times, Cover(t)
    PROVE  /\ pc' \in Labels /\ since' \in 0..MaxTime /\ todo' \in SUBSET Times
           /\ covered' \in 0..MaxTime /\ ti' \in Targets
           /\ wrote' \in BOOLEAN /\ permanent' \in BOOLEAN
<1>1. wrote' \in BOOLEAN /\ permanent' \in BOOLEAN
  BY Zenon DEF Cover
<1> QED BY <1>1, ConstantsAssumption DEF Cover, TypeOK, Times, Targets, Labels

LEMMA NextTargetType ==
    ASSUME TypeOK, NextTarget
    PROVE  /\ pc' \in Labels /\ since' \in 0..MaxTime /\ todo' \in SUBSET Times
           /\ covered' \in 0..MaxTime /\ ti' \in Targets
  BY ConstantsAssumption DEF NextTarget, TypeOK, Targets, Labels

LEMMA PermanentAnswerType ==
    ASSUME TypeOK, NEW t \in Times, PermanentAnswer(t)
    PROVE  /\ pc' \in Labels /\ since' \in 0..MaxTime /\ todo' \in SUBSET Times
           /\ covered' \in 0..MaxTime /\ ti' \in Targets
           /\ wrote' \in BOOLEAN /\ permanent' \in BOOLEAN
           /\ verdict' \in [Targets -> [Times -> {"none", "rejected", "limited"}]]
  BY NextTargetType DEF PermanentAnswer, TypeOK

LEMMA TypeStep == TypeOK /\ [Next]_vars => TypeOK'
<1> SUFFICES ASSUME TypeOK, [Next]_vars PROVE TypeOK'
  OBVIOUS
<1> USE ConstantsAssumption
<1> USE DEF envVars, storeVars, frostVars, cycleVars, historyVars
<1> DEFINE CycleTyped ==
      /\ pc' \in Labels /\ since' \in 0..MaxTime /\ todo' \in SUBSET Times
      /\ covered' \in 0..MaxTime /\ ti' \in Targets
      /\ wrote' \in BOOLEAN /\ permanent' \in BOOLEAN
<1>0. Fail => CycleTyped
  BY LeaveType DEF Fail, Labels
<1>b. wrote \in BOOLEAN /\ permanent \in BOOLEAN
  BY DEF TypeOK
<1>1. CASE ReadCursor
  <2>1. CycleTyped
    <3>1. CASE Fail
      BY <1>0, <3>1
    <3>2. CASE ~Fail
      <4>1. wrote' = wrote /\ permanent' = permanent
        BY <1>1, <3>2, Zenon DEF ReadCursor
      <4>2. wrote' \in BOOLEAN /\ permanent' \in BOOLEAN
        BY <1>b, <4>1, Zenon
      <4>3. SeedCursor \in 0..MaxTime
        BY DEF SeedCursor, TypeOK, Times
      <4>4. since' \in 0..MaxTime
        BY <1>1, <3>2, <4>3 DEF ReadCursor, TypeOK
      <4>5. pc' = "fetch" /\ todo' = todo /\ covered' = covered /\ ti' = ti
        BY <1>1, <3>2, Zenon DEF ReadCursor
      <4> QED
        BY <4>2, <4>4, <4>5 DEF TypeOK, Labels
    <3> QED BY <3>1, <3>2
  <2> QED BY <1>1, <2>1 DEF ReadCursor, TypeOK
<1>2. CASE FetchAndFilter
  <2>1. CycleTyped
    <3>1. CASE Fail
      BY <1>0, <3>1
    <3>2. CASE ~Fail
      <4> DEFINE rejected == {t \in ToObservations(Page) : Rejects(t)}
      <4>1. PICK m \in rejected \cup {since} : covered' = m
        BY <1>2, <3>2 DEF FetchAndFilter
      <4>2. ToObservations(Page) \subseteq Times
        BY DEF ToObservations, Page, Newest
      <4>3. covered' \in 0..MaxTime
        BY <4>1, <4>2 DEF TypeOK, Times
      <4> QED BY <1>2, <3>2, <4>2, <4>3 DEF FetchAndFilter, TypeOK, Labels
    <3> QED BY <3>1, <3>2
  <2>2. seen' \in SUBSET Times /\ forgone' \in SUBSET Times
    BY <1>2 DEF FetchAndFilter, OnOffer, TypeOK
  <2> QED BY <1>2, <2>1, <2>2 DEF FetchAndFilter, TypeOK
<1>3. CASE ResolveTargets
  <2>1. CycleTyped
    BY <1>0, <1>3 DEF ResolveTargets, TypeOK, Labels
  <2> QED BY <1>3, <2>1 DEF ResolveTargets, TypeOK
<1>4. ASSUME NEW t \in Times, WriteStep(t) PROVE TypeOK'
  <2>1. CASE CheckLog(t)
    <3>1. CycleTyped
      BY <1>0, <2>1, CoverType DEF CheckLog, TypeOK, Labels
    <3> QED BY <2>1, <3>1 DEF CheckLog, TypeOK
  <2>2. CASE Probe(t)
    <3>1. CycleTyped /\ verdict' \in [Targets -> [Times -> {"none", "rejected", "limited"}]]
      BY <1>0, <2>2, NextTargetType, PermanentAnswerType
         DEF Probe, TypeOK, Labels
    <3> QED BY <2>2, <3>1 DEF Probe, TypeOK
  <2>3. CASE Post(t)
    <3>1. CycleTyped /\ verdict' \in [Targets -> [Times -> {"none", "rejected", "limited"}]]
      BY <1>0, <2>3, NextTargetType, PermanentAnswerType DEF Post, TypeOK, Labels
    <3>2. copies' \in [Targets -> [Times -> Nat]]
      BY <2>3 DEF Post, TypeOK
    <3> QED BY <2>3, <3>1, <3>2 DEF Post, TypeOK
  <2>4. CASE Drop(t)
    <3>1. CycleTyped
      BY <2>4, CoverType DEF Drop
    <3> QED BY <2>4, <3>1 DEF Drop, TypeOK
  <2>5. CASE Record(t)
    <3>1. CycleTyped
      BY <1>0, <2>5, CoverType DEF Record
    <3>2. log' \in SUBSET Times /\ lastWritten' \in 0..MaxTime
      <4>1. CASE CommitRow(t)
        BY <4>1 DEF CommitRow, TypeOK, Times
      <4>2. CASE log' = log /\ lastWritten' = lastWritten
        BY <4>2 DEF TypeOK
      <4> QED BY <2>5, <4>1, <4>2, Zenon DEF Record
    <3> QED BY <2>5, <3>1, <3>2 DEF Record, TypeOK
  <2> QED BY <1>4, <2>1, <2>2, <2>3, <2>4, <2>5 DEF WriteStep
<1>5. CASE AdvanceCursor
  <2>1. CycleTyped
    BY <1>5, LeaveType DEF AdvanceCursor, Labels
  <2>2. cursor' \in 0..MaxTime
    BY <1>5 DEF AdvanceCursor, TypeOK
  <2> QED BY <1>5, <2>1, <2>2 DEF AdvanceCursor, TypeOK
<1>6. CASE MarkPolled
  <2>1. CycleTyped
    BY <1>6, LeaveType DEF MarkPolled, Labels
  <2> QED BY <1>6, <2>1 DEF MarkPolled, TypeOK
<1>7. CASE Crash
  <2>1. CycleTyped
    BY <1>7, LeaveType DEF Crash, Labels
  <2>2. orphan' \in [Targets -> [Times -> {"none", "wire", "landed"}]]
    <3>1. CASE orphan' = orphan
      BY <3>1 DEF TypeOK
    <3>2. ASSUME NEW t \in Times, orphan' = [orphan EXCEPT ![ti][t] = "wire"]
          PROVE  orphan' \in [Targets -> [Times -> {"none", "wire", "landed"}]]
      BY <3>2 DEF TypeOK
    <3> QED BY <1>7, <3>1, <3>2, Zenon DEF Crash
  <2> QED BY <1>7, <2>1, <2>2 DEF Crash, TypeOK
<1>8. ASSUME NEW k \in Targets, NEW t \in Times, Land(k, t) PROVE TypeOK'
  BY <1>8 DEF Land, TypeOK
<1>9. ASSUME NEW t \in Times, NEW kind \in Kinds, Publish(t, kind) PROVE TypeOK'
  BY <1>9 DEF Publish, TypeOK
<1>10. CASE Tick
  BY <1>10 DEF Tick, TypeOK, Times
<1>11. CASE CalmDown
  BY <1>11 DEF CalmDown, TypeOK
<1>12. CASE UNCHANGED vars
  BY <1>12 DEF vars, TypeOK
<1> QED
  BY <1>1, <1>2, <1>3, <1>4, <1>5, <1>6, <1>7, <1>8, <1>9, <1>10, <1>11, <1>12
     DEF Next, Cycle, Environment

(* Every variable stays in its type.                                       *)
THEOREM TypeCorrect == Spec => []TypeOK
  BY TypeInit, TypeStep, PTL DEF Spec

-----------------------------------------------------------------------------
(* Facts that only ever become true.                                       *)

(* No step takes an Observation out of FROST, takes back a 4xx, changes a  *)
(* published row or turns the clock back.                                  *)
Grows ==
    /\ \A k \in Targets, t \in Times :
          /\ Present(k, t) => Present(k, t)'
          /\ verdict[k][t] # "none" => verdict'[k][t] # "none"
    /\ \A t \in Times : reading[t] # "none" => reading'[t] = reading[t]
    /\ now <= now'

LEMMA PresentGrowsByCopy ==
    ASSUME TypeOK, NEW j \in Targets, NEW u \in Times, UNCHANGED orphan,
           copies' \in {copies, [copies EXCEPT ![j][u] = @ + 1]},
           NEW k \in Targets, NEW t \in Times, Present(k, t)
    PROVE  Present(k, t)'
  BY DEF Present, TypeOK

LEMMA PermanentAnswerGrows ==
    ASSUME TypeOK, NEW u \in Times, PermanentAnswer(u),
           NEW k \in Targets, NEW t \in Times, verdict[k][t] # "none"
    PROVE  verdict'[k][t] # "none"
  BY DEF PermanentAnswer, TypeOK

LEMMA StepGrows == TypeOK /\ [Next]_vars => Grows
<1> SUFFICES ASSUME TypeOK, [Next]_vars PROVE Grows
  OBVIOUS
<1> USE DEF envVars, storeVars, frostVars, cycleVars, historyVars
<1>0. ASSUME UNCHANGED envVars, UNCHANGED frostVars PROVE Grows
  BY <1>0 DEF Grows, Present, TypeOK, Times
<1>1. ASSUME NEW u \in Times, Probe(u) PROVE Grows
  <2>1. UNCHANGED <<copies, orphan, reading, now>>
    BY <1>1, Zenon DEF Probe
  <2>2. UNCHANGED verdict \/ PermanentAnswer(u)
    BY <1>1, Zenon DEF Probe
  <2> QED BY <2>1, <2>2, PermanentAnswerGrows DEF Grows, Present, TypeOK, Times
<1>2. ASSUME NEW u \in Times, Post(u) PROVE Grows
  <2>1. UNCHANGED <<orphan, reading, now>>
    BY <1>2, Zenon DEF Post
  <2>2. UNCHANGED verdict \/ PermanentAnswer(u)
    BY <1>2, Zenon DEF Post
  <2>3. ti \in Targets /\ copies' \in {copies, [copies EXCEPT ![ti][u] = @ + 1]}
    BY <1>2 DEF Post, TypeOK
  <2>4. \A k \in Targets, t \in Times : Present(k, t) => Present(k, t)'
    BY <2>1, <2>3, PresentGrowsByCopy
  <2> QED BY <2>1, <2>2, <2>4, PermanentAnswerGrows DEF Grows, TypeOK, Times
<1>3. CASE Crash
  <2>1. UNCHANGED <<copies, verdict, reading, now>>
    BY <1>3, Zenon DEF Crash
  <2>2. CASE orphan' = orphan
    BY <2>1, <2>2 DEF Grows, Present, TypeOK, Times
  <2>3. ASSUME NEW u \in Times, orphan[ti][u] = "none",
               orphan' = [orphan EXCEPT ![ti][u] = "wire"]
        PROVE  Grows
    BY <2>1, <2>3 DEF Grows, Present, TypeOK, Times
  <2> QED BY <1>3, <2>2, <2>3, Zenon DEF Crash
<1>4. ASSUME NEW j \in Targets, NEW u \in Times, Land(j, u) PROVE Grows
  BY <1>4 DEF Land, Grows, Present, TypeOK, Times
<1>5. ASSUME NEW u \in Times, NEW kind \in Kinds, Publish(u, kind) PROVE Grows
  BY <1>5 DEF Publish, Grows, Present, TypeOK, Times
<1>6. CASE Tick
  BY <1>6 DEF Tick, Grows, Present, TypeOK, Times
<1>7. CASE CalmDown
  BY <1>7 DEF CalmDown, Grows, Present, TypeOK, Times
<1>8. CASE ReadCursor \/ FetchAndFilter \/ ResolveTargets \/ AdvanceCursor \/ MarkPolled
  BY <1>0, <1>8, Zenon DEF ReadCursor, FetchAndFilter, ResolveTargets, AdvanceCursor, MarkPolled
<1>9. ASSUME NEW u \in Times, CheckLog(u) \/ Drop(u) \/ Record(u) PROVE Grows
  BY <1>0, <1>9, Zenon DEF CheckLog, Drop, Record
<1>10. CASE UNCHANGED vars
  BY <1>0, <1>10 DEF vars
<1> QED
  BY <1>1, <1>2, <1>3, <1>4, <1>5, <1>6, <1>7, <1>8, <1>9, <1>10, Zenon
     DEF Next, Cycle, Environment, WriteStep

(* A settled reading stays settled.                                        *)
LEMMA SettledStable ==
    ASSUME Grows, NEW t \in Times, Settled(t)
    PROVE  Settled(t)'
  BY DEF Grows, Settled

(* The oldest queued reading is unique.                                    *)
LEMMA NextUnique ==
    ASSUME TypeOK, NEW t \in Times, NEW u \in Times, IsNext(t), IsNext(u)
    PROVE  t = u
  BY DEF IsNext, TypeOK, Times

-----------------------------------------------------------------------------
(* The conjuncts of the inductive invariant, one lemma each.  The cycle's  *)
(* steps end in one of three ways: they leave the cycle (LeaveTo), cover   *)
(* the reading in hand (Cover) or go to the next target (NextTarget).      *)

LEMMA InitIInv == Init => IInv
<1> SUFFICES ASSUME Init PROVE IInv
  OBVIOUS
<1>1. ~wrote /\ ~permanent
  BY Zenon DEF Init
<1>2. todo = {} /\ pc = "idle" /\ ti = 1 /\ seen = {} /\ log = {}
      /\ cursor = 0 /\ since = 0 /\ covered = 0 /\ now = 1 /\ lastWritten = 0
      /\ copies = [k \in Targets |-> [t \in Times |-> 0]]
  BY Zenon DEF Init
<1> QED
  BY <1>1, <1>2 DEF IInv, SettledBelowCursor, NoReplayDuplicate, LogRowsAreBacked,
     FreshnessTracksLog, NothingFromTheFuture, OwedIsQueued, ProgressOnTargets,
     PostIsFresh, FreshCounters, WindowAboveCursor, IsNext, Writing, Times, Targets

(* Which steps touch the queue of readings, the cursor and the history.    *)
LEMMA FutureStep == TypeOK /\ NothingFromTheFuture /\ [Next]_vars => NothingFromTheFuture'
<1> SUFFICES ASSUME TypeOK, NothingFromTheFuture, [Next]_vars PROVE NothingFromTheFuture'
  OBVIOUS
<1> USE DEF envVars, storeVars, frostVars, cycleVars, historyVars
<1>i. NothingFromTheFuture
  OBVIOUS
<1>l. ASSUME NEW label, LeaveTo(label), UNCHANGED <<now, reading, cursor, seen>>
      PROVE  NothingFromTheFuture'
  BY <1>l, <1>i DEF LeaveTo, NothingFromTheFuture, TypeOK, Times
<1>c. ASSUME NEW u \in Times, IsNext(u), Cover(u), UNCHANGED <<now, reading, cursor, seen>>
      PROVE  NothingFromTheFuture'
  BY <1>c, <1>i DEF Cover, IsNext, NothingFromTheFuture, TypeOK, Times
<1>s. ASSUME UNCHANGED <<since, todo, covered, now, reading, cursor, seen>>
      PROVE  NothingFromTheFuture'
  BY <1>s, <1>i DEF NothingFromTheFuture
<1>1. CASE ReadCursor
  <2>1. CASE Fail
    BY <1>1, <2>1, <1>l, Zenon DEF ReadCursor, Fail
  <2>2. CASE ~Fail
    <3>1. since' = (IF cursor = 0 THEN SeedCursor ELSE cursor)
          /\ UNCHANGED <<todo, covered, now, reading, cursor, seen>>
      BY <1>1, <2>2, Zenon DEF ReadCursor
    <3>2. SeedCursor <= now
      BY ConstantsAssumption DEF SeedCursor, TypeOK, Times
    <3> QED BY <3>1, <3>2, <1>i DEF NothingFromTheFuture
  <2> QED BY <2>1, <2>2
<1>2. CASE FetchAndFilter
  <2>1. CASE Fail /\ UNCHANGED historyVars
    BY <1>2, <2>1, <1>l, Zenon DEF FetchAndFilter, Fail
  <2>2. CASE ~(Fail /\ UNCHANGED historyVars)
    <3> DEFINE rejected == {t \in ToObservations(Page) : Rejects(t)}
    <3>1. PICK m \in rejected \cup {since} : covered' = m
      BY <1>2, <2>2 DEF FetchAndFilter
    <3>2. \A t \in ToObservations(Page) : t \in Times /\ t <= now
      BY DEF ToObservations, Page, Newest
    <3>3. todo' \subseteq ToObservations(Page) /\ seen' = seen \cup OnOffer
          /\ UNCHANGED <<since, cursor, now, reading>>
      BY <1>2, <2>2 DEF FetchAndFilter
    <3> QED BY <3>1, <3>2, <3>3, <1>i DEF NothingFromTheFuture, OnOffer
  <2> QED BY <2>1, <2>2
<1>3. CASE ResolveTargets
  BY <1>3, <1>l, <1>s, Zenon DEF ResolveTargets, Fail
<1>4. ASSUME NEW u \in Times, WriteStep(u) PROVE NothingFromTheFuture'
  BY <1>4, <1>l, <1>c, <1>s, Zenon
     DEF WriteStep, CheckLog, Probe, Post, Drop, Record, Fail, NextTarget, PermanentAnswer
<1>5. CASE AdvanceCursor
  BY <1>5, <1>i DEF AdvanceCursor, LeaveTo, NothingFromTheFuture, TypeOK, Times
<1>6. CASE MarkPolled
  BY <1>6, <1>l, Zenon DEF MarkPolled
<1>7. CASE Crash
  BY <1>7, <1>l, Zenon DEF Crash
<1>8. ASSUME NEW j \in Targets, NEW u \in Times, Land(j, u) PROVE NothingFromTheFuture'
  BY <1>8, <1>s, Zenon DEF Land
<1>9. ASSUME NEW u \in Times, NEW kind \in Kinds, Publish(u, kind)
      PROVE  NothingFromTheFuture'
  BY <1>9, <1>i DEF Publish, NothingFromTheFuture, Kinds, TypeOK, Times
<1>10. CASE Tick
  BY <1>10, <1>i DEF Tick, NothingFromTheFuture, TypeOK, Times
<1>11. CASE CalmDown
  BY <1>11, <1>s, Zenon DEF CalmDown
<1>12. CASE UNCHANGED vars
  BY <1>12, <1>s, Zenon DEF vars
<1> QED
  BY <1>1, <1>2, <1>3, <1>4, <1>5, <1>6, <1>7, <1>8, <1>9, <1>10, <1>11, <1>12, Zenon
     DEF Next, Cycle, Environment

(* The queue holds everything owed until the cursor may move.              *)
LEMMA QueueStep == TypeOK /\ IInv /\ [Next]_vars => OwedIsQueued'
<1> SUFFICES ASSUME TypeOK, IInv, [Next]_vars PROVE OwedIsQueued'
  OBVIOUS
<1> USE DEF envVars, storeVars, frostVars, cycleVars, historyVars
<1>g. Grows
  BY StepGrows
<1>t. seen \in SUBSET Times /\ todo \in SUBSET Times
  BY DEF TypeOK
<1>i. OwedIsQueued /\ NothingFromTheFuture /\ SettledBelowCursor /\ LogRowsAreBacked
      /\ ProgressOnTargets
  BY DEF IInv
<1>l. ASSUME LeaveTo("idle") \/ LeaveTo("mark") PROVE OwedIsQueued'
  BY <1>l DEF LeaveTo, OwedIsQueued, Writing
<1>c. ASSUME NEW u \in Times, pc \in Writing, IsNext(u), Settled(u), Cover(u),
             UNCHANGED <<seen, forgone>>
      PROVE  OwedIsQueued'
  <2>1. \A t \in seen \ forgone : Settled(t) \/ t \in todo
    BY <1>c, <1>i DEF OwedIsQueued
  <2>2. \A t \in seen' \ forgone' : Settled(t)' \/ t \in todo'
    BY <2>1, <1>c, <1>t, <1>g, SettledStable DEF Cover
  <2>3. pc' = "advance" => todo' = {}
    BY <1>c DEF Cover
  <2> QED BY <2>2, <2>3 DEF OwedIsQueued
<1>s. ASSUME pc \in Writing \cup {"resolve"}, UNCHANGED <<todo, seen, forgone>>,
             pc' # "advance"
      PROVE  OwedIsQueued'
  <2>1. \A t \in seen \ forgone : Settled(t) \/ t \in todo
    BY <1>s, <1>i DEF OwedIsQueued
  <2> QED BY <2>1, <1>s, <1>t, <1>g, SettledStable DEF OwedIsQueued
<1>u. ASSUME UNCHANGED <<pc, todo, seen, forgone>> PROVE OwedIsQueued'
  <2> QED BY <1>u, <1>i, <1>t, <1>g, SettledStable DEF OwedIsQueued
<1>1. CASE ReadCursor
  BY <1>1, <1>l DEF ReadCursor, Fail, OwedIsQueued, Writing
<1>2. CASE FetchAndFilter
  <2>1. CASE Fail /\ UNCHANGED historyVars
    BY <2>1, <1>l, Zenon DEF Fail
  <2>2. CASE ~(Fail /\ UNCHANGED historyVars)
    <3> DEFINE rejected == {t \in ToObservations(Page) : Rejects(t)}
    <3>1. /\ todo' = ToObservations(Page) \ rejected
          /\ pc' = IF todo' = {} THEN "advance" ELSE "resolve"
          /\ seen' = seen \cup OnOffer
          /\ forgone' = forgone \cup (OnOffer \ Page)
                                \cup {t \in seen : cursor < t /\ t <= since}
          /\ UNCHANGED <<since, cursor, now, reading, copies, orphan, verdict>>
      BY <1>2, <2>2 DEF FetchAndFilter
    <3>2. ASSUME NEW t \in seen' \ forgone' PROVE Settled(t) \/ t \in todo'
      <4>1. t \in Times /\ reading[t] # "none" /\ t <= now
        BY <3>1, <3>2, <1>i, <1>t DEF OnOffer, NothingFromTheFuture
      <4>2. CASE t <= since
        <5>1. t \in seen
          BY <3>1, <3>2, <4>1, <4>2 DEF OnOffer, TypeOK, Times
        <5>2. t <= cursor
          BY <3>1, <3>2, <4>1, <4>2, <5>1 DEF TypeOK, Times
        <5> QED BY <3>1, <3>2, <5>1, <5>2, <1>i DEF SettledBelowCursor
      <4>3. CASE since < t
        <5>1. t \in Page
          BY <3>1, <3>2, <4>1, <4>3 DEF OnOffer
        <5>2. CASE reading[t] = "low"
          BY <5>2 DEF Settled
        <5>3. CASE reading[t] # "low"
          <6>1. t \in ToObservations(Page)
            BY <4>1, <5>1, <5>3 DEF ToObservations
          <6>2. Rejects(t) => reading[t] = "invalid"
            BY <4>1, <4>3, ConstantsAssumption DEF Rejects, TypeOK, Times
          <6> QED BY <3>1, <6>1, <6>2 DEF Settled
        <5> QED BY <5>2, <5>3
      <4> QED BY <4>1, <4>2, <4>3 DEF TypeOK, Times
    <3>3. \A t \in Times : Settled(t) => Settled(t)'
      BY <1>g, SettledStable
    <3>4. seen' \in SUBSET Times
      BY <3>1, <1>t DEF OnOffer
    <3>5. pc' = "advance" => todo' = {}
      BY <3>1
    <3> QED BY <3>2, <3>3, <3>4, <3>5 DEF OwedIsQueued
  <2> QED BY <2>1, <2>2
<1>3. CASE ResolveTargets
  BY <1>3, <1>l, <1>s DEF ResolveTargets, Fail
<1>4. ASSUME NEW u \in Times, CheckLog(u) PROVE OwedIsQueued'
  <2>1. CASE u \in log /\ Cover(u)
    <3>1. Settled(u)
      BY <2>1, <1>i DEF LogRowsAreBacked
    <3> QED BY <1>4, <2>1, <3>1, <1>c DEF CheckLog, Writing
  <2>2. CASE Fail
    BY <2>2, <1>l DEF Fail
  <2>3. CASE pc' = "probe" /\ UNCHANGED todo
    BY <1>4, <2>3, <1>s DEF CheckLog, Writing
  <2> QED BY <1>4, <2>1, <2>2, <2>3, Zenon DEF CheckLog
<1>5. ASSUME NEW u \in Times, Probe(u) \/ Post(u) PROVE OwedIsQueued'
  <2>1. CASE Fail
    BY <2>1, <1>l DEF Fail
  <2>2. CASE NextTarget
    BY <1>5, <2>2, <1>s DEF Probe, Post, NextTarget, Writing
  <2>3. CASE pc' = "post" /\ UNCHANGED todo
    BY <1>5, <2>3, <1>s DEF Probe, Post, Writing
  <2> QED BY <1>5, <2>1, <2>2, <2>3, Zenon DEF Probe, Post, PermanentAnswer
<1>6. ASSUME NEW u \in Times, Drop(u) \/ Record(u) PROVE OwedIsQueued'
  <2>1. pc = "record" /\ IsNext(u) /\ UNCHANGED <<seen, forgone>>
    BY <1>6, Zenon DEF Drop, Record
  <2>2. Settled(u)
    BY <2>1, <1>i DEF ProgressOnTargets, Settled
  <2>3. CASE Cover(u)
    BY <2>1, <2>2, <2>3, <1>c DEF Writing
  <2>4. CASE Fail
    BY <2>4, <1>l DEF Fail
  <2> QED BY <1>6, <2>3, <2>4, Zenon DEF Drop, Record
<1>7. CASE AdvanceCursor \/ MarkPolled \/ Crash
  BY <1>7, <1>l, Zenon DEF AdvanceCursor, MarkPolled, Crash
<1>8. CASE \/ \E j \in Targets, u \in Times : Land(j, u)
           \/ \E u \in Times, kind \in Kinds : Publish(u, kind)
           \/ Tick \/ CalmDown \/ UNCHANGED vars
  BY <1>8, <1>u, Zenon DEF Land, Publish, Tick, CalmDown, vars
<1> QED
  BY <1>1, <1>2, <1>3, <1>4, <1>5, <1>6, <1>7, <1>8, Zenon
     DEF Next, Cycle, Environment, WriteStep

(* The cursor never passes an owed reading.                                *)
LEMMA SettledStep == TypeOK /\ IInv /\ [Next]_vars => SettledBelowCursor'
<1> SUFFICES ASSUME TypeOK, IInv, [Next]_vars PROVE SettledBelowCursor'
  OBVIOUS
<1> USE DEF envVars, storeVars, frostVars, cycleVars, historyVars
<1>g. \A t \in Times : Settled(t) => Settled(t)'
  BY StepGrows, SettledStable
<1>i. OwedIsQueued /\ SettledBelowCursor /\ seen \in SUBSET Times
  BY DEF IInv, TypeOK
<1>u. ASSUME UNCHANGED <<cursor, seen, forgone>> PROVE SettledBelowCursor'
  BY <1>u, <1>g, <1>i DEF SettledBelowCursor
<1>1. CASE FetchAndFilter
  <2>1. CASE UNCHANGED historyVars
    BY <1>1, <2>1, <1>u, Zenon DEF FetchAndFilter
  <2>2. CASE ~UNCHANGED historyVars
    <3>1. /\ seen' = seen \cup OnOffer /\ cursor' = cursor
          /\ forgone' = forgone \cup (OnOffer \ Page)
                                \cup {t \in seen : cursor < t /\ t <= since}
      BY <1>1, <2>2 DEF FetchAndFilter
    <3>2. ASSUME NEW t \in seen' \ forgone', t <= cursor' PROVE Settled(t)'
      <4>1. CASE t \in seen
        BY <3>1, <3>2, <4>1, <1>g, <1>i DEF SettledBelowCursor
      <4>2. CASE t \notin seen
        <5>1. t \in Times /\ since < t
          BY <3>1, <3>2, <4>2 DEF OnOffer
        <5>2. cursor <= since
          BY <1>1 DEF FetchAndFilter, IInv, WindowAboveCursor
        <5> QED BY <3>1, <3>2, <5>1, <5>2 DEF TypeOK, Times
      <4> QED BY <4>1, <4>2
    <3> QED BY <3>2 DEF SettledBelowCursor
  <2> QED BY <2>1, <2>2
<1>2. CASE AdvanceCursor
  <2>1. \A t \in seen \ forgone : Settled(t)
    BY <1>2, <1>i DEF AdvanceCursor, OwedIsQueued
  <2> QED BY <1>2, <2>1, <1>g, <1>i DEF AdvanceCursor, SettledBelowCursor
<1>3. CASE ReadCursor \/ ResolveTargets \/ MarkPolled \/ Crash
  BY <1>3, <1>u, Zenon DEF ReadCursor, ResolveTargets, MarkPolled, Crash
<1>4. ASSUME NEW u \in Times, WriteStep(u) PROVE SettledBelowCursor'
  BY <1>4, <1>u, Zenon DEF WriteStep, CheckLog, Probe, Post, Drop, Record
<1>5. CASE \/ \E j \in Targets, u \in Times : Land(j, u)
           \/ \E u \in Times, kind \in Kinds : Publish(u, kind)
           \/ Tick \/ CalmDown \/ UNCHANGED vars
  BY <1>5, <1>u, Zenon DEF Land, Publish, Tick, CalmDown, vars
<1> QED
  BY <1>1, <1>2, <1>3, <1>4, <1>5, Zenon DEF Next, Cycle, Environment

LEMMA WindowStep == TypeOK /\ WindowAboveCursor /\ [Next]_vars => WindowAboveCursor'
<1> SUFFICES ASSUME TypeOK, WindowAboveCursor, [Next]_vars PROVE WindowAboveCursor'
  OBVIOUS
<1> USE DEF envVars, storeVars, frostVars, cycleVars, historyVars
<1>i. WindowAboveCursor
  OBVIOUS
<1>l. ASSUME LeaveTo("idle") \/ LeaveTo("mark") PROVE WindowAboveCursor'
  BY <1>l DEF LeaveTo, WindowAboveCursor
<1>s. ASSUME UNCHANGED <<cursor, since>>, pc \notin {"idle", "mark"}
      PROVE  WindowAboveCursor'
  BY <1>s, <1>i DEF WindowAboveCursor
<1>1. CASE ReadCursor
  <2>1. CASE Fail
    BY <2>1, <1>l DEF Fail
  <2>2. CASE ~Fail
    <3>1. since' = (IF cursor = 0 THEN SeedCursor ELSE cursor) /\ cursor' = cursor
      BY <1>1, <2>2, Zenon DEF ReadCursor
    <3>2. SeedCursor \in Nat
      BY ConstantsAssumption DEF SeedCursor, TypeOK, Times
    <3> QED BY <3>1, <3>2 DEF WindowAboveCursor, TypeOK
  <2> QED BY <2>1, <2>2
<1>2. CASE FetchAndFilter \/ ResolveTargets
  BY <1>2, <1>l, <1>s DEF FetchAndFilter, ResolveTargets, Fail
<1>3. ASSUME NEW u \in Times, WriteStep(u) PROVE WindowAboveCursor'
  BY <1>3, <1>l, <1>s
     DEF WriteStep, CheckLog, Probe, Post, Drop, Record, Fail, Cover, NextTarget, PermanentAnswer
<1>4. CASE AdvanceCursor \/ MarkPolled \/ Crash
  BY <1>4, <1>l, Zenon DEF AdvanceCursor, MarkPolled, Crash
<1>5. CASE \/ \E j \in Targets, u \in Times : Land(j, u)
           \/ \E u \in Times, kind \in Kinds : Publish(u, kind)
           \/ Tick \/ CalmDown \/ UNCHANGED vars
  BY <1>5, <1>i DEF Land, Publish, Tick, CalmDown, vars, WindowAboveCursor
<1> QED
  BY <1>1, <1>2, <1>3, <1>4, <1>5, Zenon DEF Next, Cycle, Environment

LEMMA CountersStep == TypeOK /\ FreshCounters /\ [Next]_vars => FreshCounters'
<1> SUFFICES ASSUME TypeOK, FreshCounters, [Next]_vars PROVE FreshCounters'
  OBVIOUS
<1> USE DEF envVars, storeVars, frostVars, cycleVars, historyVars
<1>i. FreshCounters
  OBVIOUS
<1>l. ASSUME NEW label, LeaveTo(label) PROVE FreshCounters'
  BY <1>l, Zenon DEF LeaveTo, FreshCounters
<1>c. ASSUME NEW u, Cover(u) PROVE FreshCounters'
  BY <1>c, Zenon DEF Cover, FreshCounters
<1>n. ASSUME pc' \in {"probe", "post", "record"} PROVE FreshCounters'
  BY <1>n, Zenon DEF FreshCounters
<1>s. ASSUME pc \notin {"probe", "post", "record"}, UNCHANGED <<ti, wrote, permanent>>
      PROVE  FreshCounters'
  BY <1>s, <1>i, Zenon DEF FreshCounters
<1>u. ASSUME UNCHANGED cycleVars PROVE FreshCounters'
  BY <1>u, <1>i, Zenon DEF FreshCounters
<1>p. pc \in {"idle", "fetch", "resolve"} => pc \notin {"probe", "post", "record"}
  OBVIOUS
<1>1. CASE ReadCursor \/ FetchAndFilter \/ ResolveTargets
  BY <1>1, <1>p, <1>l, <1>s, Zenon DEF ReadCursor, FetchAndFilter, ResolveTargets, Fail
<1>2. ASSUME NEW u \in Times, CheckLog(u) \/ Drop(u) \/ Record(u) PROVE FreshCounters'
  BY <1>2, <1>l, <1>c, <1>n, Zenon DEF CheckLog, Drop, Record, Fail
<1>3. ASSUME NEW u \in Times, Probe(u) \/ Post(u) PROVE FreshCounters'
  <2>1. NextTarget => pc' \in {"probe", "record"}
    BY Zenon DEF NextTarget
  <2> QED BY <1>3, <2>1, <1>l, <1>n, Zenon DEF Probe, Post, Fail, PermanentAnswer
<1>4. CASE AdvanceCursor \/ MarkPolled \/ Crash
  BY <1>4, <1>l, Zenon DEF AdvanceCursor, MarkPolled, Crash
<1>5. CASE \/ \E j \in Targets, u \in Times : Land(j, u)
           \/ \E u \in Times, kind \in Kinds : Publish(u, kind)
           \/ Tick \/ CalmDown \/ UNCHANGED vars
  BY <1>5, <1>u, Zenon DEF Land, Publish, Tick, CalmDown, vars
<1> QED
  BY <1>1, <1>2, <1>3, <1>4, <1>5, Zenon DEF Next, Cycle, Environment, WriteStep

(* Target k holds the reading or has refused it.                           *)
Heard(k, t) == Present(k, t) \/ verdict[k][t] # "none"

(* Going to the next target keeps what was established about the earlier   *)
(* ones and adds the one just handled.                                     *)
LEMMA TargetDone ==
    ASSUME TypeOK, IInv, Grows, NEW u \in Times, IsNext(u),
           pc \in {"probe", "post"}, NextTarget,
           NEW j \in Targets, j = ti, Heard(j, u)',
           ~permanent' => ~permanent /\ Present(j, u)',
           wrote' => wrote \/ Present(j, u)'
    PROVE  ProgressOnTargets'
<1>1. SUFFICES ASSUME NEW t \in Times, IsNext(t)'
               PROVE  /\ pc' \in {"probe", "post"} =>
                           \A k \in 1..(ti' - 1) : Heard(k, t)'
                      /\ pc' = "record" => \A k \in Targets : Heard(k, t)'
                      /\ wrote' => \E k \in Targets : Present(k, t)'
                      /\ (pc' \in {"probe", "post"} /\ ~permanent') =>
                           \A k \in 1..(ti' - 1) : Present(k, t)'
                      /\ (pc' = "record" /\ ~permanent') => \A k \in Targets : Present(k, t)'
  BY Zenon DEF ProgressOnTargets, Heard
<1>2. t = u
  BY <1>1, NextUnique DEF NextTarget, IsNext
<1>3. j \in Nat /\ Targets = 1..NumTargets /\ NumTargets \in Nat
  BY ConstantsAssumption DEF TypeOK, Targets
<1>4. /\ \A k \in 1..(j - 1) : Heard(k, u)
      /\ wrote => \E k \in Targets : Present(k, u)
      /\ ~permanent => \A k \in 1..(j - 1) : Present(k, u)
  BY DEF IInv, ProgressOnTargets, Heard
<1>5. /\ \A k \in 1..(j - 1) : k \in Targets
      /\ \A k \in 1..j : k \in 1..(j - 1) \/ k = j
  BY <1>3
<1>6. \A k \in Targets : /\ Present(k, u) => Present(k, u)'
                         /\ Heard(k, u) => Heard(k, u)'
  BY Zenon DEF Grows, Heard
<1>7. \A k \in 1..j : Heard(k, u)'
  BY <1>4, <1>5, <1>6, Zenon
<1>8. wrote' => \E k \in Targets : Present(k, u)'
  BY <1>4, <1>6, Zenon
<1>9. ~permanent' => \A k \in 1..j : Present(k, u)'
  BY <1>4, <1>5, <1>6, Zenon
<1>10. CASE ti = NumTargets
  <2>1. pc' = "record" /\ 1..j = Targets
    BY <1>3, <1>10 DEF NextTarget
  <2>2. pc' \notin {"probe", "post"}
    BY <2>1
  <2> QED BY <1>2, <1>7, <1>8, <1>9, <2>1, <2>2, Zenon
<1>11. CASE ti # NumTargets
  <2>1. pc' = "probe" /\ ti' = ti + 1
    BY <1>11 DEF NextTarget
  <2>2. 1..(ti' - 1) = 1..j /\ pc' # "record"
    BY <1>3, <2>1
  <2> QED BY <1>2, <1>7, <1>8, <1>9, <2>1, <2>2, Zenon
<1> QED BY <1>10, <1>11

LEMMA ProgressStep == TypeOK /\ IInv /\ [Next]_vars => ProgressOnTargets'
<1> SUFFICES ASSUME TypeOK, IInv, [Next]_vars PROVE ProgressOnTargets'
  OBVIOUS
<1> USE DEF envVars, storeVars, frostVars, cycleVars, historyVars
<1>g. Grows
  BY StepGrows
<1>i. ProgressOnTargets /\ FreshCounters /\ ti \in Targets
  BY DEF IInv, TypeOK
<1>f. ASSUME ti' = 1, ~wrote', pc' \notin {"post", "record"} PROVE ProgressOnTargets'
  BY <1>f DEF ProgressOnTargets
<1>l. ASSUME LeaveTo("idle") \/ LeaveTo("mark") PROVE ProgressOnTargets'
  <2>1. ti' = 1 /\ ~wrote' /\ pc' \notin {"post", "record"}
    BY <1>l, Zenon DEF LeaveTo
  <2> QED BY <2>1, <1>f
<1>c. ASSUME NEW u \in Times, Cover(u) PROVE ProgressOnTargets'
  <2>1. ti' = 1 /\ ~wrote' /\ pc' \notin {"post", "record"}
    BY <1>c, Zenon DEF Cover
  <2> QED BY <2>1, <1>f
<1>s. ASSUME pc \notin {"probe", "post", "record"}, UNCHANGED <<ti, wrote>>,
             pc' \notin {"post", "record"}
      PROVE  ProgressOnTargets'
  <2>1. ti' = 1 /\ ~wrote'
    BY <1>s, <1>i, Zenon DEF FreshCounters
  <2> QED BY <1>s, <2>1, <1>f
<1>u. ASSUME UNCHANGED <<todo, ti, wrote, permanent>>,
             pc' = pc \/ (pc = "probe" /\ pc' = "post")
      PROVE  ProgressOnTargets'
  <2>1. \A t \in Times : IsNext(t)' => IsNext(t)
    BY <1>u DEF IsNext
  <2>2. \A k \in Targets, t \in Times :
            /\ Present(k, t) => Present(k, t)'
            /\ verdict[k][t] # "none" => verdict'[k][t] # "none"
    BY <1>g DEF Grows
  <2>3. 1..(ti - 1) \subseteq Targets
    BY <1>i, ConstantsAssumption DEF Targets
  <2> QED BY <1>u, <1>i, <2>1, <2>2, <2>3 DEF ProgressOnTargets
<1>1. CASE ReadCursor \/ FetchAndFilter \/ ResolveTargets
  <2>1. CASE Fail
    BY <2>1, <1>l DEF Fail
  <2>2. CASE ~Fail
    <3>1. UNCHANGED <<ti, wrote>> /\ pc \in {"idle", "fetch", "resolve"}
      BY <1>1, <2>2, Zenon DEF ReadCursor, FetchAndFilter, ResolveTargets
    <3>2. pc' \in {"fetch", "advance", "resolve", "check"}
      BY <1>1, <2>2 DEF ReadCursor, FetchAndFilter, ResolveTargets
    <3> QED BY <3>1, <3>2, <1>s
  <2> QED BY <2>1, <2>2
<1>2. ASSUME NEW u \in Times, CheckLog(u) PROVE ProgressOnTargets'
  <2>1. CASE Fail
    BY <2>1, <1>l DEF Fail
  <2>2. CASE Cover(u)
    BY <2>2, <1>c
  <2>3. CASE pc = "check" /\ pc' = "probe" /\ UNCHANGED <<ti, wrote>>
    BY <2>3, <1>s
  <2> QED BY <1>2, <2>1, <2>2, <2>3, Zenon DEF CheckLog
<1>3. ASSUME NEW u \in Times, PermanentAnswer(u), IsNext(u), pc \in {"probe", "post"}
      PROVE  ProgressOnTargets'
  <2>1. PICK j \in Targets : j = ti
    BY <1>i
  <2>2. verdict'[j][u] # "none"
    BY <1>3, <2>1 DEF PermanentAnswer, TypeOK
  <2>3. permanent' /\ wrote' = wrote /\ NextTarget
    BY <1>3, Zenon DEF PermanentAnswer
  <2>4. Heard(j, u)'
    BY <2>2 DEF Heard
  <2> QED BY <1>3, <1>g, <2>1, <2>3, <2>4, TargetDone, Zenon
<1>4. ASSUME NEW u \in Times, NEW j \in Targets, j = ti, Present(j, u)', IsNext(u),
             pc \in {"probe", "post"}, NextTarget, UNCHANGED permanent
      PROVE  ProgressOnTargets'
  <2>1. Heard(j, u)'
    BY <1>4 DEF Heard
  <2> QED BY <1>4, <1>g, <2>1, TargetDone, Zenon
<1>h. ASSUME NEW u \in Times, Present(ti, u), IsNext(u), pc \in {"probe", "post"},
             NextTarget, UNCHANGED permanent
      PROVE  ProgressOnTargets'
  <2>1. PICK j \in Targets : j = ti
    BY <1>i
  <2>2. Present(j, u)'
    <3>1. Present(j, u)
      BY <1>h, <2>1
    <3> QED BY <1>g, <3>1, Zenon DEF Grows
  <2> QED BY <1>h, <1>4, <2>1, <2>2
<1>5. ASSUME NEW u \in Times, Probe(u) PROVE ProgressOnTargets'
  <2>0. pc = "probe" /\ IsNext(u)
    BY <1>5, Zenon DEF Probe
  <2>1. CASE Fail
    BY <2>1, <1>l DEF Fail
  <2>2. CASE PermanentAnswer(u)
    BY <2>0, <2>2, <1>3
  <2>3. CASE Present(ti, u) /\ NextTarget /\ UNCHANGED permanent
    BY <2>0, <2>3, <1>h
  <2>4. CASE pc' = "post" /\ UNCHANGED <<todo, ti, wrote, permanent>>
    BY <2>0, <2>4, <1>u
  <2> QED BY <1>5, <2>1, <2>2, <2>3, <2>4, Zenon DEF Probe, ObservationExists
<1>6. ASSUME NEW u \in Times, Post(u) PROVE ProgressOnTargets'
  <2>0. pc = "post" /\ IsNext(u)
    BY <1>6, Zenon DEF Post
  <2>1. CASE Fail
    BY <2>1, <1>l DEF Fail
  <2>2. CASE PermanentAnswer(u)
    BY <2>0, <2>2, <1>3
  <2>3. CASE Present(ti, u) /\ NextTarget /\ UNCHANGED permanent
    BY <2>0, <2>3, <1>h
  <2>4. CASE copies' = [copies EXCEPT ![ti][u] = @ + 1] /\ NextTarget /\ UNCHANGED permanent
    <3>1. PICK j \in Targets : j = ti
      BY <1>i
    <3>2. copies'[j][u] > 0
      BY <2>4, <3>1 DEF TypeOK
    <3>3. Present(j, u)'
      BY <3>2 DEF Present
    <3> QED BY <2>0, <2>4, <3>1, <3>3, <1>4
  <2> QED BY <1>6, <2>1, <2>2, <2>3, <2>4, Zenon DEF Post
<1>7. ASSUME NEW u \in Times, Drop(u) \/ Record(u) PROVE ProgressOnTargets'
  BY <1>7, <1>c, <1>l, Zenon DEF Drop, Record, Fail
<1>8. CASE AdvanceCursor \/ MarkPolled \/ Crash
  BY <1>8, <1>l, Zenon DEF AdvanceCursor, MarkPolled, Crash
<1>9. CASE \/ \E j \in Targets, u \in Times : Land(j, u)
           \/ \E u \in Times, kind \in Kinds : Publish(u, kind)
           \/ Tick \/ CalmDown \/ UNCHANGED vars
  BY <1>9, <1>u, Zenon DEF Land, Publish, Tick, CalmDown, vars
<1> QED
  BY <1>1, <1>2, <1>5, <1>6, <1>7, <1>8, <1>9, Zenon
     DEF Next, Cycle, Environment, WriteStep

(* Only a probe that found nothing leads to a POST.                        *)
LEMMA PostIsFreshStep == TypeOK /\ IInv /\ [Next]_vars => PostIsFresh'
<1> SUFFICES ASSUME TypeOK, IInv, [Next]_vars PROVE PostIsFresh'
  OBVIOUS
<1> USE DEF envVars, storeVars, frostVars, cycleVars, historyVars
<1>i. PostIsFresh
  BY DEF IInv
<1>n. ASSUME pc' # "post" PROVE PostIsFresh'
  BY <1>n DEF PostIsFresh
<1>l. ASSUME LeaveTo("idle") \/ LeaveTo("mark") PROVE PostIsFresh'
  BY <1>l, <1>n DEF LeaveTo
<1>c. ASSUME NEW u, Cover(u) PROVE PostIsFresh'
  BY <1>c, <1>n DEF Cover
<1>t. ASSUME NextTarget PROVE PostIsFresh'
  BY <1>t, <1>n DEF NextTarget
<1>1. CASE ReadCursor \/ FetchAndFilter \/ ResolveTargets
  BY <1>1, <1>l, <1>n DEF ReadCursor, FetchAndFilter, ResolveTargets, Fail
<1>2. ASSUME NEW u \in Times, CheckLog(u) \/ Drop(u) \/ Record(u) PROVE PostIsFresh'
  <2>1. CASE pc' = "probe"
    BY <2>1, <1>n
  <2> QED BY <1>2, <2>1, <1>l, <1>c, Zenon DEF CheckLog, Drop, Record, Fail
<1>3. ASSUME NEW u \in Times, Probe(u) PROVE PostIsFresh'
  <2>1. CASE Fail
    BY <2>1, <1>l DEF Fail
  <2>2. CASE NextTarget \/ PermanentAnswer(u)
    BY <2>2, <1>t DEF PermanentAnswer
  <2>3. CASE ~Present(ti, u) /\ UNCHANGED <<todo, ti, copies>>
    <3>1. ASSUME NEW t \in Times, IsNext(t)' PROVE copies'[ti'][t] = 0
      <4>1. IsNext(t) /\ IsNext(u)
        BY <1>3, <2>3, <3>1 DEF IsNext, Probe
      <4>2. t = u
        BY <4>1, NextUnique
      <4>3. copies[ti][u] = 0
        BY <2>3 DEF Present, TypeOK
      <4> QED BY <2>3, <4>2, <4>3
    <3> QED BY <3>1, Zenon DEF PostIsFresh
  <2>4. UNCHANGED copies
    BY <1>3, Zenon DEF Probe
  <2>5. \/ Fail \/ NextTarget \/ PermanentAnswer(u)
        \/ ~Present(ti, u) /\ UNCHANGED <<todo, ti>>
    BY <1>3, Zenon DEF Probe, ObservationExists
  <2> QED BY <2>1, <2>2, <2>3, <2>4, <2>5, Zenon
<1>4. ASSUME NEW u \in Times, Post(u) PROVE PostIsFresh'
  BY <1>4, <1>l, <1>t, Zenon DEF Post, Fail, PermanentAnswer
<1>5. CASE AdvanceCursor \/ MarkPolled \/ Crash
  BY <1>5, <1>l, Zenon DEF AdvanceCursor, MarkPolled, Crash
<1>6. CASE \/ \E j \in Targets, u \in Times : Land(j, u)
           \/ \E u \in Times, kind \in Kinds : Publish(u, kind)
           \/ Tick \/ CalmDown \/ UNCHANGED vars
  <2>1. UNCHANGED <<pc, todo, ti, copies>>
    BY <1>6, Zenon DEF Land, Publish, Tick, CalmDown, vars
  <2> QED BY <2>1, <1>i DEF PostIsFresh, IsNext
<1> QED
  BY <1>1, <1>2, <1>3, <1>4, <1>5, <1>6, Zenon
     DEF Next, Cycle, Environment, WriteStep

(* Only Post adds a copy, and it adds the first one.                       *)
LEMMA DuplicateStep == TypeOK /\ IInv /\ [Next]_vars => NoReplayDuplicate'
<1> SUFFICES ASSUME TypeOK, IInv, [Next]_vars PROVE NoReplayDuplicate'
  OBVIOUS
<1> USE DEF envVars, storeVars, frostVars, cycleVars, historyVars
<1>i. NoReplayDuplicate /\ PostIsFresh
  BY DEF IInv
<1>u. ASSUME UNCHANGED copies PROVE NoReplayDuplicate'
  BY <1>u, <1>i DEF NoReplayDuplicate
<1>1. ASSUME NEW u \in Times, Post(u) PROVE NoReplayDuplicate'
  <2>1. UNCHANGED copies \/ copies' = [copies EXCEPT ![ti][u] = @ + 1]
    BY <1>1 DEF Post
  <2>2. copies[ti][u] = 0
    BY <1>1, <1>i DEF Post, PostIsFresh
  <2>3. ASSUME copies' = [copies EXCEPT ![ti][u] = @ + 1] PROVE NoReplayDuplicate'
    BY <2>2, <2>3, <1>i DEF NoReplayDuplicate, TypeOK
  <2> QED BY <2>1, <2>3, <1>u
<1>2. ASSUME NEW u \in Times, CheckLog(u) \/ Probe(u) \/ Drop(u) \/ Record(u)
      PROVE  NoReplayDuplicate'
  BY <1>2, <1>u, Zenon DEF CheckLog, Probe, Drop, Record
<1>3. CASE \/ ReadCursor \/ FetchAndFilter \/ ResolveTargets
           \/ AdvanceCursor \/ MarkPolled \/ Crash
  BY <1>3, <1>u, Zenon
     DEF ReadCursor, FetchAndFilter, ResolveTargets, AdvanceCursor, MarkPolled, Crash
<1>4. CASE \/ \E j \in Targets, u \in Times : Land(j, u)
           \/ \E u \in Times, kind \in Kinds : Publish(u, kind)
           \/ Tick \/ CalmDown \/ UNCHANGED vars
  BY <1>4, <1>u, Zenon DEF Land, Publish, Tick, CalmDown, vars
<1> QED
  BY <1>1, <1>2, <1>3, <1>4, Zenon DEF Next, Cycle, Environment, WriteStep

(* Which steps write to the log, and that they change nothing else of it.  *)
LEMMA LogSteps ==
    ASSUME [Next]_vars
    PROVE  \/ UNCHANGED <<log, lastWritten>>
           \/ \E u \in Times : Record(u) /\ CommitRow(u)
<1> USE DEF envVars, storeVars, frostVars, cycleVars, historyVars
<1>1. ASSUME NEW u \in Times, WriteStep(u)
      PROVE  UNCHANGED <<log, lastWritten>> \/ (Record(u) /\ CommitRow(u))
  <2>1. CASE Record(u)
    BY <2>1, Zenon DEF Record
  <2> QED BY <1>1, <2>1, Zenon DEF WriteStep, CheckLog, Probe, Post, Drop
<1>2. CASE Cycle
  <2>1. ReadCursor \/ FetchAndFilter \/ ResolveTargets \/ AdvanceCursor \/ MarkPolled
        => UNCHANGED <<log, lastWritten>>
    BY Zenon DEF ReadCursor, FetchAndFilter, ResolveTargets, AdvanceCursor, MarkPolled
  <2> QED BY <1>1, <1>2, <2>1, Zenon DEF Cycle
<1>3. CASE Environment \/ UNCHANGED vars
  BY <1>3, Zenon DEF Environment, Crash, Land, Publish, Tick, CalmDown, vars
<1> QED BY <1>2, <1>3, Zenon DEF Next

(* A row is committed for a reading that every target was heard on and     *)
(* some target holds.                                                      *)
LEMMA LogStep == TypeOK /\ IInv /\ [Next]_vars => LogRowsAreBacked'
<1> SUFFICES ASSUME TypeOK, IInv, [Next]_vars PROVE LogRowsAreBacked'
  OBVIOUS
<1>g. Grows
  BY StepGrows
<1>i. LogRowsAreBacked /\ ProgressOnTargets /\ log \in SUBSET Times
  BY DEF IInv, TypeOK
<1>k. ASSUME NEW t \in Times, Settled(t), NEW k \in Targets, Present(k, t)
      PROVE  Settled(t)' /\ \E j \in Targets : Present(j, t)'
  BY <1>g, <1>k, SettledStable, Zenon DEF Grows
<1>1. CASE UNCHANGED log
  BY <1>1, <1>i, <1>k, Zenon DEF LogRowsAreBacked
<1>2. ASSUME NEW u \in Times, Record(u), CommitRow(u) PROVE LogRowsAreBacked'
  <2>1. \A k \in Targets : Heard(k, u)
    BY <1>2, <1>i, Zenon DEF Record, ProgressOnTargets, Heard
  <2>2. Settled(u)
    BY <2>1, Zenon DEF Settled, Heard
  <2>3. wrote \/ ~permanent
    BY <1>2, Zenon DEF Record, NothingLanded
  <2>4. \E k \in Targets : k = 1
    BY ConstantsAssumption DEF Targets
  <2>5. \E k \in Targets : Present(k, u)
    BY <1>2, <1>i, <2>3, <2>4, Zenon DEF Record, ProgressOnTargets
  <2>6. log' = log \cup {u}
    BY <1>2 DEF CommitRow
  <2> QED BY <1>i, <1>k, <2>2, <2>5, <2>6, Zenon DEF LogRowsAreBacked
<1> QED BY <1>1, <1>2, LogSteps, Zenon

LEMMA FreshnessStep == TypeOK /\ FreshnessTracksLog /\ [Next]_vars => FreshnessTracksLog'
<1> SUFFICES ASSUME TypeOK, FreshnessTracksLog, [Next]_vars PROVE FreshnessTracksLog'
  OBVIOUS
<1>i. FreshnessTracksLog /\ log \in SUBSET Times /\ lastWritten \in 0..MaxTime
  BY DEF TypeOK
<1>1. CASE UNCHANGED <<log, lastWritten>>
  BY <1>1, <1>i DEF FreshnessTracksLog
<1>2. ASSUME NEW u \in Times, CommitRow(u) PROVE FreshnessTracksLog'
  BY <1>2, <1>i, ConstantsAssumption DEF FreshnessTracksLog, CommitRow, Times
<1> QED BY <1>1, <1>2, LogSteps

(* The inductive invariant.                                                *)
LEMMA InvStep == TypeOK /\ IInv /\ [Next]_vars => IInv'
  BY FutureStep, QueueStep, SettledStep, WindowStep, CountersStep, ProgressStep,
     PostIsFreshStep, DuplicateStep, LogStep, FreshnessStep DEF IInv

(* Every part of the inductive invariant always holds.                     *)
THEOREM InductiveInvariant == Spec => []IInv
<1>1. TypeOK /\ IInv /\ [Next]_vars => (TypeOK /\ IInv)'
  BY TypeStep, InvStep
<1>2. Init => TypeOK /\ IInv
  BY TypeInit, InitIInv
<1> QED BY <1>1, <1>2, PTL DEF Spec

-----------------------------------------------------------------------------
(* The safety properties, for every number of targets, limit, lookback and *)
(* skew, and without a bound on crashes, failures or orphaned requests.    *)

(* The cursor passes a reading the fetch took on only when every target    *)
(* holds it or has refused it: no crash, transient error or lost answer    *)
(* loses one.                                                              *)
THEOREM CursorRule == Spec => []SettledBelowCursor
<1>1. IInv => SettledBelowCursor
  BY DEF IInv
<1> QED BY <1>1, InductiveInvariant, PTL

(* Retried cycles never store a second copy.                               *)
THEOREM ReplayIsIdempotent == Spec => []NoReplayDuplicate
<1>1. IInv => NoReplayDuplicate
  BY DEF IInv
<1> QED BY <1>1, InductiveInvariant, PTL

(* A write-log row stands for a reading that is settled and stored.        *)
THEOREM LogIsTrustworthy == Spec => []LogRowsAreBacked
<1>1. IInv => LogRowsAreBacked
  BY DEF IInv
<1> QED BY <1>1, InductiveInvariant, PTL

(* last_written_at is the newest row of the write log.                     *)
THEOREM FreshnessIsExact == Spec => []FreshnessTracksLog
<1>1. IInv => FreshnessTracksLog
  BY DEF IInv
<1> QED BY <1>1, InductiveInvariant, PTL

(* The cursor never enters the future.                                     *)
THEOREM CursorInThePast == Spec => []CursorNotAhead
<1>1. IInv => CursorNotAhead
  BY DEF IInv, NothingFromTheFuture, CursorNotAhead
<1> QED BY <1>1, InductiveInvariant, PTL

-----------------------------------------------------------------------------
(* The refinement.                                                         *)

(* What a step leaves alone, seen from the ledger.                         *)
LEMMA LedgerStutter ==
    ASSUME UNCHANGED <<seen, forgone, cursor>>,
           \A t \in seen : Settled(t)' <=> Settled(t)
    PROVE  UNCHANGED Ledger!ledgerVars
<1>1. Owed' = Owed /\ Done' = Done
  BY DEF Owed, Done
<1> QED BY <1>1 DEF Ledger!ledgerVars

(* A step that can only change what is settled about one reading.          *)
LEMMA LedgerSettle ==
    ASSUME NEW u \in Times, UNCHANGED <<seen, forgone, cursor>>,
           Settled(u) => Settled(u)',
           \A t \in seen : t # u => (Settled(t)' <=> Settled(t))
    PROVE  [Ledger!Next]_Ledger!ledgerVars
<1>1. CASE u \in seen /\ Settled(u)'
  <2>1. Owed' = Owed \ {u} /\ Done' = Done \cup {u}
    BY <1>1 DEF Owed, Done
  <2> QED BY <2>1 DEF Ledger!Next, Ledger!Settle
<1>2. CASE ~(u \in seen /\ Settled(u)')
  <2>1. \A t \in seen : Settled(t)' <=> Settled(t)
    BY <1>2
  <2> QED BY <2>1, LedgerStutter
<1> QED BY <1>1, <1>2

LEMMA LedgerStep == TypeOK /\ IInv /\ [Next]_vars => [Ledger!Next]_Ledger!ledgerVars
<1> SUFFICES ASSUME TypeOK, IInv, [Next]_vars PROVE [Ledger!Next]_Ledger!ledgerVars
  OBVIOUS
<1> USE DEF envVars, storeVars, frostVars, cycleVars, historyVars
<1>g. \A t \in Times : Settled(t) => Settled(t)'
  BY StepGrows, SettledStable
<1>t. seen \in SUBSET Times /\ forgone \in SUBSET Times /\ cursor \in 0..MaxTime /\ ti \in Targets
  BY DEF TypeOK
<1>e. ASSUME UNCHANGED <<reading, copies, orphan, verdict>>
      PROVE  \A t \in Times : Settled(t)' <=> Settled(t)
  BY <1>e DEF Settled, Present
<1>s. ASSUME UNCHANGED <<reading, copies, orphan, verdict, seen, forgone, cursor>>
      PROVE  [Ledger!Next]_Ledger!ledgerVars
  BY <1>s, <1>e, <1>t, LedgerStutter
<1>1. CASE FetchAndFilter
  <2>1. UNCHANGED <<reading, copies, orphan, verdict, cursor>>
    BY <1>1, Zenon DEF FetchAndFilter
  <2>2. CASE UNCHANGED historyVars
    BY <2>1, <2>2, <1>s
  <2>3. CASE ~UNCHANGED historyVars
    <3>1. /\ seen' = seen \cup OnOffer
          /\ forgone \subseteq forgone' /\ forgone' \in SUBSET Times
      BY <1>1, <2>3, TypeStep DEF FetchAndFilter, TypeOK
    <3>2. seen' \in SUBSET Times
      BY <1>t, <3>1 DEF OnOffer
    <3>3. \A t \in Times : Settled(t)' <=> Settled(t)
      BY <2>1, <1>e
    <3>4. Owed' \in SUBSET Times /\ Done' \in SUBSET Times
      BY <3>2 DEF Owed, Done
    <3>5. Done' \cap Owed = {} /\ Done' = Done \cup Done'
      BY <1>t, <3>1, <3>2, <3>3 DEF Owed, Done
    <3>6. forgone' = forgone \cup forgone'
      BY <3>1
    <3>7. Owed' = (Owed \cup Owed') \ forgone'
      BY <1>t, <3>1, <3>2, <3>3 DEF Owed
    <3> QED BY <2>1, <3>1, <3>4, <3>5, <3>6, <3>7 DEF Ledger!Next, Ledger!Fetch
  <2> QED BY <2>2, <2>3
<1>2. CASE AdvanceCursor
  <2>1. UNCHANGED <<reading, copies, orphan, verdict, seen, forgone>>
    BY <1>2, Zenon DEF AdvanceCursor
  <2>2. CASE cursor' = cursor
    BY <2>1, <2>2, <1>s
  <2>3. CASE cursor' # cursor
    <3>1. cursor' \in Times /\ cursor' > cursor
      BY <1>2, <2>3, <1>t DEF AdvanceCursor, TypeOK, Times
    <3>2. Owed = {}
      BY <1>2 DEF AdvanceCursor, IInv, OwedIsQueued, Owed
    <3>3. Owed' = Owed /\ Done' = Done
      BY <2>1, <1>e, <1>t DEF Owed, Done
    <3> QED BY <2>1, <3>1, <3>2, <3>3 DEF Ledger!Next, Ledger!Advance
  <2> QED BY <2>2, <2>3
<1>3. CASE ReadCursor \/ ResolveTargets \/ MarkPolled
  BY <1>3, <1>s, Zenon DEF ReadCursor, ResolveTargets, MarkPolled
<1>4. ASSUME NEW u \in Times, CheckLog(u) \/ Drop(u) \/ Record(u)
      PROVE  [Ledger!Next]_Ledger!ledgerVars
  BY <1>4, <1>s, Zenon DEF CheckLog, Drop, Record
<1>o. ASSUME NEW u \in Times, UNCHANGED <<reading, seen, forgone, cursor>>,
             \A k \in Targets, t \in Times : t # u =>
                 (Present(k, t)' <=> Present(k, t)) /\ verdict'[k][t] = verdict[k][t]
      PROVE  [Ledger!Next]_Ledger!ledgerVars
  <2>1. \A t \in seen : t # u => (Settled(t)' <=> Settled(t))
    BY <1>o, <1>t DEF Settled
  <2> QED BY <1>o, <1>g, <2>1, LedgerSettle
<1>v. ASSUME NEW u \in Times, PermanentAnswer(u) \/ UNCHANGED verdict,
             NEW k \in Targets, NEW t \in Times, t # u
      PROVE  verdict'[k][t] = verdict[k][t]
  <2>1. CASE PermanentAnswer(u)
    <3>1. PICK v : verdict' = [verdict EXCEPT ![ti][u] = v]
      BY <2>1, Zenon DEF PermanentAnswer
    <3> QED BY <1>v, <1>t, <3>1 DEF TypeOK
  <2> QED BY <1>v, <2>1
<1>5. ASSUME NEW u \in Times, Probe(u) PROVE [Ledger!Next]_Ledger!ledgerVars
  <2>1. /\ UNCHANGED <<reading, copies, orphan, seen, forgone, cursor>>
        /\ PermanentAnswer(u) \/ UNCHANGED verdict
    BY <1>5, Zenon DEF Probe
  <2>2. \A k \in Targets, t \in Times : Present(k, t)' <=> Present(k, t)
    BY <2>1 DEF Present
  <2>3. \A k \in Targets, t \in Times : t # u => verdict'[k][t] = verdict[k][t]
    BY <2>1, <1>v
  <2> QED BY <2>1, <2>2, <2>3, <1>o
<1>6. ASSUME NEW u \in Times, Post(u) PROVE [Ledger!Next]_Ledger!ledgerVars
  <2>1. /\ UNCHANGED <<reading, orphan, seen, forgone, cursor>>
        /\ PermanentAnswer(u) \/ UNCHANGED verdict
    BY <1>6, Zenon DEF Post
  <2>2. copies' \in {copies, [copies EXCEPT ![ti][u] = @ + 1]}
    BY <1>6 DEF Post
  <2>3. \A k \in Targets, t \in Times : t # u => (Present(k, t)' <=> Present(k, t))
    BY <2>1, <2>2, <1>t, SMTT(30) DEF Present, TypeOK
  <2>4. \A k \in Targets, t \in Times : t # u => verdict'[k][t] = verdict[k][t]
    BY <2>1, <1>v
  <2> QED BY <2>1, <2>3, <2>4, <1>o
<1>7. CASE Crash
  <2>1. UNCHANGED <<reading, copies, verdict, seen, forgone, cursor>>
    BY <1>7, Zenon DEF Crash
  <2>2. ASSUME NEW u \in Times, orphan[ti][u] = "none",
               orphan' = [orphan EXCEPT ![ti][u] = "wire"]
        PROVE  [Ledger!Next]_Ledger!ledgerVars
    <3>1. \A k \in Targets, t \in Times : Present(k, t)' <=> Present(k, t)
      BY <2>1, <2>2, <1>t DEF Present, TypeOK
    <3> QED BY <2>1, <3>1, <1>o
  <2> QED BY <1>7, <1>s, <2>1, <2>2, Zenon DEF Crash
<1>8. ASSUME NEW j \in Targets, NEW u \in Times, Land(j, u)
      PROVE  [Ledger!Next]_Ledger!ledgerVars
  <2>1. UNCHANGED <<reading, copies, verdict, seen, forgone, cursor>>
    BY <1>8, Zenon DEF Land
  <2>2. \A k \in Targets, t \in Times : t # u => (Present(k, t)' <=> Present(k, t))
    BY <1>8, <2>1 DEF Land, Present, TypeOK
  <2> QED BY <2>1, <2>2, <1>o
<1>9. ASSUME NEW u \in Times, NEW kind \in Kinds, Publish(u, kind)
      PROVE  [Ledger!Next]_Ledger!ledgerVars
  <2>1. UNCHANGED <<copies, orphan, verdict, seen, forgone, cursor>>
    BY <1>9, Zenon DEF Publish
  <2>2. u \notin seen
    BY <1>9 DEF Publish, IInv, NothingFromTheFuture
  <2>3. \A t \in seen : reading'[t] = reading[t]
    BY <1>9, <1>t, <2>2 DEF Publish, TypeOK
  <2>4. \A t \in seen : Settled(t)' <=> Settled(t)
    BY <2>1, <2>3 DEF Settled, Present
  <2> QED BY <2>1, <2>4, LedgerStutter
<1>10. CASE Tick \/ CalmDown \/ UNCHANGED vars
  BY <1>10, <1>s, Zenon DEF Tick, CalmDown, vars
<1> QED
  BY <1>1, <1>2, <1>3, <1>4, <1>5, <1>6, <1>7, <1>8, <1>9, <1>10, Zenon
     DEF Next, Cycle, Environment, WriteStep

(* The cycle, with all its failures, implements the ledger.                *)
THEOREM Refinement == Spec => ImplementsLedger
<1>1. Init => Ledger!Init
  BY Zenon DEF Init, Ledger!Init, Owed, Done
<1> QED
  BY <1>1, TypeCorrect, InductiveInvariant, LedgerStep, PTL DEF Spec, ImplementsLedger, Ledger!Spec
=============================================================================
