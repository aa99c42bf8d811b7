--------------------------- MODULE WatchdogProofs ---------------------------
(***************************************************************************)
(* Proofs about Watchdog, for any number of streams, any divisor of the    *)
(* threshold and any length of the check interval.                         *)
(***************************************************************************)
EXTENDS Watchdog, TLAPS

(* How the rows of step's table relate its arguments and its result.       *)
LEMMA StepTable ==
    ASSUME NEW cur \in {"ok", "stale_pending", "stale"}, NEW over \in BOOLEAN
    PROVE  /\ Step(cur, over)[1] \in {"ok", "stale_pending", "stale"}
           /\ Step(cur, over)[2] \in {"none", "stale", "recovered"}
           /\ Step(cur, over)[1] = "stale_pending" <=> cur = "ok" /\ over
           /\ Step(cur, over)[1] = "stale" /\ cur # "stale" <=> cur = "stale_pending" /\ over
           /\ Step(cur, over)[2] = "stale" <=> cur = "stale_pending" /\ over
           /\ Step(cur, over)[2] # "none" => Step(cur, over)[1] # cur
  BY DEF Step

LEMMA OverIsBoolean == ASSUME NEW s PROVE Over(s) \in BOOLEAN
  BY DEF Over

LEMMA InitIInv == Init => TypeOK /\ IInv
<1> SUFFICES ASSUME Init PROVE TypeOK /\ IInv
  OBVIOUS
<1>1. TypeOK
  <2>1. 0 \in 0..MaxStreams /\ 0 \in 0..(2 * Interval) /\ 0 \in 0..Interval
    BY WatchdogAssumption
  <2>2. NoSnap \in [total : 0..MaxStreams, stale : 0..MaxStreams]
    BY <2>1 DEF NoSnap
  <2>3. calm \in BOOLEAN /\ restarted \in BOOLEAN
    BY DEF Init
  <2> QED BY <2>1, <2>2, <2>3 DEF Init, TypeOK
<1>2. IInv
  BY DEF Init, IInv, TickFollowsRow, PendingWasSeen, PendingIsTimed
<1> QED BY <1>1, <1>2

LEMMA TypeStep == TypeOK /\ IInv /\ [Next]_vars => TypeOK'
<1> SUFFICES ASSUME TypeOK, IInv, [Next]_vars PROVE TypeOK'
  OBVIOUS
<1> USE WatchdogAssumption
<1> USE DEF TypeOK, rowVars, stateRow, tickVars, historyVars, NoSnap, EndTick, GiveUp
<1>1. CASE Snapshot
  BY <1>1 DEF Snapshot, NextTick
<1>2. CASE Read
  BY <1>2, StepTable, OverIsBoolean DEF Read
<1>3. CASE Write
  <2> DEFINE next == Step(status, Over(snap))
  <2>1. next[1] \in {"ok", "stale_pending", "stale"}
    BY StepTable, OverIsBoolean
  <2> HIDE DEF next
  <2>2. UNCHANGED <<rowVars, calm, wait, heard>>
    BY <1>3 DEF Write
  <2>3. \/ UNCHANGED <<stateRow, historyVars>>
        \/ CommitState
    BY <1>3 DEF Write
  <2>4. \/ pc' = "fire" /\ UNCHANGED <<snap, transition>>
        \/ EndTick
    BY <1>3 DEF Write
  <2>5. status' \in {"ok", "stale_pending", "stale"}
    BY <2>1, <2>3 DEF CommitState, next
  <2>6. age' \in 0..(2 * Interval)
    BY <2>3 DEF CommitState, NextTick
  <2>7. streak' \in 0..2 /\ entries' \in 0..1
    BY <2>3 DEF CommitState
  <2>8. restarted' \in BOOLEAN
    BY <2>3 DEF CommitState
  <2> QED BY <2>2, <2>4, <2>5, <2>6, <2>7, <2>8
<1>4. CASE Fire
  <2>1. transition # "none"
    BY <1>4 DEF Fire, IInv, TickFollowsRow
  <2> QED BY <1>4, <2>1 DEF Fire
<1>5. CASE Restart
  BY <1>5 DEF Restart
<1>6. CASE Pass
  BY <1>6 DEF Pass
<1>7. CASE Streams
  BY <1>7 DEF Streams, FirstPoll, Freshen, GoStale
<1>8. CASE CalmDown
  BY <1>8 DEF CalmDown
<1>9. CASE UNCHANGED vars
  BY <1>9 DEF vars
<1> QED BY <1>1, <1>2, <1>3, <1>4, <1>5, <1>6, <1>7, <1>8, <1>9 DEF Next, Tick

LEMMA InvStep == TypeOK /\ IInv /\ [Next]_vars => IInv'
<1> SUFFICES ASSUME TypeOK, IInv, [Next]_vars PROVE IInv'
  OBVIOUS
<1> USE WatchdogAssumption
<1> USE DEF TypeOK, rowVars, stateRow, tickVars, historyVars, EndTick, GiveUp,
            IInv, TickFollowsRow, PendingWasSeen, PendingIsTimed
<1>1. CASE Snapshot
  <2>1. TickFollowsRow'
    BY <1>1 DEF Snapshot
  <2>2. PendingWasSeen'
    BY <1>1 DEF Snapshot
  <2>3. PendingIsTimed'
    BY <1>1 DEF Snapshot, NextTick
  <2> QED BY <2>1, <2>2, <2>3
<1>2. CASE Read
  <2>1. TickFollowsRow'
    BY <1>2, StepTable, OverIsBoolean DEF Read
  <2>2. PendingWasSeen'
    BY <1>2, StepTable, OverIsBoolean DEF Read
  <2>3. PendingIsTimed'
    BY <1>2 DEF Read
  <2> QED BY <2>1, <2>2, <2>3
<1>3. CASE Write
  <2>1. TickFollowsRow'
    BY <1>3, StepTable, OverIsBoolean DEF Write, Acknowledged, CommitState
  <2>2. PendingWasSeen'
    BY <1>3, StepTable, OverIsBoolean DEF Write, CommitState
  <2>3. PendingIsTimed'
    <3> SUFFICES ASSUME status' = "stale_pending" PROVE PendingIsTimed'
      OBVIOUS
    <3>1. CASE UNCHANGED <<stateRow, historyVars>>
      BY <1>3, <3>1 DEF Write
    <3>2. CASE CommitState
      <4>1. transition = "none"
        <5>1. Step(status, Over(snap))[1] = "stale_pending"
          BY <3>2 DEF CommitState
        <5>2. Step(status, Over(snap))[2] = "none"
          BY <5>1, OverIsBoolean DEF Step
        <5> QED BY <1>3, <5>2 DEF Write
      <4>2. pc' = "sleep" /\ wait' = wait
        BY <1>3, <4>1 DEF Write
      <4>3. age' = Interval - wait
        BY <3>2 DEF CommitState, NextTick
      <4> QED BY <4>2, <4>3
    <3> QED BY <1>3, <3>1, <3>2 DEF Write
  <2> QED BY <2>1, <2>2, <2>3
<1>4. CASE Fire
  BY <1>4 DEF Fire
<1>5. CASE Restart
  BY <1>5 DEF Restart
<1>6. CASE Pass
  BY <1>6 DEF Pass
<1>7. CASE Streams
  BY <1>7 DEF Streams
<1>8. CASE CalmDown
  BY <1>8 DEF CalmDown
<1>9. CASE UNCHANGED vars
  BY <1>9 DEF vars
<1> QED BY <1>1, <1>2, <1>3, <1>4, <1>5, <1>6, <1>7, <1>8, <1>9 DEF Next, Tick

(* The types and the inductive invariant hold together.                    *)
THEOREM InductiveInvariant == Spec => [](TypeOK /\ IInv)
<1>1. TypeOK /\ IInv /\ [Next]_vars => (TypeOK /\ IInv)'
  BY TypeStep, InvStep
<1> QED BY <1>1, InitIInv, PTL DEF Spec

(* The row and the goroutine keep to the states the code names.            *)
THEOREM TypeCorrect == Spec => []TypeOK
<1> QED BY InductiveInvariant, PTL

(* No crash, lost answer or failed call leads to a "stale" alert without   *)
(* two snapshots over the threshold.                                       *)
THEOREM Hysteresis == Spec => StaleNeedsTwoTicks
<1>1. TypeOK /\ IInv => (Fire /\ transition = "stale" => streak = 2)
  BY DEF IInv, TickFollowsRow, Fire
<1> QED BY <1>1, InductiveInvariant, PTL DEF StaleNeedsTwoTicks

(* No committed entry to "stale" is ever alerted twice.                    *)
THEOREM NoSpam == Spec => OneAlertPerEntry
<1>1. TypeOK /\ IInv => (Fire /\ transition = "stale" => entries = 1)
  BY DEF IInv, TickFollowsRow, Fire
<1> QED BY <1>1, InductiveInvariant, PTL DEF OneAlertPerEntry

(* Without a restart, a row turns "stale" only a whole check interval      *)
(* after the tick that made it pending.                                    *)
THEOREM Sustained == Spec => StaleIsSustained
<1>1. ASSUME TypeOK, IInv, [Next]_vars, status' = "stale", status # "stale"
      PROVE  restarted \/ age + wait >= 2 * Interval
  <2>1. Write
    BY <1>1 DEF Next, Tick, Snapshot, Read, Fire, Restart, Pass, Streams, CalmDown,
                vars, stateRow
  <2>2. pc = "write" /\ status' = Step(status, Over(snap))[1]
    BY <1>1, <2>1 DEF Write, CommitState, stateRow
  <2>3. status = "stale_pending"
    BY <1>1, <2>2, StepTable, OverIsBoolean DEF TypeOK
  <2> QED BY <1>1, <2>2, <2>3 DEF IInv, PendingIsTimed
<1>2. TypeOK /\ IInv /\ [Next]_vars =>
          (status' = "stale" /\ status # "stale" =>
               restarted \/ age + wait >= 2 * Interval)
  BY <1>1
<1> QED BY <1>2, InductiveInvariant, PTL DEF Spec, StaleIsSustained
=============================================================================
