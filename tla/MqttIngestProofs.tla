-------------------------- MODULE MqttIngestProofs ---------------------------
(***************************************************************************)
(* Proofs about MqttIngest, for every value of its constants.  A step of   *)
(* the MQTT variant is a step of PollIngest that is no POST, a publication *)
(* in the place of the POST, or a step of the broker.                      *)
(***************************************************************************)
EXTENDS MqttIngest, PollIngestProofs

PollStep ==
    \/ OverHttp \/ Crash
    \/ \E t \in Times, kind \in Kinds : Publish(t, kind)
    \/ Tick \/ CalmDown \/ UNCHANGED vars

MqttStep == [MqttNext]_<<vars, mqttVars>>

LEMMA PollStepIsNext == TypeOK /\ PollStep => [Next]_vars
<1> SUFFICES ASSUME TypeOK, PollStep PROVE [Next]_vars
  OBVIOUS
<1>1. CASE OverHttp
  BY <1>1, Zenon DEF OverHttp, Next, Cycle, WriteStep
<1>2. CASE \E t \in Times, kind \in Kinds : Publish(t, kind)
  BY <1>2, Zenon DEF Next, Environment
<1>3. CASE Crash \/ Tick \/ CalmDown \/ UNCHANGED vars
  BY <1>3, Zenon DEF Next, Environment
<1> QED BY <1>1, <1>2, <1>3, Zenon DEF PollStep

LEMMA StepKinds ==
    ASSUME MqttStep
    PROVE  \/ PollStep /\ UNCHANGED <<acked, lost>>
           \/ \E t \in Times : Publication(t)
           \/ \E k \in Targets, t \in Times : Deliver(k, t)
           \/ \E k \in Targets, t \in Times : Lose(k, t)
<1>1. CASE UNCHANGED <<vars, mqttVars>>
  BY <1>1, Zenon DEF PollStep, mqttVars
<1>2. CASE MqttCycle
  BY <1>2, Zenon DEF MqttCycle, PollStep
<1>3. CASE MqttEnvironment
  BY <1>3, Zenon DEF MqttEnvironment, MqttCrash, Broker, PollStep
<1> QED BY <1>1, <1>2, <1>3, Zenon DEF MqttStep, MqttNext

-----------------------------------------------------------------------------
(* Type correctness.                                                       *)

LEMMA MqttTypeInit == MqttInit => MqttTypeOK
<1> SUFFICES ASSUME MqttInit PROVE MqttTypeOK
  OBVIOUS
<1>1. calm \in BOOLEAN /\ polled \in BOOLEAN /\ linked \in BOOLEAN
      /\ wrote \in BOOLEAN /\ permanent \in BOOLEAN
  BY Zenon DEF MqttInit
<1>2. TypeOK
  BY <1>1, ConstantsAssumption DEF MqttInit, TypeOK, Times, Targets, Labels, Kinds
<1> QED BY <1>2 DEF MqttInit, MqttTypeOK

(* A publication either leaves the cycle or goes on to the next target.    *)
LEMMA PublicationShape ==
    ASSUME NEW t \in Times, Publication(t)
    PROVE  /\ pc = "post" /\ IsNext(t)
           /\ UNCHANGED <<envVars, storeVars, frostVars, historyVars, lost>>
           /\ \/ LeaveTo("mark") /\ UNCHANGED acked
              \/ NextTarget /\ wrote' = TRUE /\ UNCHANGED permanent
                 /\ acked' = acked \cup {<<ti, t>>}
           /\ wire' = wire \/ wire' = wire \cup {<<ti, t>>}
BY Zenon DEF Publication, Acknowledged, Unconfirmed, Fail, Hand

(* The one message that a step may put on the wire: in a publication, or   *)
(* in the crash that cuts it off.                                          *)
Handed(t) == pc = "post" /\ IsNext(t) /\ (Publication(t) \/ pc' = "idle")

WireStep ==
    \/ wire' \subseteq wire
    \/ \E t \in Times : Handed(t) /\ wire' = wire \cup {<<ti, t>>}

LEMMA WireSteps == MqttStep => WireStep
<1> SUFFICES ASSUME MqttStep PROVE WireStep
  OBVIOUS
<1>1. ASSUME wire' = wire PROVE WireStep
  BY <1>1 DEF WireStep
<1>2. ASSUME NEW t \in Times, Publication(t) PROVE WireStep
  BY <1>1, <1>2, PublicationShape, Zenon DEF WireStep, Handed
<1>3. CASE MqttCrash
  BY <1>1, <1>3, Zenon DEF MqttCrash, Crash, LeaveTo, Hand, WireStep, Handed
<1>4. ASSUME NEW k \in Targets, NEW t \in Times, Deliver(k, t) \/ Lose(k, t)
      PROVE  WireStep
  <2>1. wire' \subseteq wire
    BY <1>4 DEF Deliver, Lose
  <2> QED BY <2>1 DEF WireStep
<1> QED
  BY <1>1, <1>2, <1>3, <1>4, Zenon
     DEF MqttStep, MqttNext, MqttCycle, MqttEnvironment, Broker, mqttVars

LEMMA MqttTypeStep == MqttTypeOK /\ MqttStep => MqttTypeOK'
<1> SUFFICES ASSUME MqttTypeOK, MqttStep PROVE MqttTypeOK'
  OBVIOUS
<1> USE DEF envVars, storeVars, frostVars, cycleVars, historyVars, mqttVars
<1>t. /\ TypeOK /\ ti \in Targets
      /\ wire \subseteq Messages /\ acked \subseteq Messages /\ lost \subseteq Messages
  BY DEF MqttTypeOK, TypeOK
<1>1. TypeOK'
  <2>1. CASE PollStep
    BY <1>t, <2>1, PollStepIsNext, TypeStep
  <2>2. ASSUME NEW t \in Times, Publication(t) PROVE TypeOK'
    <3>1. /\ UNCHANGED <<envVars, storeVars, frostVars, historyVars>>
          /\ \/ LeaveTo("mark")
             \/ NextTarget /\ wrote' = TRUE /\ UNCHANGED permanent
      BY <2>2, PublicationShape, Zenon
    <3>2. /\ pc' \in Labels /\ since' \in 0..MaxTime /\ todo' \in SUBSET Times
          /\ covered' \in 0..MaxTime /\ ti' \in Targets
      <4>1. CASE LeaveTo("mark")
        BY <4>1, LeaveType DEF Labels
      <4>2. CASE NextTarget
        BY <1>t, <4>2, NextTargetType
      <4> QED BY <3>1, <4>1, <4>2
    <3>3. wrote' \in BOOLEAN /\ permanent' \in BOOLEAN
      BY <1>t, <3>1, Zenon DEF LeaveTo, TypeOK
    <3> QED BY <1>t, <3>1, <3>2, <3>3 DEF TypeOK
  <2>3. ASSUME NEW k \in Targets, NEW t \in Times, Deliver(k, t) PROVE TypeOK'
    BY <1>t, <2>3 DEF Deliver, TypeOK
  <2>4. ASSUME NEW k \in Targets, NEW t \in Times, Lose(k, t) PROVE TypeOK'
    BY <1>t, <2>4 DEF Lose, TypeOK
  <2> QED BY <2>1, <2>2, <2>3, <2>4, StepKinds
<1>2. torn' \subseteq Times
  BY DEF MqttStep, MqttNext, Torn, MqttTypeOK
<1>3. acked' \subseteq Messages /\ lost' \subseteq Messages
  <2>1. ASSUME NEW t \in Times, Publication(t)
        PROVE  acked' \subseteq Messages /\ lost' \subseteq Messages
    <3>1. lost' = lost /\ (acked' = acked \/ acked' = acked \cup {<<ti, t>>})
      BY <2>1, PublicationShape, Zenon
    <3> QED BY <1>t, <3>1 DEF Messages
  <2>2. ASSUME NEW k \in Targets, NEW t \in Times, Deliver(k, t) \/ Lose(k, t)
        PROVE  acked' \subseteq Messages /\ lost' \subseteq Messages
    BY <1>t, <2>2 DEF Deliver, Lose, Messages
  <2> QED BY <1>t, <2>1, <2>2, StepKinds
<1>4. wire' \subseteq Messages
  <2>1. WireStep
    BY WireSteps
  <2> QED BY <1>t, <2>1 DEF WireStep, Messages
<1> QED BY <1>1, <1>2, <1>3, <1>4 DEF MqttTypeOK

-----------------------------------------------------------------------------
(* What a target has taken stays taken.                                    *)

LEMMA TakenStays ==
    ASSUME MqttTypeOK, MqttStep, NEW k \in Targets, NEW t \in Times, Taken(k, t)
    PROVE  Taken(k, t)'
<1> USE DEF envVars, storeVars, frostVars, cycleVars, historyVars
<1>1. CASE PollStep /\ UNCHANGED <<acked, lost>>
  <2>1. Grows
    BY <1>1, PollStepIsNext, StepGrows DEF MqttTypeOK
  <2>2. /\ Present(k, t) => Present(k, t)'
        /\ verdict[k][t] # "none" => verdict'[k][t] # "none"
    BY <2>1 DEF Grows
  <2> QED BY <1>1, <2>2 DEF Taken
<1>2. ASSUME NEW u \in Times, Publication(u) PROVE Taken(k, t)'
  <2>1. UNCHANGED <<copies, orphan, verdict>>
    BY <1>2, PublicationShape, Zenon
  <2>2. acked \subseteq acked'
    <3>1. acked' = acked \/ acked' = acked \cup {<<ti, u>>}
      BY <1>2, PublicationShape, Zenon
    <3> QED BY <3>1
  <2> QED BY <2>1, <2>2 DEF Taken, Present
<1>3. ASSUME NEW j \in Targets, NEW u \in Times, Deliver(j, u) PROVE Taken(k, t)'
  <2>1. UNCHANGED <<orphan, verdict, acked>>
    BY <1>3, Zenon DEF Deliver
  <2>2. copies[k][t] > 0 => copies'[k][t] > 0
    BY <1>3 DEF Deliver, MqttTypeOK, TypeOK
  <2> QED BY <2>1, <2>2 DEF Taken, Present
<1>4. ASSUME NEW j \in Targets, NEW u \in Times, Lose(j, u) PROVE Taken(k, t)'
  BY <1>4 DEF Lose, Taken, Present
<1> QED BY <1>1, <1>2, <1>3, <1>4, StepKinds

(* A row the vendor serves never changes.                                  *)
LEMMA RowsStay ==
    ASSUME MqttTypeOK, MqttStep, NEW t \in Times, reading[t] # "none"
    PROVE  reading'[t] = reading[t]
<1> USE DEF envVars
<1>1. CASE PollStep
  <2>1. Grows
    BY <1>1, PollStepIsNext, StepGrows DEF MqttTypeOK
  <2> QED BY <2>1 DEF Grows
<1>2. ASSUME NEW u \in Times, Publication(u) PROVE reading' = reading
  BY <1>2, PublicationShape, Zenon
<1>3. ASSUME NEW k \in Targets, NEW u \in Times, Deliver(k, u) \/ Lose(k, u)
      PROVE  reading' = reading
  BY <1>3, Zenon DEF Deliver, Lose
<1> QED BY <1>1, <1>2, <1>3, StepKinds

LEMMA DealtWithStays ==
    ASSUME MqttTypeOK, MqttStep, NEW t \in Times, DealtWith(t)
    PROVE  DealtWith(t)'
<1>1. CASE reading[t] \in {"invalid", "low"}
  BY <1>1, RowsStay DEF DealtWith
<1>2. CASE \A k \in Targets : Taken(k, t)
  BY <1>2, TakenStays DEF DealtWith
<1> QED BY <1>1, <1>2 DEF DealtWith

-----------------------------------------------------------------------------
(* The conjuncts of the inductive invariant, one lemma each.               *)

LEMMA MqttInitIInv == MqttInit => MqttIInv
<1> SUFFICES ASSUME MqttInit PROVE MqttIInv
  OBVIOUS
<1>1. ~wrote /\ ~permanent
  BY Zenon DEF MqttInit
<1>2. todo = {} /\ pc = "idle" /\ ti = 1 /\ seen = {} /\ log = {}
      /\ cursor = 0 /\ since = 0 /\ covered = 0 /\ now = 1
      /\ reading = [t \in Times |-> "none"]
  BY Zenon DEF MqttInit
<1>3. NothingFromTheFuture /\ FreshCounters /\ WindowAboveCursor
  BY <1>1, <1>2 DEF NothingFromTheFuture, FreshCounters, WindowAboveCursor
<1>4. AcknowledgedBelowCursor /\ UntakenIsQueued /\ LogRowsAreTaken /\ InHand
  BY <1>2 DEF AcknowledgedBelowCursor, UntakenIsQueued, LogRowsAreTaken, InHand, IsNext
<1>5. SentIsAccounted
  <2>1. Sent = {}
    BY DEF MqttInit, Sent, Messages
  <2> QED BY <2>1 DEF SentIsAccounted
<1> QED BY <1>3, <1>4, <1>5 DEF MqttIInv

(* PollIngest's own invariants, whose proofs hold for its steps here too.  *)
LEMMA InheritedStep ==
    ASSUME MqttTypeOK, MqttIInv, MqttStep
    PROVE  NothingFromTheFuture' /\ FreshCounters' /\ WindowAboveCursor'
<1> USE DEF envVars, storeVars, frostVars, cycleVars, historyVars
<1>i. TypeOK /\ NothingFromTheFuture /\ FreshCounters /\ WindowAboveCursor
  BY DEF MqttTypeOK, MqttIInv
<1>1. CASE PollStep
  BY <1>i, <1>1, PollStepIsNext, FutureStep, CountersStep, WindowStep
<1>2. ASSUME NEW t \in Times, Publication(t)
      PROVE  NothingFromTheFuture' /\ FreshCounters' /\ WindowAboveCursor'
  <2>1. UNCHANGED <<now, reading, cursor, seen>> /\ pc = "post"
    BY <1>2, PublicationShape, Zenon
  <2>2. CASE LeaveTo("mark")
    <3>1. NothingFromTheFuture'
      BY <1>i, <2>1, <2>2 DEF LeaveTo, NothingFromTheFuture, TypeOK, Times
    <3>2. FreshCounters' /\ WindowAboveCursor'
      <4>1. pc' = "mark" /\ ti' = 1 /\ ~wrote' /\ ~permanent'
        BY <2>2, Zenon DEF LeaveTo
      <4> QED BY <4>1 DEF FreshCounters, WindowAboveCursor
    <3> QED BY <3>1, <3>2
  <2>3. CASE NextTarget
    <3>1. UNCHANGED <<since, todo, covered>> /\ pc' \in {"probe", "record"}
      BY <2>3 DEF NextTarget
    <3> QED BY <1>i, <2>1, <3>1 DEF NothingFromTheFuture, FreshCounters, WindowAboveCursor
  <2> QED BY <1>2, <2>2, <2>3, PublicationShape, Zenon
<1>3. ASSUME NEW k \in Targets, NEW t \in Times, Deliver(k, t) \/ Lose(k, t)
      PROVE  NothingFromTheFuture' /\ FreshCounters' /\ WindowAboveCursor'
  <2>1. UNCHANGED <<now, reading, cursor, seen>> /\ UNCHANGED cycleVars
    BY <1>3, Zenon DEF Deliver, Lose
  <2> QED BY <1>i, <2>1 DEF NothingFromTheFuture, FreshCounters, WindowAboveCursor
<1> QED BY <1>1, <1>2, <1>3, StepKinds

(* The queue holds everything owed until the cursor may move.              *)
LEMMA UntakenStep ==
    ASSUME MqttTypeOK, MqttIInv, MqttStep
    PROVE  UntakenIsQueued'
<1> USE DEF envVars, storeVars, frostVars, cycleVars, historyVars
<1>g. \A t \in Times : DealtWith(t) => DealtWith(t)'
  BY DealtWithStays
<1>t. TypeOK /\ seen \in SUBSET Times /\ todo \in SUBSET Times
  BY DEF MqttTypeOK, TypeOK
<1>i. /\ UntakenIsQueued /\ NothingFromTheFuture /\ AcknowledgedBelowCursor
      /\ LogRowsAreTaken /\ InHand
  BY DEF MqttIInv
<1>l. ASSUME LeaveTo("idle") \/ LeaveTo("mark") PROVE UntakenIsQueued'
  BY <1>l DEF LeaveTo, UntakenIsQueued, Writing
<1>c. ASSUME NEW u \in Times, pc \in Writing, IsNext(u), DealtWith(u),
             Cover(u), UNCHANGED <<seen, forgone>>
      PROVE  UntakenIsQueued'
  <2>1. \A t \in seen \ forgone : t \in todo \/ DealtWith(t)
    BY <1>c, <1>i DEF UntakenIsQueued
  <2>2. \A t \in seen' \ forgone' : t \in todo' \/ DealtWith(t)'
    BY <2>1, <1>c, <1>t, <1>g DEF Cover
  <2>3. pc' = "advance" => todo' = {}
    BY <1>c DEF Cover
  <2> QED BY <2>2, <2>3 DEF UntakenIsQueued
<1>s. ASSUME pc \in Writing \cup {"resolve"}, UNCHANGED <<todo, seen, forgone>>,
             pc' # "advance"
      PROVE  UntakenIsQueued'
  <2>1. \A t \in seen \ forgone : t \in todo \/ DealtWith(t)
    BY <1>s, <1>i DEF UntakenIsQueued
  <2> QED BY <2>1, <1>s, <1>t, <1>g DEF UntakenIsQueued
<1>u. ASSUME UNCHANGED <<pc, todo, seen, forgone>> PROVE UntakenIsQueued'
  BY <1>u, <1>i, <1>t, <1>g DEF UntakenIsQueued
<1>1. CASE ReadCursor
  BY <1>1, <1>l DEF ReadCursor, Fail, UntakenIsQueued, Writing
<1>2. CASE FetchAndFilter
  <2>1. CASE Fail /\ UNCHANGED historyVars
    BY <2>1, <1>l, Zenon DEF Fail
  <2>2. CASE ~(Fail /\ UNCHANGED historyVars)
    <3> DEFINE rejected == {t \in ToObservations(Page) : Rejects(t)}
    <3>1. /\ todo' = ToObservations(Page) \ rejected
          /\ pc' = IF todo' = {} THEN "advance" ELSE "resolve"
          /\ seen' = seen \cup OnOffer
          /\ forgone' = forgone \cup (OnOffer \ Page)
                                \cup {t \in seen : cursor < t /\ t <= since}
      BY <1>2, <2>2 DEF FetchAndFilter
    <3>2. ASSUME NEW t \in seen' \ forgone'
          PROVE  t \in todo' \/ DealtWith(t)
      <4>1. t \in Times /\ reading[t] # "none" /\ t <= now
        BY <3>1, <3>2, <1>i, <1>t DEF OnOffer, NothingFromTheFuture
      <4>2. CASE t <= since
        <5>1. t \in seen
          BY <3>1, <3>2, <4>1, <4>2, <1>t DEF OnOffer, TypeOK, Times
        <5>2. t <= cursor
          BY <3>1, <3>2, <4>1, <4>2, <5>1, <1>t DEF TypeOK, Times
        <5> QED BY <3>1, <3>2, <5>1, <5>2, <1>i DEF AcknowledgedBelowCursor
      <4>3. CASE since < t
        <5>1. t \in Page
          BY <3>1, <3>2, <4>1, <4>3 DEF OnOffer
        <5>2. CASE reading[t] \in {"invalid", "low"}
          BY <5>2 DEF DealtWith
        <5>3. CASE reading[t] \notin {"invalid", "low"}
          <6>1. t \in ToObservations(Page)
            BY <4>1, <5>1, <5>3 DEF ToObservations
          <6>2. ~Rejects(t)
            BY <4>1, <4>3, <5>3, <1>t, ConstantsAssumption DEF Rejects, TypeOK, Times
          <6> QED BY <3>1, <6>1, <6>2
        <5> QED BY <5>2, <5>3
      <4> QED BY <4>1, <4>2, <4>3, <1>t DEF TypeOK, Times
    <3>3. seen' \in SUBSET Times
      BY <3>1, <1>t DEF OnOffer
    <3>4. pc' = "advance" => todo' = {}
      BY <3>1
    <3> QED BY <3>2, <3>3, <3>4, <1>g DEF UntakenIsQueued
  <2> QED BY <2>1, <2>2
<1>3. CASE ResolveTargets
  BY <1>3, <1>l, <1>s DEF ResolveTargets, Fail
<1>4. ASSUME NEW u \in Times, CheckLog(u) PROVE UntakenIsQueued'
  <2>1. CASE u \in log /\ Cover(u)
    <3>1. DealtWith(u)
      BY <2>1, <1>i DEF LogRowsAreTaken, DealtWith
    <3> QED BY <1>4, <2>1, <3>1, <1>c DEF CheckLog, Writing
  <2>2. CASE Fail
    BY <2>2, <1>l DEF Fail
  <2>3. CASE pc' = "probe" /\ UNCHANGED todo
    BY <1>4, <2>3, <1>s DEF CheckLog, Writing
  <2> QED BY <1>4, <2>1, <2>2, <2>3, Zenon DEF CheckLog
<1>5. ASSUME NEW u \in Times, Probe(u) \/ Publication(u) PROVE UntakenIsQueued'
  <2>0. pc \in Writing /\ UNCHANGED <<seen, forgone>>
    BY <1>5, PublicationShape DEF Probe, Writing
  <2>1. CASE LeaveTo("mark")
    BY <2>1, <1>l
  <2>2. CASE NextTarget
    BY <2>0, <2>2, <1>s DEF NextTarget
  <2>3. CASE pc' = "post" /\ UNCHANGED todo
    BY <2>0, <2>3, <1>s
  <2> QED BY <1>5, <2>1, <2>2, <2>3, PublicationShape, Zenon DEF Probe, PermanentAnswer, Fail
<1>6. ASSUME NEW u \in Times, Drop(u) \/ Record(u) PROVE UntakenIsQueued'
  <2>1. pc = "record" /\ IsNext(u) /\ UNCHANGED <<seen, forgone>>
    BY <1>6, Zenon DEF Drop, Record
  <2>2. DealtWith(u)
    BY <2>1, <1>i DEF InHand, DealtWith
  <2>3. CASE Cover(u)
    BY <2>1, <2>2, <2>3, <1>c DEF Writing
  <2>4. CASE Fail
    BY <2>4, <1>l DEF Fail
  <2> QED BY <1>6, <2>3, <2>4, Zenon DEF Drop, Record
<1>7. CASE AdvanceCursor \/ MarkPolled \/ Crash
  BY <1>7, <1>l, Zenon DEF AdvanceCursor, MarkPolled, Crash
<1>8. CASE (\E t \in Times, kind \in Kinds : Publish(t, kind)) \/ Tick \/ CalmDown \/ UNCHANGED vars
  BY <1>8, <1>u, Zenon DEF Publish, Tick, CalmDown, vars
<1>9. ASSUME NEW k \in Targets, NEW t \in Times, Deliver(k, t) \/ Lose(k, t)
      PROVE  UntakenIsQueued'
  BY <1>9, <1>u, Zenon DEF Deliver, Lose
<1> QED
  BY <1>1, <1>2, <1>3, <1>4, <1>5, <1>6, <1>7, <1>8, <1>9, StepKinds, Zenon
     DEF PollStep, OverHttp

(* The cursor never passes a reading some target has not taken.            *)
LEMMA AcknowledgedStep ==
    ASSUME MqttTypeOK, MqttIInv, MqttStep
    PROVE  AcknowledgedBelowCursor'
<1> USE DEF envVars, storeVars, frostVars, cycleVars, historyVars
<1>g. \A t \in Times : DealtWith(t) => DealtWith(t)'
  BY DealtWithStays
<1>t. TypeOK /\ seen \in SUBSET Times
  BY DEF MqttTypeOK, TypeOK
<1>i. /\ UntakenIsQueued /\ WindowAboveCursor
      /\ \A t \in seen \ forgone : t <= cursor => DealtWith(t)
  BY DEF MqttIInv, AcknowledgedBelowCursor
<1>p. SUFFICES \A t \in seen' \ forgone' : t <= cursor' => DealtWith(t)'
  BY DEF AcknowledgedBelowCursor
<1> DEFINE Goal == \A t \in seen' \ forgone' : t <= cursor' => DealtWith(t)'
<1>u. ASSUME UNCHANGED <<cursor, seen, forgone>> PROVE Goal
  BY <1>u, <1>g, <1>i, <1>t
<1>1. CASE FetchAndFilter
  <2>1. CASE UNCHANGED historyVars
    BY <1>1, <2>1, <1>u, Zenon DEF FetchAndFilter
  <2>2. CASE ~UNCHANGED historyVars
    <3>1. /\ seen' = seen \cup OnOffer /\ cursor' = cursor
          /\ forgone' = forgone \cup (OnOffer \ Page)
                                \cup {t \in seen : cursor < t /\ t <= since}
      BY <1>1, <2>2 DEF FetchAndFilter
    <3>2. ASSUME NEW t \in seen' \ forgone', t <= cursor'
          PROVE  DealtWith(t)'
      <4>1. CASE t \in seen
        BY <3>1, <3>2, <4>1, <1>g, <1>i, <1>t
      <4>2. CASE t \notin seen
        <5>1. t \in Times /\ since < t
          BY <3>1, <3>2, <4>2 DEF OnOffer
        <5>2. cursor <= since
          BY <1>1, <1>i DEF FetchAndFilter, WindowAboveCursor
        <5> QED BY <3>1, <3>2, <5>1, <5>2, <1>t DEF TypeOK, Times
      <4> QED BY <4>1, <4>2
    <3> QED BY <3>2
  <2> QED BY <2>1, <2>2
<1>2. CASE AdvanceCursor
  <2>1. \A t \in seen \ forgone : DealtWith(t)
    BY <1>2, <1>i DEF AdvanceCursor, UntakenIsQueued
  <2>2. UNCHANGED <<seen, forgone>>
    BY <1>2 DEF AdvanceCursor
  <2> QED BY <2>1, <2>2, <1>g, <1>t
<1>3. CASE ReadCursor \/ ResolveTargets \/ MarkPolled \/ Crash
  BY <1>3, <1>u, Zenon DEF ReadCursor, ResolveTargets, MarkPolled, Crash
<1>4. ASSUME NEW u \in Times,
             CheckLog(u) \/ Probe(u) \/ Drop(u) \/ Record(u) \/ Publication(u)
      PROVE  Goal
  BY <1>4, <1>u, PublicationShape, Zenon DEF CheckLog, Probe, Drop, Record
<1>5. CASE (\E t \in Times, kind \in Kinds : Publish(t, kind)) \/ Tick \/ CalmDown \/ UNCHANGED vars
  BY <1>5, <1>u, Zenon DEF Publish, Tick, CalmDown, vars
<1>6. ASSUME NEW k \in Targets, NEW t \in Times, Deliver(k, t) \/ Lose(k, t)
      PROVE  Goal
  BY <1>6, <1>u, Zenon DEF Deliver, Lose
<1> QED
  BY <1>1, <1>2, <1>3, <1>4, <1>5, <1>6, StepKinds, Zenon DEF PollStep, OverHttp

(* Only RecordObservationWrite touches the write log.                      *)
LEMMA MqttLogSteps ==
    ASSUME MqttTypeOK, MqttStep
    PROVE  log' = log \/ \E u \in Times : Record(u) /\ log' = log \cup {u}
<1> USE DEF envVars, storeVars, frostVars, cycleVars, historyVars
<1>1. CASE PollStep
  BY <1>1, PollStepIsNext, LogSteps, Zenon DEF CommitRow, MqttTypeOK
<1>2. ASSUME NEW t \in Times, Publication(t) PROVE log' = log
  BY <1>2, PublicationShape, Zenon
<1>3. ASSUME NEW k \in Targets, NEW t \in Times, Deliver(k, t) \/ Lose(k, t)
      PROVE  log' = log
  BY <1>3, Zenon DEF Deliver, Lose
<1> QED BY <1>1, <1>2, <1>3, StepKinds

LEMMA LogTakenStep ==
    ASSUME MqttTypeOK, MqttIInv, MqttStep
    PROVE  LogRowsAreTaken'
<1>g. \A k \in Targets, t \in Times : Taken(k, t) => Taken(k, t)'
  BY TakenStays
<1>i. LogRowsAreTaken /\ InHand /\ log \in SUBSET Times
  BY DEF MqttIInv, MqttTypeOK, TypeOK
<1>1. CASE log' = log
  BY <1>g, <1>i, <1>1 DEF LogRowsAreTaken
<1>2. ASSUME NEW u \in Times, Record(u), log' = log \cup {u} PROVE LogRowsAreTaken'
  <2>1. \A k \in Targets : Taken(k, u)
    BY <1>2, <1>i, Zenon DEF Record, InHand
  <2> QED BY <1>g, <1>i, <1>2, <2>1 DEF LogRowsAreTaken
<1> QED BY <1>1, <1>2, MqttLogSteps

(* On to the next target: the one just handled joins the ones done.        *)
LEMMA InHandGoesOn ==
    ASSUME MqttTypeOK, MqttIInv, MqttStep, NEW u \in Times, IsNext(u),
           pc \in {"probe", "post"}, NextTarget, log' = log,
           NEW j \in Targets, j = ti, Taken(j, u)'
    PROVE  InHand'
<1>1. SUFFICES ASSUME NEW t \in Times, IsNext(t)'
               PROVE  /\ pc' \in {"probe", "post", "record"} => t \notin log'
                      /\ pc' \in {"probe", "post"} => \A k \in 1..(ti' - 1) : Taken(k, t)'
                      /\ pc' = "record" => \A k \in Targets : Taken(k, t)'
  BY DEF InHand
<1>2. t = u
  BY <1>1, NextUnique DEF NextTarget, IsNext, MqttTypeOK
<1>3. j \in Nat /\ Targets = 1..NumTargets /\ NumTargets \in Nat /\ ti = j
  BY ConstantsAssumption DEF Targets
<1>4. u \notin log /\ \A k \in 1..(j - 1) : Taken(k, u)
  BY DEF MqttIInv, InHand
<1>5. /\ \A k \in 1..(j - 1) : k \in Targets
      /\ \A k \in 1..j : k \in 1..(j - 1) \/ k = j
  BY <1>3
<1>6. \A k \in Targets : Taken(k, u) => Taken(k, u)'
  BY TakenStays
<1>7. \A k \in 1..j : Taken(k, u)'
  BY <1>4, <1>5, <1>6, Zenon
<1>8. CASE pc' = "record" /\ ti = NumTargets
  BY <1>2, <1>3, <1>4, <1>7, <1>8
<1>9. CASE pc' = "probe" /\ ti' = ti + 1
  <2>1. ti' - 1 = j
    BY <1>3, <1>9
  <2> QED BY <1>2, <1>4, <1>7, <1>9, <2>1
<1> QED BY <1>8, <1>9 DEF NextTarget

LEMMA InHandStep ==
    ASSUME MqttTypeOK, MqttIInv, MqttStep
    PROVE  InHand'
<1> USE DEF envVars, storeVars, frostVars, cycleVars, historyVars
<1>g. \A k \in Targets, t \in Times : Taken(k, t) => Taken(k, t)'
  BY TakenStays
<1>i. InHand /\ FreshCounters /\ TypeOK /\ ti \in Targets
  BY DEF MqttIInv, MqttTypeOK, TypeOK
<1>r. \A k \in 1..(ti - 1) : k \in Targets
  BY <1>i, ConstantsAssumption DEF Targets
<1>n. ASSUME pc' \notin {"probe", "post", "record"} PROVE InHand'
  BY <1>n DEF InHand
<1>l. ASSUME LeaveTo("idle") \/ LeaveTo("mark") PROVE InHand'
  BY <1>l DEF LeaveTo, InHand
<1>c. ASSUME NEW u, Cover(u) PROVE InHand'
  BY <1>c DEF Cover, InHand
<1>u. ASSUME UNCHANGED <<todo, ti, log>>,
             pc' = pc \/ (pc = "probe" /\ pc' = "post")
      PROVE  InHand'
  BY <1>u, <1>g, <1>i, <1>r DEF InHand, IsNext
<1>1. CASE ReadCursor \/ FetchAndFilter \/ ResolveTargets
  BY <1>1, <1>l, <1>n DEF ReadCursor, FetchAndFilter, ResolveTargets, Fail
<1>2. ASSUME NEW u \in Times, CheckLog(u) PROVE InHand'
  <2>1. CASE Cover(u)
    BY <2>1, <1>c
  <2>2. CASE Fail
    BY <2>2, <1>l DEF Fail
  <2>3. CASE u \notin log /\ pc' = "probe" /\ UNCHANGED <<todo, ti>>
    <3>1. ti' = 1 /\ log' = log
      BY <1>2, <2>3, <1>i DEF CheckLog, FreshCounters
    <3>2. \A t \in Times : IsNext(t)' => t = u
      BY <1>2, <2>3, <1>i, NextUnique DEF CheckLog, IsNext
    <3> QED BY <2>3, <3>1, <3>2 DEF InHand
  <2> QED BY <1>2, <2>1, <2>2, <2>3, Zenon DEF CheckLog
<1>3. ASSUME NEW u \in Times, Probe(u) PROVE InHand'
  <2>0. pc = "probe" /\ IsNext(u) /\ log' = log
    BY <1>3, Zenon DEF Probe
  <2>1. CASE Fail
    BY <2>1, <1>l DEF Fail
  <2>2. CASE NextTarget
    <3>1. Present(ti, u) \/ \E v \in {"rejected", "limited"} : verdict' = [verdict EXCEPT ![ti][u] = v]
      BY <1>3, <2>0, <2>2 DEF Probe, ObservationExists, PermanentAnswer, Fail, LeaveTo, NextTarget
    <3>2. PICK j \in Targets : j = ti
      BY <1>i
    <3>3. CASE Present(ti, u)
      <4>1. Taken(j, u)
        BY <3>2, <3>3 DEF Taken
      <4> QED BY <2>0, <2>2, <3>2, <4>1, <1>g, InHandGoesOn
    <3>4. ASSUME NEW v \in {"rejected", "limited"}, verdict' = [verdict EXCEPT ![ti][u] = v]
          PROVE  InHand'
      <4>1. verdict'[j][u] # "none"
        BY <3>2, <3>4, <1>i DEF TypeOK
      <4>2. Taken(j, u)'
        BY <4>1 DEF Taken
      <4> QED BY <2>0, <2>2, <3>2, <4>2, InHandGoesOn
    <3> QED BY <3>1, <3>3, <3>4
  <2>3. CASE pc' = "post" /\ UNCHANGED <<todo, ti>>
    BY <2>0, <2>3, <1>u
  <2> QED BY <1>3, <2>1, <2>2, <2>3, Zenon DEF Probe, PermanentAnswer
<1>4. ASSUME NEW u \in Times, Publication(u) PROVE InHand'
  <2>1. CASE LeaveTo("mark")
    BY <2>1, <1>l
  <2>2. CASE NextTarget /\ acked' = acked \cup {<<ti, u>>}
    <3>1. pc = "post" /\ IsNext(u) /\ log' = log
      BY <1>4, PublicationShape, Zenon
    <3>2. PICK j \in Targets : j = ti
      BY <1>i
    <3>3. Taken(j, u)'
      BY <2>2, <3>2 DEF Taken
    <3> QED BY <2>2, <3>1, <3>2, <3>3, InHandGoesOn
  <2> QED BY <1>4, <2>1, <2>2, PublicationShape, Zenon
<1>5. ASSUME NEW u \in Times, Drop(u) \/ Record(u) PROVE InHand'
  BY <1>5, <1>c, <1>l, Zenon DEF Drop, Record, Fail
<1>6. CASE AdvanceCursor \/ MarkPolled \/ Crash
  BY <1>6, <1>l, Zenon DEF AdvanceCursor, MarkPolled, Crash
<1>7. CASE (\E t \in Times, kind \in Kinds : Publish(t, kind)) \/ Tick \/ CalmDown \/ UNCHANGED vars
  BY <1>7, <1>u, Zenon DEF Publish, Tick, CalmDown, vars
<1>8. ASSUME NEW k \in Targets, NEW t \in Times, Deliver(k, t) \/ Lose(k, t)
      PROVE  InHand'
  BY <1>8, <1>u, Zenon DEF Deliver, Lose
<1> QED
  BY <1>1, <1>2, <1>3, <1>4, <1>5, <1>6, <1>7, <1>8, StepKinds, Zenon DEF PollStep, OverHttp

(* What a step adds to the messages ever sent.                             *)
LEMMA SentSteps ==
    ASSUME MqttTypeOK, MqttStep, NEW k \in Targets, NEW t \in Times, <<k, t>> \in Sent'
    PROVE  <<k, t>> \in Sent \/ (k = ti /\ Handed(t))
<1> USE DEF envVars, storeVars, frostVars, cycleVars, historyVars
<1>1. CASE <<k, t>> \in wire'
  <2>1. CASE wire' \subseteq wire
    BY <1>1, <2>1 DEF Sent
  <2>2. ASSUME NEW u \in Times, Handed(u), wire' = wire \cup {<<ti, u>>}
        PROVE  <<k, t>> \in Sent \/ (k = ti /\ Handed(t))
    <3>1. <<k, t>> \in wire \/ (k = ti /\ t = u)
      BY <1>1, <2>2
    <3> QED BY <2>2, <3>1 DEF Sent
  <2> QED BY <2>1, <2>2, WireSteps DEF WireStep
<1>2. CASE <<k, t>> \in lost'
  <2>1. ASSUME NEW j \in Targets, NEW u \in Times, Lose(j, u) PROVE <<k, t>> \in Sent
    BY <1>2, <2>1 DEF Lose, Sent
  <2>2. CASE lost' = lost
    BY <1>2, <2>2 DEF Sent
  <2>3. ASSUME NEW j \in Targets, NEW u \in Times, Deliver(j, u) PROVE lost' = lost
    BY <2>3, Zenon DEF Deliver
  <2>4. ASSUME NEW u \in Times, Publication(u) PROVE lost' = lost
    BY <2>4, PublicationShape, Zenon
  <2> QED BY <2>1, <2>2, <2>3, <2>4, StepKinds
<1>3. CASE copies'[k][t] > 0
  <2>1. CASE copies' = copies
    BY <1>3, <2>1 DEF Sent, Messages
  <2>2. ASSUME NEW j \in Targets, NEW u \in Times, Deliver(j, u) PROVE <<k, t>> \in Sent
    <3>1. CASE k = j /\ t = u
      BY <2>2, <3>1 DEF Deliver, Sent
    <3>2. CASE ~(k = j /\ t = u)
      <4>1. copies'[k][t] = copies[k][t]
        BY <2>2, <3>2 DEF Deliver, MqttTypeOK, TypeOK
      <4> QED BY <1>3, <4>1 DEF Sent, Messages
    <3> QED BY <3>1, <3>2
  <2>3. CASE PollStep
    <3>1. copies' = copies
      BY <2>3, Zenon
         DEF PollStep, OverHttp, ReadCursor, FetchAndFilter, ResolveTargets, CheckLog, Probe,
             Drop, Record, AdvanceCursor, MarkPolled, Crash, Publish, Tick, CalmDown, vars
    <3> QED BY <2>1, <3>1
  <2>4. ASSUME NEW u \in Times, Publication(u) \/ \E j \in Targets : Lose(j, u)
        PROVE  copies' = copies
    BY <2>4, PublicationShape, Zenon DEF Lose
  <2> QED BY <2>1, <2>2, <2>3, <2>4, StepKinds
<1>4. \A p \in Messages : p = <<k, t>> => p[1] = k /\ p[2] = t
  OBVIOUS
<1> QED BY <1>1, <1>2, <1>3, <1>4 DEF Sent

(* A reading that was in hand stays accounted for, whatever ends its turn. *)
LEMMA AccountedInHand ==
    ASSUME MqttTypeOK, MqttIInv, MqttStep, NEW k \in Targets, NEW t \in Times,
           <<k, t>> \in Sent', BehindTheLoop(k, t) \/ (k = ti /\ Handed(t))
    PROVE  t \in torn' \/ t \in log' \/ BehindTheLoop(k, t)'
<1> USE DEF envVars, storeVars, frostVars, cycleVars, historyVars
<1>t. TypeOK /\ ti \in Targets /\ NumTargets \in Nat /\ Targets = 1..NumTargets
  BY ConstantsAssumption DEF MqttTypeOK, TypeOK, Targets
<1>p. pc \in {"probe", "post", "record"} /\ IsNext(t)
  BY DEF BehindTheLoop, Handed
<1>d. ASSUME NEW u \in Times, IsNext(u) PROVE u = t
  BY <1>d, <1>p, <1>t, NextUnique
<1>e. CASE pc' \in {"mark", "idle"}
  <2>1. pc \in Writing
    BY <1>p DEF Writing
  <2>2. torn' = torn \cup Torn
    <3>1. ~UNCHANGED <<vars, mqttVars>>
      BY <1>e, <1>p DEF vars
    <3> QED BY <3>1 DEF MqttStep, MqttNext
  <2>3. t \in log' \/ t \in Torn
    BY <1>e, <1>p, <2>1 DEF Torn
  <2> QED BY <2>2, <2>3
<1>n. ASSUME NextTarget, wrote', BehindTheLoop(k, t) => pc # "record",
             pc \in {"probe", "post"}
      PROVE  BehindTheLoop(k, t)'
  <2>1. k <= ti /\ IsNext(t)'
    BY <1>n, <1>p, <1>t DEF BehindTheLoop, NextTarget, IsNext
  <2> QED BY <1>n, <1>t, <2>1 DEF NextTarget, BehindTheLoop
<1>u. ASSUME UNCHANGED <<todo, ti, wrote>>, BehindTheLoop(k, t),
             pc' = pc \/ (pc = "probe" /\ pc' = "post")
      PROVE  BehindTheLoop(k, t)'
  BY <1>u DEF BehindTheLoop, IsNext
<1>1. ASSUME NEW u \in Times, Publication(u)
      PROVE  t \in torn' \/ t \in log' \/ BehindTheLoop(k, t)'
  <2>1. CASE LeaveTo("mark")
    BY <2>1, <1>e DEF LeaveTo
  <2>2. CASE NextTarget /\ wrote' = TRUE
    <3>1. pc = "post"
      BY <1>1, PublicationShape, Zenon
    <3> QED BY <2>2, <3>1, <1>n
  <2> QED BY <1>1, <2>1, <2>2, PublicationShape, Zenon
<1>b. ASSUME ~\E u \in Times : Publication(u), pc' \notin {"mark", "idle"}
      PROVE  BehindTheLoop(k, t)
  BY <1>b, Zenon DEF Handed
<1>2. ASSUME NEW u \in Times, Probe(u), BehindTheLoop(k, t), pc' \notin {"mark", "idle"}
      PROVE  BehindTheLoop(k, t)'
  <2>1. pc = "probe" /\ wrote' = wrote /\ wrote
    BY <1>2, Zenon DEF Probe, PermanentAnswer, Fail, LeaveTo, BehindTheLoop
  <2>2. NextTarget \/ (pc' = "post" /\ UNCHANGED <<todo, ti>>)
    BY <1>2, Zenon DEF Probe, PermanentAnswer, Fail, LeaveTo
  <2>3. CASE NextTarget
    <3>1. wrote'
      BY <2>1, Zenon
    <3> QED BY <2>1, <2>3, <3>1, <1>n
  <2>4. CASE pc' = "post" /\ UNCHANGED <<todo, ti>>
    BY <1>2, <2>1, <2>4, <1>u
  <2> QED BY <2>2, <2>3, <2>4
<1>3. ASSUME NEW u \in Times, Drop(u), BehindTheLoop(k, t) PROVE FALSE
  BY <1>3, Zenon DEF Drop, NothingLanded, BehindTheLoop
<1>4. ASSUME NEW u \in Times, Record(u), pc' \notin {"mark", "idle"} PROVE t \in log'
  <2>1. u = t
    BY <1>4, <1>d, Zenon DEF Record
  <2>2. CommitRow(u)
    BY <1>4, Zenon DEF Record, Fail, LeaveTo
  <2> QED BY <2>1, <2>2 DEF CommitRow
<1>5. CASE \/ ReadCursor \/ FetchAndFilter \/ ResolveTargets \/ AdvanceCursor \/ MarkPolled
           \/ \E u \in Times : CheckLog(u)
  BY <1>5, <1>p DEF ReadCursor, FetchAndFilter, ResolveTargets, AdvanceCursor, MarkPolled, CheckLog
<1>6. CASE Crash
  BY <1>6, <1>e DEF Crash, LeaveTo
<1>7. ASSUME UNCHANGED cycleVars, BehindTheLoop(k, t) PROVE BehindTheLoop(k, t)'
  BY <1>7, <1>u
<1>8. CASE \/ (\E u \in Times, kind \in Kinds : Publish(u, kind)) \/ Tick \/ CalmDown \/ UNCHANGED vars
           \/ \E j \in Targets, u \in Times : Deliver(j, u) \/ Lose(j, u)
  <2>1. UNCHANGED cycleVars
    BY <1>8, Zenon DEF Publish, Tick, CalmDown, vars, Deliver, Lose
  <2>2. BehindTheLoop(k, t) \/ \E u \in Times : Publication(u)
    <3>1. pc' \notin {"mark", "idle"}
      BY <1>p, <2>1
    <3> QED BY <3>1, <1>b
  <2> QED BY <2>1, <2>2, <1>1, <1>7
<1> QED
  BY <1>e, <1>1, <1>b, <1>2, <1>3, <1>4, <1>5, <1>6, <1>8, StepKinds, Zenon
     DEF PollStep, OverHttp

(* The history of torn writes and the write log only grow.                 *)
LEMMA HistoryGrows ==
    ASSUME MqttTypeOK, MqttStep
    PROVE  torn \subseteq torn' /\ log \subseteq log'
<1>1. torn \subseteq torn'
  BY DEF MqttStep, MqttNext, mqttVars
<1>2. log \subseteq log'
  BY MqttLogSteps
<1> QED BY <1>1, <1>2

LEMMA AccountedStep ==
    ASSUME MqttTypeOK, MqttIInv, MqttStep
    PROVE  SentIsAccounted'
<1> SUFFICES ASSUME NEW k \in Targets, NEW t \in Times, <<k, t>> \in Sent'
             PROVE  t \in torn' \/ t \in log' \/ BehindTheLoop(k, t)'
  BY DEF SentIsAccounted
<1>1. CASE BehindTheLoop(k, t) \/ (k = ti /\ Handed(t))
  BY <1>1, AccountedInHand
<1>2. CASE t \in torn \/ t \in log
  BY <1>2, HistoryGrows
<1> QED BY <1>1, <1>2, SentSteps DEF MqttIInv, SentIsAccounted

LEMMA MqttInvStep == MqttTypeOK /\ MqttIInv /\ MqttStep => MqttIInv'
  BY InheritedStep, AcknowledgedStep, UntakenStep, LogTakenStep, InHandStep,
     AccountedStep DEF MqttIInv

-----------------------------------------------------------------------------
(* The theorems.                                                           *)

(* Every part of the MQTT invariant always holds: what is owed is queued   *)
(* until the cursor moves, and whatever has been published is in the write *)
(* log, was cut off before it got there, or is the reading in hand.        *)
THEOREM MqttInductiveInvariant == MqttSpec => [](MqttTypeOK /\ MqttIInv)
<1>1. MqttInit => MqttTypeOK /\ MqttIInv
  BY MqttTypeInit, MqttInitIInv
<1>2. MqttTypeOK /\ MqttIInv /\ [MqttNext]_<<vars, mqttVars>> => (MqttTypeOK /\ MqttIInv)'
  BY MqttTypeStep, MqttInvStep DEF MqttStep
<1> QED BY <1>1, <1>2, PTL DEF MqttSpec

(* Below the cursor lies no reading that a target neither holds, has       *)
(* refused, nor whose broker has not acknowledged it: a publish that timed *)
(* out keeps the cursor back, however often it is tried.                   *)
THEOREM CursorRuleOverMqtt == MqttSpec => []AcknowledgedBelowCursor
<1>1. MqttIInv => AcknowledgedBelowCursor
  BY DEF MqttIInv
<1> QED BY <1>1, MqttInductiveInvariant, PTL

(* A reading is handed to a broker a second time only when an earlier      *)
(* write of it was cut off before its row reached the write log, however   *)
(* late the broker delivers.                                               *)
THEOREM ResendsAreExplained == MqttSpec => []ResendNeedsATornWrite
<1>1. MqttTypeOK /\ MqttIInv => ResendNeedsATornWrite
  <2> SUFFICES ASSUME MqttTypeOK, MqttIInv, NEW t \in Times,
                      pc = "post", IsNext(t), <<ti, t>> \in Sent
               PROVE  t \in torn
    BY DEF ResendNeedsATornWrite
  <2>1. PICK k \in Targets : k = ti
    BY DEF MqttTypeOK, TypeOK
  <2>2. t \in torn \/ t \in log \/ BehindTheLoop(k, t)
    BY <2>1 DEF MqttIInv, SentIsAccounted
  <2>3. t \notin log
    BY DEF MqttIInv, InHand
  <2>4. ~BehindTheLoop(k, t)
    BY <2>1 DEF BehindTheLoop, MqttTypeOK, TypeOK, Targets
  <2> QED BY <2>2, <2>3, <2>4
<1> QED BY <1>1, MqttInductiveInvariant, PTL

-----------------------------------------------------------------------------
(* Freshness and the clock, as over HTTP.                                  *)

(* last_written_at is the newest row of the write log over MQTT too.       *)
THEOREM FreshnessIsExactOverMqtt == MqttSpec => []FreshnessTracksLog
<1>1. MqttInit => FreshnessTracksLog
  BY DEF MqttInit, FreshnessTracksLog
<1>2. MqttTypeOK /\ FreshnessTracksLog /\ [MqttNext]_<<vars, mqttVars>> => FreshnessTracksLog'
  <2> SUFFICES ASSUME MqttTypeOK, FreshnessTracksLog, MqttStep PROVE FreshnessTracksLog'
    BY DEF MqttStep
  <2> USE DEF envVars, storeVars, frostVars, cycleVars, historyVars
  <2>1. CASE PollStep
    BY <2>1, PollStepIsNext, FreshnessStep DEF MqttTypeOK
  <2>2. ASSUME NEW t \in Times, Publication(t) PROVE FreshnessTracksLog'
    <3>1. UNCHANGED <<log, lastWritten>>
      BY <2>2, PublicationShape, Zenon
    <3> QED BY <3>1 DEF FreshnessTracksLog
  <2>3. ASSUME NEW k \in Targets, NEW t \in Times, Deliver(k, t) \/ Lose(k, t)
        PROVE  FreshnessTracksLog'
    <3>1. UNCHANGED <<log, lastWritten>>
      BY <2>3, Zenon DEF Deliver, Lose
    <3> QED BY <3>1 DEF FreshnessTracksLog
  <2> QED BY <2>1, <2>2, <2>3, StepKinds
<1> QED BY <1>1, <1>2, MqttInductiveInvariant, PTL DEF MqttSpec

(* Nor does a forecast move the cursor past the clock.                     *)
THEOREM CursorInThePastOverMqtt == MqttSpec => []CursorNotAhead
<1>1. MqttIInv => CursorNotAhead
  BY DEF MqttIInv, NothingFromTheFuture, CursorNotAhead
<1> QED BY <1>1, MqttInductiveInvariant, PTL

-----------------------------------------------------------------------------
(* The refinement over MQTT.                                               *)

(* What a step leaves alone, seen from the ledger.                         *)
LEMMA MqttLedgerStutter ==
    ASSUME UNCHANGED <<seen, forgone, cursor>>,
           \A t \in seen : DealtWith(t)' <=> DealtWith(t)
    PROVE  UNCHANGED MqttLedger!ledgerVars
  BY DEF MqttLedger!ledgerVars

(* A step that can only change what is taken of one reading.               *)
LEMMA MqttLedgerSettle ==
    ASSUME NEW u \in Times, UNCHANGED <<seen, forgone, cursor>>,
           DealtWith(u) => DealtWith(u)',
           \A t \in seen : t # u => (DealtWith(t)' <=> DealtWith(t))
    PROVE  [MqttLedger!Next]_MqttLedger!ledgerVars
<1> DEFINE owed == {t \in seen \ forgone : ~DealtWith(t)}
           done == {t \in seen : DealtWith(t)}
<1>1. CASE u \in seen /\ DealtWith(u)'
  <2>1. owed' = owed \ {u} /\ done' = done \cup {u}
    BY <1>1
  <2> QED BY <2>1 DEF MqttLedger!Next, MqttLedger!Settle
<1>2. CASE ~(u \in seen /\ DealtWith(u)')
  <2>1. \A t \in seen : DealtWith(t)' <=> DealtWith(t)
    BY <1>2
  <2> QED BY <2>1, MqttLedgerStutter
<1> QED BY <1>1, <1>2

LEMMA MqttLedgerStep ==
    MqttTypeOK /\ MqttIInv /\ MqttStep => [MqttLedger!Next]_MqttLedger!ledgerVars
<1> SUFFICES ASSUME MqttTypeOK, MqttIInv, MqttStep
             PROVE  [MqttLedger!Next]_MqttLedger!ledgerVars
  OBVIOUS
<1> USE DEF envVars, storeVars, frostVars, cycleVars, historyVars
<1> DEFINE owed == {t \in seen \ forgone : ~DealtWith(t)}
           done == {t \in seen : DealtWith(t)}
           Goal == [MqttLedger!Next]_MqttLedger!ledgerVars
<1>g. \A t \in Times : DealtWith(t) => DealtWith(t)'
  BY DealtWithStays
<1>t. /\ seen \in SUBSET Times /\ forgone \in SUBSET Times /\ cursor \in 0..MaxTime
      /\ ti \in Targets
  BY DEF MqttTypeOK, TypeOK
<1>e. ASSUME UNCHANGED <<reading, copies, orphan, verdict, acked>>
      PROVE  \A t \in Times : DealtWith(t)' <=> DealtWith(t)
  BY <1>e DEF DealtWith, Taken, Present
<1>s. ASSUME UNCHANGED <<reading, copies, orphan, verdict, acked, seen, forgone, cursor>>
      PROVE  Goal
  BY <1>s, <1>e, <1>t, MqttLedgerStutter
<1>1. CASE FetchAndFilter /\ UNCHANGED acked
  <2>1. UNCHANGED <<reading, copies, orphan, verdict, acked, cursor>>
    BY <1>1, Zenon DEF FetchAndFilter
  <2>2. CASE UNCHANGED historyVars
    BY <2>1, <2>2, <1>s
  <2>3. CASE ~UNCHANGED historyVars
    <3>1. seen' = seen \cup OnOffer /\ forgone \subseteq forgone'
      BY <1>1, <2>3 DEF FetchAndFilter
    <3>2. seen' \in SUBSET Times /\ forgone' \in SUBSET Times
      BY MqttTypeStep DEF MqttTypeOK, TypeOK
    <3>3. \A t \in Times : DealtWith(t)' <=> DealtWith(t)
      BY <2>1, <1>e
    <3>4. owed' \in SUBSET Times /\ done' \in SUBSET Times
      BY <3>2
    <3>5. done' \cap owed = {} /\ done' = done \cup done'
      BY <1>t, <3>1, <3>2, <3>3
    <3>6. forgone' = forgone \cup forgone'
      BY <3>1
    <3>7. owed' = (owed \cup owed') \ forgone'
      BY <1>t, <3>1, <3>2, <3>3
    <3> HIDE DEF owed, done
    <3>8. MqttLedger!Fetch
      BY <2>1, <3>2, <3>4, <3>5, <3>6, <3>7 DEF MqttLedger!Fetch, owed, done
    <3> QED BY <3>8 DEF MqttLedger!Next
  <2> QED BY <2>2, <2>3
<1>2. CASE AdvanceCursor /\ UNCHANGED acked
  <2>1. UNCHANGED <<reading, copies, orphan, verdict, acked, seen, forgone>>
    BY <1>2, Zenon DEF AdvanceCursor
  <2>2. CASE cursor' = cursor
    BY <2>1, <2>2, <1>s
  <2>3. CASE cursor' # cursor
    <3>1. cursor' \in Times /\ cursor' > cursor
      BY <1>2, <2>3, <1>t DEF AdvanceCursor, MqttTypeOK, TypeOK, Times
    <3>2. owed = {}
      BY <1>2 DEF AdvanceCursor, MqttIInv, UntakenIsQueued
    <3>3. owed' = owed /\ done' = done
      BY <2>1, <1>e, <1>t
    <3> QED BY <2>1, <3>1, <3>2, <3>3 DEF MqttLedger!Next, MqttLedger!Advance
  <2> QED BY <2>2, <2>3
<1>3. CASE (ReadCursor \/ ResolveTargets \/ MarkPolled) /\ UNCHANGED acked
  BY <1>3, <1>s, Zenon DEF ReadCursor, ResolveTargets, MarkPolled
<1>4. ASSUME NEW u \in Times, CheckLog(u) \/ Drop(u) \/ Record(u), UNCHANGED acked
      PROVE  Goal
  BY <1>4, <1>s, Zenon DEF CheckLog, Drop, Record
<1>o. ASSUME NEW u \in Times, UNCHANGED <<reading, seen, forgone, cursor>>,
             \A k \in Targets, t \in Times : t # u => (Taken(k, t)' <=> Taken(k, t))
      PROVE  Goal
  <2>1. \A t \in seen : t # u => (DealtWith(t)' <=> DealtWith(t))
    BY <1>o, <1>t DEF DealtWith
  <2> QED BY <1>o, <1>g, <2>1, MqttLedgerSettle
<1>5. ASSUME NEW u \in Times, Probe(u), UNCHANGED acked PROVE Goal
  <2>1. /\ UNCHANGED <<reading, copies, orphan, acked, seen, forgone, cursor>>
        /\ PermanentAnswer(u) \/ UNCHANGED verdict
    BY <1>5, Zenon DEF Probe
  <2>2. \A k \in Targets, t \in Times : t # u => verdict'[k][t] = verdict[k][t]
    <3>1. CASE PermanentAnswer(u)
      <4>1. PICK v : verdict' = [verdict EXCEPT ![ti][u] = v]
        BY <3>1, Zenon DEF PermanentAnswer
      <4> QED BY <1>t, <4>1 DEF MqttTypeOK, TypeOK
    <3> QED BY <2>1, <3>1
  <2>3. \A k \in Targets, t \in Times : t # u => (Taken(k, t)' <=> Taken(k, t))
    BY <2>1, <2>2 DEF Taken, Present
  <2> QED BY <2>1, <2>3, <1>o
<1>6. ASSUME NEW u \in Times, Publication(u) PROVE Goal
  <2>1. /\ UNCHANGED <<reading, copies, orphan, verdict, seen, forgone, cursor>>
        /\ acked' = acked \/ acked' = acked \cup {<<ti, u>>}
    BY <1>6, PublicationShape, Zenon
  <2>2. \A k \in Targets, t \in Times : t # u => (<<k, t>> \in acked' <=> <<k, t>> \in acked)
    BY <2>1
  <2>3. \A k \in Targets, t \in Times : t # u => (Taken(k, t)' <=> Taken(k, t))
    BY <2>1, <2>2 DEF Taken, Present
  <2> QED BY <2>1, <2>3, <1>o
<1>7. CASE Crash /\ UNCHANGED acked
  <2>1. UNCHANGED <<reading, copies, verdict, acked, seen, forgone, cursor>>
    BY <1>7, Zenon DEF Crash
  <2>2. ASSUME NEW u \in Times, orphan[ti][u] = "none",
               orphan' = [orphan EXCEPT ![ti][u] = "wire"]
        PROVE  Goal
    <3>1. \A k \in Targets, t \in Times : Present(k, t)' <=> Present(k, t)
      BY <2>1, <2>2, <1>t DEF Present, MqttTypeOK, TypeOK
    <3>2. \A k \in Targets, t \in Times : Taken(k, t)' <=> Taken(k, t)
      BY <2>1, <3>1 DEF Taken
    <3> QED BY <2>1, <3>2, <1>o
  <2> QED BY <1>7, <1>s, <2>1, <2>2, Zenon DEF Crash
<1>8. ASSUME NEW j \in Targets, NEW u \in Times, Deliver(j, u) PROVE Goal
  <2>1. /\ UNCHANGED <<reading, orphan, verdict, acked, seen, forgone, cursor>>
        /\ copies' = [copies EXCEPT ![j][u] = IF @ < MaxCopies THEN @ + 1 ELSE @]
    BY <1>8, Zenon DEF Deliver
  <2>2. \A k \in Targets, t \in Times : t # u => copies'[k][t] = copies[k][t]
    BY <2>1 DEF MqttTypeOK, TypeOK
  <2>3. \A k \in Targets, t \in Times : t # u => (Taken(k, t)' <=> Taken(k, t))
    BY <2>1, <2>2 DEF Taken, Present
  <2> QED BY <2>1, <2>3, <1>o
<1>9. ASSUME NEW j \in Targets, NEW u \in Times, Lose(j, u) PROVE Goal
  BY <1>9, <1>s, Zenon DEF Lose
<1>10. CASE (Tick \/ CalmDown \/ UNCHANGED vars) /\ UNCHANGED acked
  BY <1>10, <1>s, Zenon DEF Tick, CalmDown, vars
<1>11. ASSUME NEW u \in Times, NEW kind \in Kinds, Publish(u, kind), UNCHANGED acked
       PROVE  Goal
  <2>1. UNCHANGED <<copies, orphan, verdict, acked, seen, forgone, cursor>>
    BY <1>11, Zenon DEF Publish
  <2>2. \A t \in seen : reading'[t] = reading[t]
    BY <1>t, RowsStay DEF MqttIInv, NothingFromTheFuture
  <2>3. \A t \in seen : DealtWith(t)' <=> DealtWith(t)
    BY <2>1, <2>2 DEF DealtWith, Taken, Present
  <2> QED BY <2>1, <2>3, MqttLedgerStutter
<1> HIDE DEF Goal
<1> QED
  BY <1>1, <1>2, <1>3, <1>4, <1>5, <1>6, <1>7, <1>8, <1>9, <1>10, <1>11, StepKinds, Zenon
     DEF PollStep, OverHttp, Goal

(* Over MQTT the pipeline makes the ledger's promise about what the layer  *)
(* can know: a reading it took on is owed until every target has taken it  *)
(* or a fetch leaves it behind, and the cursor never passes one that is.   *)
THEOREM RefinementOverMqtt == MqttSpec => ImplementsLedgerOverMqtt
<1>1. MqttInit => MqttLedger!Init
  BY Zenon DEF MqttInit, MqttLedger!Init
<1>2. MqttTypeOK /\ MqttIInv /\ [MqttNext]_<<vars, mqttVars>>
        => [MqttLedger!Next]_MqttLedger!ledgerVars
  BY MqttLedgerStep DEF MqttStep
<1> QED
  BY <1>1, <1>2, MqttInductiveInvariant, PTL DEF MqttSpec, ImplementsLedgerOverMqtt, MqttLedger!Spec
=============================================================================
