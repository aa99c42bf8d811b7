----------------------------- MODULE MqttIngest ------------------------------
(***************************************************************************)
(* The poll stream of PollIngest with Observations written over MQTT.  The *)
(* cycle, the probe and the entity chain stay on HTTP; only the create is  *)
(* published (writer.go, MQTTPublisher.PublishObservation).  What changes  *)
(* is what the layer knows afterwards: an acknowledged publish says that   *)
(* the broker has the message, FROST stores it later, twice (QoS 1) or     *)
(* never, and until it has done so the probe finds nothing.                *)
(***************************************************************************)
EXTENDS PollIngest

CONSTANTS
    MaxCopies,  \* bound: copies of a reading counted per target
    MaxLost     \* bound: publishes dropped on their way

ASSUME MqttBoundsAssumption == MaxCopies \in Nat \ {0} /\ MaxLost \in Nat

VARIABLES
    wire,    \* publishes the client or the broker still holds
    acked,   \* publishes whose token completed without an error
    \* history
    lost,    \* publishes that were dropped before FROST stored them
    torn     \* readings published by a write that ended without its log row

Messages == Targets \X Times
mqttVars == <<wire, acked, lost, torn>>

(* The stream has been polled and linked before (those two rows are         *)
(* PollIngest's), and has no cursor yet.                                   *)
MqttInit ==
    /\ reading = [t \in Times |-> "none"]
    /\ now = 1 /\ calm = FALSE
    /\ cursor = 0 /\ polled = TRUE /\ linked = TRUE
    /\ log = {} /\ lastWritten = 0
    /\ copies = [k \in Targets |-> [t \in Times |-> 0]]
    /\ orphan = [k \in Targets |-> [t \in Times |-> "none"]]
    /\ verdict = [k \in Targets |-> [t \in Times |-> "none"]]
    /\ pc = "idle" /\ since = 0 /\ todo = {} /\ covered = 0
    /\ ti = 1 /\ wrote = FALSE /\ permanent = FALSE
    /\ seen = {} /\ forgone = {}
    /\ wire = {} /\ acked = {} /\ lost = {} /\ torn = {}

-----------------------------------------------------------------------------
(* The message for target k leaves PublishObservation: client.Publish.     *)
Hand(k, t) == wire' = wire \cup {<<k, t>>}

Acknowledged ==
    /\ wrote' = TRUE
    /\ NextTarget
    /\ UNCHANGED permanent

SlipUnconfirmed == ~calm /\ Acknowledged

(* Not connected, timed out or a broker error: transient, so the stream    *)
(* stops and its cursor stays.                                             *)
Unconfirmed == Fail

(* PublishObservation in the place of the POST: the token completes, or    *)
(* fails with the message gone out all the same, or nothing was sent.  Its *)
(* permanent error, a payload that does not marshal, is left out: every    *)
(* value in a payload has been decoded from JSON.                          *)
Publication(t) ==
    /\ pc = "post" /\ IsNext(t)
    /\ \/ /\ Hand(ti, t) /\ Acknowledged
          /\ acked' = acked \cup {<<ti, t>>}
       \/ Hand(ti, t) /\ Unconfirmed /\ UNCHANGED acked
       \/ Unconfirmed /\ UNCHANGED <<wire, acked>>
    /\ UNCHANGED <<lost, envVars, storeVars, frostVars, historyVars>>

(* Every other call of the cycle is PollIngest's.                          *)
OverHttp ==
    \/ ReadCursor \/ FetchAndFilter \/ ResolveTargets
    \/ \E t \in Times : CheckLog(t) \/ Probe(t) \/ Drop(t) \/ Record(t)
    \/ AdvanceCursor \/ MarkPolled

MqttCycle ==
    \/ OverHttp /\ UNCHANGED <<wire, acked, lost>>
    \/ \E t \in Times : Publication(t)

(* The process dies; a publish it was about to make may have gone out.     *)
MqttCrash ==
    /\ Crash
    /\ \/ UNCHANGED wire
       \/ pc = "post" /\ \E t \in Times : IsNext(t) /\ Hand(ti, t)
    /\ UNCHANGED <<acked, lost>>

(* The broker hands the message to FROST, which stores one more copy; at   *)
(* QoS 1 the same message may come again.                                  *)
Deliver(k, t) ==
    /\ <<k, t>> \in wire
    /\ wire' \in {wire, wire \ {<<k, t>>}}
    /\ copies' = [copies EXCEPT ![k][t] = IF @ < MaxCopies THEN @ + 1 ELSE @]
    /\ UNCHANGED <<acked, lost, envVars, storeVars, orphan, verdict,
                   cycleVars, historyVars>>

(* The message is dropped: by the client's death or Disconnect, by the     *)
(* broker, or by FROST refusing it, which nobody is told of.               *)
Lose(k, t) ==
    /\ ~calm /\ <<k, t>> \in wire
    /\ Cardinality(lost \cup {<<k, t>>}) <= MaxLost
    /\ wire' = wire \ {<<k, t>>}
    /\ lost' = lost \cup {<<k, t>>}
    /\ UNCHANGED <<acked, envVars, storeVars, frostVars, cycleVars, historyVars>>

Broker == \E k \in Targets, t \in Times : Deliver(k, t) \/ Lose(k, t)

(* The vendor and the clock are PollIngest's.                              *)
MqttEnvironment ==
    \/ MqttCrash \/ Broker
    \/ /\ (\E t \in Times, kind \in Kinds : Publish(t, kind)) \/ Tick \/ CalmDown
       /\ UNCHANGED <<wire, acked, lost>>

Sent == wire \cup lost \cup {p \in Messages : copies[p[1]][p[2]] > 0}

(* The reading in hand, when its write ends before its log row although it *)
(* has been published.                                                     *)
Torn ==
    {t \in Times : /\ pc \in Writing /\ pc' \in {"mark", "idle"}
                   /\ IsNext(t) /\ t \notin log'
                   /\ \E k \in Targets : <<k, t>> \in Sent'}

MqttNext == (MqttCycle \/ MqttEnvironment) /\ torn' = torn \cup Torn

MqttSpec == MqttInit /\ [][MqttNext]_<<vars, mqttVars>>

(* As in PollIngest, and the broker passes on what it holds.               *)
MqttFairSpec ==
    /\ MqttSpec
    /\ WF_<<vars, mqttVars>>(MqttCycle /\ torn' = torn \cup Torn)
    /\ WF_<<vars, mqttVars>>(Tick /\ UNCHANGED mqttVars)
    /\ WF_<<vars, mqttVars>>(Broker /\ UNCHANGED torn)

-----------------------------------------------------------------------------
(* Target k owes the reading nothing, as far as the layer can know.        *)
Taken(k, t) == Present(k, t) \/ verdict[k][t] # "none" \/ <<k, t>> \in acked

(* Nothing is owed for t any more: it was unusable or every target took it. *)
DealtWith(t) == reading[t] \in {"invalid", "low"} \/ \A k \in Targets : Taken(k, t)

(* The cursor rule as far as it holds over MQTT: what lies below the       *)
(* cursor is settled or was acknowledged by the broker of every target.  A *)
(* publish that timed out is never taken for a write (mqtt.go:165-170).    *)
AcknowledgedBelowCursor ==
    \A t \in seen \ forgone : t <= cursor => DealtWith(t)

(* The probe is blind until FROST has stored the message, so the write log *)
(* alone keeps a replay from publishing again: only a reading whose write  *)
(* was cut off before its log row (a failure on a later target, a crash, a *)
(* timeout, a failed commit) is ever published twice (writer.go:193-197).  *)
ResendNeedsATornWrite ==
    \A t \in Times :
        (pc = "post" /\ IsNext(t) /\ <<ti, t>> \in Sent) => t \in torn

(* As far as the layer can see to it, every target has been reached.       *)
Reached(t) ==
    \/ reading[t] \in {"invalid", "low"}
    \/ \A k \in Targets :
          Present(k, t) \/ verdict[k][t] # "none" \/ <<k, t>> \in lost

(* Once failures have stopped, every reading that is due reaches every     *)
(* target, unless a fetch left it behind or a message for that target was  *)
(* dropped: that is where the acknowledgement is not enough.               *)
BacklogReachesFrost ==
    \A t \in Times : (calm /\ Due(t)) ~> (Reached(t) \/ t \in forgone)

-----------------------------------------------------------------------------
(* The inductive strengthening of the two safety properties; with          *)
(* PollIngest's NothingFromTheFuture, FreshCounters and WindowAboveCursor. *)

MqttTypeOK ==
    /\ TypeOK
    /\ wire \subseteq Messages /\ acked \subseteq Messages /\ lost \subseteq Messages
    /\ torn \subseteq Times

(* Between the fetch and the cursor update, what is owed is still queued.  *)
UntakenIsQueued ==
    /\ pc \in Writing \cup {"resolve", "advance"} =>
          \A t \in seen \ forgone : t \in todo \/ DealtWith(t)
    /\ pc = "advance" => todo = {}

LogRowsAreTaken == \A t \in log, k \in Targets : Taken(k, t)

(* What writeObservation has established about the reading in hand: no row *)
(* in the log, and the targets before the current one are done.            *)
InHand ==
    \A t \in Times : IsNext(t) =>
        /\ pc \in {"probe", "post", "record"} => t \notin log
        /\ pc \in {"probe", "post"} => \A k \in 1..(ti - 1) : Taken(k, t)
        /\ pc = "record" => \A k \in Targets : Taken(k, t)

(* The loop of writeObservation has been through target k for t, and at    *)
(* least one publish was acknowledged.                                     *)
BehindTheLoop(k, t) ==
    /\ IsNext(t) /\ wrote
    /\ pc = "record" \/ (pc \in {"probe", "post"} /\ k < ti)

(* Whatever has been published is in the log, was cut off before it got    *)
(* there, or is the reading in hand.                                       *)
SentIsAccounted ==
    \A k \in Targets, t \in Times : <<k, t>> \in Sent =>
        t \in torn \/ t \in log \/ BehindTheLoop(k, t)

MqttIInv ==
    /\ NothingFromTheFuture /\ FreshCounters /\ WindowAboveCursor
    /\ AcknowledgedBelowCursor /\ UntakenIsQueued
    /\ LogRowsAreTaken /\ InHand /\ SentIsAccounted

-----------------------------------------------------------------------------
(* The MQTT path implements the ledger too, with "taken" in the place of   *)
(* "settled": what the layer promises is the same, what it knows when it   *)
(* keeps the promise is less (an acknowledgement instead of a stored row). *)

MqttLedger == INSTANCE DeliveryLedger WITH
    Readings <- Times,
    owed <- {t \in seen \ forgone : ~DealtWith(t)},
    done <- {t \in seen : DealtWith(t)},
    behind <- forgone, mark <- cursor

ImplementsLedgerOverMqtt == MqttLedger!Spec
=============================================================================
