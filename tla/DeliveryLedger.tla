--------------------------- MODULE DeliveryLedger ---------------------------
(***************************************************************************)
(* What the poll pipeline promises about one vendor stream, with every     *)
(* mechanism left out.  The ledger knows which readings the layer has      *)
(* taken on and still has to deal with (owed), which of those it has seen  *)
(* are dealt with (done), which ones a fetch left behind (behind), and the *)
(* watermark below which it will never look again (mark).  The promise is  *)
(* that an owed reading only ever leaves `owed` by being dealt with, one   *)
(* at a time, or by being left behind, and that the watermark never passes *)
(* a reading that is owed.                                                 *)
(***************************************************************************)
EXTENDS Naturals

CONSTANT Readings  \* the phenomenon times a reading can have

VARIABLES owed, done, behind, mark

ledgerVars == <<owed, done, behind, mark>>

Init == owed = {} /\ done = {} /\ behind = {} /\ mark = 0

(* A fetch: some readings are taken on, some turn out to need nothing      *)
(* (unusable values, or readings that landed earlier), and some fall out   *)
(* of the window the fetch covered.                                        *)
Fetch ==
    \E taken, idle, left \in SUBSET Readings :
        /\ idle \cap owed = {}
        /\ done' = done \cup idle
        /\ behind' = behind \cup left
        /\ owed' = (owed \cup taken) \ left
        /\ UNCHANGED mark

(* One reading is dealt with, whether or not it was still owed.            *)
Settle ==
    \E t \in Readings :
        /\ owed' = owed \ {t}
        /\ done' = done \cup {t}
        /\ UNCHANGED <<behind, mark>>

Advance ==
    \E w \in Readings :
        /\ w > mark
        /\ \A t \in owed : t > w
        /\ mark' = w
        /\ UNCHANGED <<owed, done, behind>>

Next == Fetch \/ Settle \/ Advance

Spec == Init /\ [][Next]_ledgerVars
=============================================================================
