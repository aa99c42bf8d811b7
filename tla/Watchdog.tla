------------------------------ MODULE Watchdog ------------------------------
(***************************************************************************)
(* The freshness watchdog (F5, ADR-008): watchdog.Run and tick with their  *)
(* four calls (staleness snapshot, state read, state write, webhook), the  *)
(* state machine of step, and the row watchdog_state, over the streams     *)
(* whose staleness PGStore.GetStalenessSnapshot counts.                    *)
(*                                                                         *)
(* The process can die between any two calls, and a new process ticks at   *)
(* once.  Time is counted in units of which Interval make one              *)
(* CheckInterval.                                                          *)
(***************************************************************************)
EXTENDS Naturals

CONSTANTS
    MaxStreams,  \* bound: streams that have been polled at least once
    Percent,     \* the divisor of the alert threshold (100 in the code)
    Interval     \* time units in a CheckInterval

ASSUME WatchdogAssumption ==
    MaxStreams \in Nat /\ Percent \in Nat \ {0} /\ Interval \in Nat \ {0}

VARIABLES
    \* the datastream rows
    total,      \* streams with a last_polled_at
    stale,      \* of those, never written or past their threshold
    calm,       \* calls no longer fail, processes no longer die
    \* the watchdog_state row
    status,     \* current_status
    age,        \* time since since_ts, up to 2 * Interval
    \* the watchdog goroutine
    pc,
    wait,       \* time until the ticker fires
    snap,       \* the snapshot of the current tick
    transition, \* the alert the current tick has to fire, or "none"
    \* what the receiver of the alerts knows
    heard,      \* the last alert delivered ("recovered" before any)
    \* history
    streak,     \* snapshots over the threshold since a fresh tick ran to its
                \* end, counted up to 2
    restarted,  \* the process has died since the last commit
    entries     \* committed entries to "stale" with no alert attempted yet

rowVars == <<total, stale>>
stateRow == <<status, age>>
tickVars == <<pc, wait, snap, transition>>
historyVars == <<streak, restarted, entries>>
vars == <<rowVars, calm, stateRow, tickVars, heard, historyVars>>

NoSnap == [total |-> 0, stale |-> 0]

Init ==
    /\ total = 0 /\ stale = 0 /\ calm = FALSE
    /\ status = "ok" /\ age = 0
    /\ pc = "sleep" /\ wait = 0 /\ snap = NoSnap /\ transition = "none"
    /\ heard = "recovered"
    /\ streak = 0 /\ restarted = FALSE /\ entries = 0

-----------------------------------------------------------------------------
(* "Slip*" operators are plausible slips of the definition that follows    *)
(* them; no specification uses them.                                       *)

SlipOver(s) == s.stale >= (IF s.total \div Percent < 1 THEN 1 ELSE s.total \div Percent)

(* isStale: more than max(1, 1%) of the counted streams are stale.         *)
Over(s) == s.stale > (IF s.total \div Percent < 1 THEN 1 ELSE s.total \div Percent)

SlipStepEager(cur, staleNow) ==
    CASE cur \in {"ok", "stale_pending"} -> IF staleNow THEN <<"stale", "stale">> ELSE <<"ok", "none">>
      [] cur = "stale" -> IF staleNow THEN <<"stale", "none">> ELSE <<"ok", "recovered">>

SlipStepSpam(cur, staleNow) ==
    CASE cur = "ok"            -> <<IF staleNow THEN "stale_pending" ELSE "ok", "none">>
      [] cur = "stale_pending" -> IF staleNow THEN <<"stale", "stale">> ELSE <<"ok", "none">>
      [] cur = "stale"         -> IF staleNow THEN <<"stale", "stale">> ELSE <<"ok", "recovered">>

SlipStepName(cur, staleNow) ==
    CASE cur = "ok"            -> <<IF staleNow THEN "stale_pending" ELSE "ok", "none">>
      [] cur = "stale_pending" -> IF staleNow THEN <<"stale", "stale">> ELSE <<"ok", "none">>
      [] OTHER                 -> IF staleNow THEN <<cur, "none">> ELSE <<"recovered", "recovered">>

(* step: the next status and the alert to fire.                            *)
Step(cur, staleNow) ==
    CASE cur = "ok"            -> <<IF staleNow THEN "stale_pending" ELSE "ok", "none">>
      [] cur = "stale_pending" -> IF staleNow THEN <<"stale", "stale">> ELSE <<"ok", "none">>
      [] cur = "stale"         -> IF staleNow THEN <<"stale", "none">> ELSE <<"ok", "recovered">>

(* The tick is over, one way or the other.                                 *)
EndTick == pc' = "sleep" /\ snap' = NoSnap /\ transition' = "none"

GiveUp == ~calm /\ EndTick

SlipNextTick == Interval - 1

(* The period of the ticker.                                               *)
NextTick == Interval

(* The ticker fires (at once in a new process) and the snapshot is taken.  *)
Snapshot ==
    /\ pc = "sleep" /\ wait = 0
    /\ wait' = NextTick
    /\ \/ /\ pc' = "read"
          /\ snap' = [total |-> total, stale |-> stale]
          /\ streak' = IF Over(snap') /\ streak < 2 THEN streak + 1 ELSE streak
          /\ UNCHANGED transition
       \/ GiveUp /\ UNCHANGED streak
    /\ UNCHANGED <<rowVars, calm, stateRow, heard, restarted, entries>>

(* GetWatchdogState, then step: a new state to commit, or nothing to do.   *)
Read ==
    /\ pc = "read"
    /\ \/ LET next == Step(status, Over(snap))
          IN  /\ pc' = IF next[1] # status THEN "write"
                       ELSE IF next[2] # "none" THEN "fire" ELSE "sleep"
              /\ IF pc' = "sleep" THEN EndTick ELSE transition' = next[2] /\ UNCHANGED snap
              /\ streak' = IF pc' = "sleep" /\ ~Over(snap) THEN 0 ELSE streak
       \/ GiveUp /\ UNCHANGED streak
    /\ UNCHANGED <<rowVars, calm, stateRow, wait, heard, restarted, entries>>

(* The alert goes out only when the write of the state is known to be      *)
(* committed.                                                              *)
Acknowledged(done) == done

(* since_ts is the time this tick began.                                   *)
CommitState ==
    /\ status' = Step(status, Over(snap))[1]
    /\ age' = NextTick - wait
    /\ restarted' = FALSE
    /\ entries' = IF status' = "stale" THEN 1 ELSE entries
    /\ streak' = IF Over(snap) THEN streak ELSE 0

(* SetWatchdogState, before any alert.  The commit may happen although its *)
(* answer is lost; then the tick returns without firing.                   *)
Write ==
    /\ pc = "write"
    /\ \E committed, answered \in BOOLEAN :
          /\ calm => committed /\ answered
          /\ answered => committed
          /\ IF committed THEN CommitState ELSE UNCHANGED <<stateRow, historyVars>>
          /\ IF Acknowledged(answered) /\ transition # "none"
             THEN pc' = "fire" /\ UNCHANGED <<snap, transition>>
             ELSE EndTick
    /\ UNCHANGED <<rowVars, calm, wait, heard>>

(* The webhook is called once; an error is logged and metered only.        *)
Fire ==
    /\ pc = "fire"
    /\ \/ heard' = transition
       \/ ~calm /\ UNCHANGED heard
    /\ entries' = IF transition = "stale" THEN 0 ELSE entries
    /\ EndTick
    /\ UNCHANGED <<rowVars, calm, stateRow, wait, streak, restarted>>

Tick == Snapshot \/ Read \/ Write \/ Fire

-----------------------------------------------------------------------------
(* Everything else.                                                        *)

(* The process dies; the next one ticks immediately.                       *)
Restart ==
    /\ ~calm
    /\ EndTick /\ wait' = 0 /\ restarted' = TRUE
    /\ UNCHANGED <<rowVars, calm, stateRow, heard, streak, entries>>

(* One unit of time goes by; a tick takes less than a CheckInterval.       *)
Pass ==
    /\ wait > 0
    /\ wait' = wait - 1
    /\ age' = IF age < 2 * Interval THEN age + 1 ELSE age
    /\ UNCHANGED <<rowVars, calm, status, pc, snap, transition, heard, historyVars>>

(* A stream is polled for the first time (counted, and stale unless it was *)
(* written too), is written, or goes past its threshold.                   *)
FirstPoll ==
    /\ ~calm /\ total < MaxStreams
    /\ total' = total + 1 /\ stale' \in {stale, stale + 1}

Freshen == ~calm /\ stale > 0 /\ stale' = stale - 1 /\ UNCHANGED total

GoStale == ~calm /\ stale < total /\ stale' = stale + 1 /\ UNCHANGED total

Streams ==
    /\ FirstPoll \/ Freshen \/ GoStale
    /\ UNCHANGED <<calm, stateRow, tickVars, heard, historyVars>>

CalmDown ==
    /\ ~calm /\ calm' = TRUE
    /\ UNCHANGED <<rowVars, stateRow, tickVars, heard, historyVars>>

Next == Tick \/ Restart \/ Pass \/ Streams \/ CalmDown

Spec == Init /\ [][Next]_vars

(* The goroutine runs, its calls return and time passes.                   *)
FairSpec == Spec /\ WF_vars(Tick) /\ WF_vars(Pass)

-----------------------------------------------------------------------------
TypeOK ==
    /\ total \in 0..MaxStreams /\ stale \in 0..total /\ calm \in BOOLEAN
    /\ status \in {"ok", "stale_pending", "stale"} /\ age \in 0..(2 * Interval)
    /\ pc \in {"sleep", "read", "write", "fire"} /\ wait \in 0..Interval
    /\ snap \in [total : 0..MaxStreams, stale : 0..MaxStreams]
    /\ transition \in {"none", "stale", "recovered"}
    /\ heard \in {"stale", "recovered"}
    /\ streak \in 0..2 /\ restarted \in BOOLEAN /\ entries \in 0..1

(* Hysteresis: whatever dies or fails in between, "stale" is only alerted  *)
(* after two snapshots over the threshold with no completed fresh tick     *)
(* between them.                                                           *)
StaleNeedsTwoTicks == [][Fire /\ transition = "stale" => streak = 2]_vars

(* No spam: each committed entry to "stale" is alerted at most once.       *)
OneAlertPerEntry == [][Fire /\ transition = "stale" => entries = 1]_vars

(* "stale" is a sustained state: when the row turns stale, the tick that   *)
(* does it began a CheckInterval or more after the one that made the row   *)
(* pending, failed ticks and lost answers notwithstanding, unless a new    *)
(* process has ticked at once since (watchdog.go:69-72, 165, 172).         *)
StaleIsSustained ==
    [][status' = "stale" /\ status # "stale" =>
           restarted \/ age + wait >= 2 * Interval]_vars

(* Once failures have stopped, a lasting outage turns the status to        *)
(* "stale" and a lasting recovery turns it to "ok", from wherever the      *)
(* failures left the row.                                                  *)
StatusConverges ==
    /\ <>[](calm /\ stale > 1 /\ stale * Percent > total) => <>[](status = "stale")
    /\ <>[](calm /\ stale <= 1) => <>[](status = "ok")

-----------------------------------------------------------------------------
(* The inductive strengthening.                                            *)

(* What a tick is about to commit and to fire follows from the row and its *)
(* snapshot: nobody else writes the row.                                   *)
TickFollowsRow ==
    /\ pc = "write" => /\ transition = Step(status, Over(snap))[2]
                       /\ Step(status, Over(snap))[1] # status
    /\ pc = "fire" => transition # "none"
    /\ pc = "fire" /\ transition = "stale" => entries = 1 /\ streak = 2

(* A pending row has been seen stale once, and the tick in hand adds to it. *)
PendingWasSeen ==
    /\ status = "stale_pending" => streak >= 1
    /\ pc \in {"read", "write"} /\ Over(snap) => streak >= 1
    /\ pc \in {"read", "write"} /\ Over(snap) /\ status = "stale_pending" => streak = 2

(* A pending row, the next tick and the last one are an interval apart.    *)
PendingIsTimed ==
    status = "stale_pending" =>
        \/ restarted
        \/ age + wait >= 2 * Interval
        \/ pc = "sleep" /\ age + wait >= Interval

IInv == TickFollowsRow /\ PendingWasSeen /\ PendingIsTimed

-----------------------------------------------------------------------------
(* What F5 says and the code does not do.                                  *)

(* "fires once on entry to `stale`, once on `recovered`": between ticks    *)
(* the receiver of the alerts should know the status of the row.           *)
ReceiverKnowsStatus ==
    (pc = "sleep" /\ status # "stale_pending") =>
        heard = (IF status = "stale" THEN "stale" ELSE "recovered")
=============================================================================
