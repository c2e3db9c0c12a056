--------------------------- MODULE DownAdmission ---------------------------
(***************************************************************************)
(* The musical admission of presses in time: the down-boundary state of    *)
(* the worker (worker.rs), the classification of a due plan                *)
(* (dispatch_loop.rs) and the sender's cutoff (dispatch/authored.rs,       *)
(* dispatch/recovery.rs).  Time passes between any two steps of the        *)
(* worker, pauses move the targets, and a gate may turn a plan away after  *)
(* it was classified.  Production mode: a missed press is left out and     *)
(* playback goes on.  Time is in ticks; a boundary is one frame of the     *)
(* song, with a press (down) or with releases only.                        *)
(***************************************************************************)
EXTENDS Integers, Sequences

CONSTANTS
  Song,      \* sequence of boundaries [at |-> tick, down |-> BOOLEAN]
  Grace,     \* down_late_grace_ticks
  MaxTime    \* bound on the ticks that pass

ASSUME SongAssumption ==
  /\ Song \in Seq([at : Nat, down : BOOLEAN])
  /\ Len(Song) > 0 /\ Song[1].down
ASSUME GraceAssumption == Grace \in Nat

VARIABLES
  now,       \* QPC ticks
  shift,     \* how far the pauses have moved the epoch
  paused,
  cursor,    \* the next boundary
  down,      \* down_boundary_state
  started,   \* musical_physical_commit_started
  pc,        \* "top" of the loop, "wait", "gate", or "done"
  admission, \* DownBoundaryAdmission of the plan at the gate
  fate,      \* what has become of each boundary
  seen,      \* history: the stamp of the last future observation, until it is invalidated
  pressed    \* history: the last press, in playback time

vars == <<now, shift, paused, cursor, down, started, pc, admission, fate, seen, pressed>>
time == <<now, shift>>

Boundaries  == 1..Len(Song)
None        == [boundary |-> 0, target |-> 0]
Initial     == [kind |-> "initial", stamp |-> None]
\* AwaitingFuture, with or without the late-rescue credit.
Awaiting(credit) == [kind |-> IF credit THEN "credit" ELSE "spent", stamp |-> None]
Authorized(stamp) == [kind |-> "authorized", stamp |-> stamp]

Playing  == cursor \in Boundaries /\ ~paused
Target   == Song[cursor].at + shift
Stamp    == [boundary |-> cursor, target |-> Target]
Presses  == Song[cursor].down
Due      == Target <= now

Init ==
  /\ now = 0 /\ shift = 0 /\ paused = FALSE
  /\ cursor = 1 /\ down = Initial /\ started = FALSE
  /\ pc = "top" /\ admission = "normal"
  /\ fate = [b \in Boundaries |-> "pending"]
  /\ seen = None /\ pressed = [boundary |-> 0, at |-> 0]

Tick ==
  /\ now < MaxTime /\ pc # "done"
  /\ now' = now + 1
  /\ shift' = IF paused THEN shift + 1 ELSE shift
  /\ UNCHANGED <<paused, cursor, down, started, pc, admission, fate, seen, pressed>>

\* invalidate_down_authorization; before the first press there is nothing to lose.
Invalidated ==
  /\ down' = IF down = Initial THEN down ELSE Awaiting(FALSE)
  /\ seen' = None

(***************************************************************************)
(* The top of the loop.                                                    *)
(***************************************************************************)
\* A manual pause or a lost focus; before the first press it ends playback.
Pause ==
  /\ pc = "top" /\ cursor \in Boundaries
  /\ IF started
       THEN /\ paused' = TRUE /\ Invalidated /\ UNCHANGED pc
       ELSE /\ pc' = "done" /\ UNCHANGED <<paused, down, seen>>
  /\ UNCHANGED <<time, cursor, started, admission, fate, pressed>>

Resume ==
  /\ pc = "top" /\ paused
  /\ paused' = FALSE
  /\ UNCHANGED <<time, cursor, down, started, pc, admission, fate, seen, pressed>>

\* preflight_prepared_plan finds that the target window has changed.
PreflightStale ==
  /\ pc = "top" /\ Playing /\ Presses
  /\ Invalidated
  /\ UNCHANGED <<time, paused, cursor, started, pc, admission, fate, pressed>>

\* The plan is not due: its press is authorized, and the worker waits.
Observe ==
  /\ pc = "top" /\ Playing /\ ~Due
  /\ IF Presses /\ down # Initial
       THEN down' = Authorized(Stamp) /\ seen' = Stamp
       ELSE UNCHANGED <<down, seen>>
  /\ pc' = "wait"
  /\ UNCHANGED <<time, paused, cursor, started, admission, fate, pressed>>

\* The wait was interrupted: plan again.
Replan ==
  /\ pc = "wait"
  /\ pc' = "top"
  /\ UNCHANGED <<time, paused, cursor, down, started, admission, fate, seen, pressed>>

\* authorize_down_boundary
Authorizes == down.kind = "authorized" /\ down.stamp = Stamp

Normal  == ~Presses \/ Authorizes \/ ~started
Rescued == ~Normal /\ down.kind = "credit" /\ now - Target <= Grace

Classify ==
  /\ pc \in {"top", "wait"} /\ Playing /\ Due
  /\ admission' = IF Normal THEN "normal" ELSE IF Rescued THEN "rescue" ELSE "missed"
  /\ down' = IF ~Normal /\ down.kind = "credit" THEN Awaiting(FALSE) ELSE down
  /\ pc' = "gate"
  /\ UNCHANGED <<time, paused, cursor, started, fate, seen, pressed>>

(***************************************************************************)
(* The final gates, and the packet.                                        *)
(***************************************************************************)
\* A control request or an expired lease: the loop looks at it.
GateRejects ==
  /\ pc = "gate"
  /\ pc' = "top"
  /\ UNCHANGED <<time, paused, cursor, down, started, admission, fate, seen, pressed>>

GateFindsTargetChanged ==
  /\ pc = "gate" /\ Presses
  /\ Invalidated
  /\ pc' = "top"
  /\ UNCHANGED <<time, paused, cursor, started, admission, fate, pressed>>

\* handle_final_focus_loss pauses the clock; the authorization stays.
GateFindsFocusLost ==
  /\ pc = "gate" /\ Presses
  /\ IF started THEN paused' = TRUE /\ pc' = "top" ELSE pc' = "done" /\ UNCHANGED paused
  /\ UNCHANGED <<time, cursor, down, started, admission, fate, seen, pressed>>

Advance(f) ==
  /\ fate' = [fate EXCEPT ![cursor] = f]
  /\ cursor' = cursor + 1
  /\ pc' = IF cursor = Len(Song) THEN "done" ELSE "top"

\* A plausible bug: a miss gives the credit back.
BugMissed(f) ==
  /\ down' = IF down = Initial THEN down ELSE Awaiting(TRUE)
  /\ Advance(f)
  /\ UNCHANGED <<time, paused, started, admission, seen, pressed>>

\* recover_missed_down_boundary: the releases of the frame, no press.
Missed(f) ==
  /\ down' = IF down = Initial THEN down ELSE Awaiting(FALSE)
  /\ Advance(f)
  /\ UNCHANGED <<time, paused, started, admission, seen, pressed>>

Backlog == pc = "gate" /\ admission = "missed" /\ Missed("backlog")

\* A plausible bug: the sender does not look at the clock again.
BugInTime == TRUE

\* The sender's own look at the clock, right before SendInput.
InTime == now <= Target + Grace

HardLate ==
  /\ pc = "gate" /\ admission # "missed" /\ Presses /\ ~InTime
  /\ IF started
       THEN Missed("late")
       ELSE /\ pc' = "done"
            /\ UNCHANGED <<time, paused, cursor, down, started, admission, fate, seen, pressed>>

\* mark_down_commit_started
Press ==
  /\ pc = "gate" /\ admission # "missed" /\ Presses /\ InTime
  /\ started' = TRUE
  /\ down' = Awaiting(admission # "rescue")
  /\ Advance(IF admission = "rescue" THEN "rescued" ELSE "sent")
  /\ pressed' = [boundary |-> cursor, at |-> now - shift]
  /\ UNCHANGED <<time, paused, admission, seen>>

\* Releases are sent however late they are.
Lift ==
  /\ pc = "gate" /\ ~Presses
  /\ Advance("sent")
  /\ UNCHANGED <<time, paused, down, started, admission, seen, pressed>>

\* A conflict of keys, a clock or a transport that fails ends the loop, in the
\* recovery of a missed press as well.
SendFails ==
  /\ pc = "gate"
  /\ pc' = "done"
  /\ UNCHANGED <<time, paused, cursor, down, started, admission, fate, seen, pressed>>

Next ==
  \/ Tick \/ Pause \/ Resume \/ PreflightStale \/ Observe \/ Replan \/ Classify
  \/ GateRejects \/ GateFindsTargetChanged \/ GateFindsFocusLost
  \/ Backlog \/ HardLate \/ Press \/ Lift \/ SendFails

Spec == Init /\ [][Next]_vars

(***************************************************************************)
(* Properties.                                                             *)
(***************************************************************************)
Stamps == [boundary : 0..Len(Song), target : Nat]
Fates  == {"pending", "sent", "rescued", "backlog", "late"}

\* Every variable has its type; a credit or an authorization exists only
\* once playback has started.
TypeOK ==
  /\ now \in Nat /\ shift \in Nat /\ paused \in BOOLEAN
  /\ cursor \in 1..(Len(Song) + 1) /\ started \in BOOLEAN
  /\ down \in [kind : {"initial", "credit", "spent", "authorized"}, stamp : Stamps]
  /\ down = Initial <=> ~started
  /\ pc \in {"top", "wait", "gate", "done"}
  /\ admission \in {"normal", "rescue", "missed"}
  /\ fate \in [Boundaries -> Fates]
  /\ seen \in Stamps
  /\ pressed \in [boundary : 0..Len(Song), at : Int]

\* p is the press before b.
Precedes(p, b) ==
  /\ p \in Boundaries /\ p < b /\ Song[p].down
  /\ \A q \in Boundaries : p < q /\ q < b => ~Song[q].down

\* A late discovery is rescued at most once in a row: the press before it was
\* sent, and not as a rescue, through whatever misses, pauses and rejections.
RescueIsIsolated ==
  \A b \in Boundaries : fate[b] = "rescued" =>
    \A p \in Boundaries : Precedes(p, b) => fate[p] = "sent"

NormalPress == Press /\ started /\ admission = "normal"

\* A press that is no rescue was observed, at this very target, while the
\* target was ahead: no press goes out on the authorization of an older plan.
PressesWereSeen == [][NormalPress => seen = Stamp]_vars

\* A press that was seen ahead of time at its target is not dropped as
\* backlog, however often the worker replanned since.
SeenIsNotBacklog == [][Backlog => seen # Stamp]_vars

KeepsTheGap ==
  \A p \in Boundaries : Press /\ pressed.boundary = p =>
    now - shift - pressed.at >= Song[cursor].at - Song[p].at - Grace

\* No catch-up burst: two presses are never closer, in playback time, than
\* the song has them less the grace.
PressesKeepTheGap == [][KeepsTheGap]_vars
=============================================================================
