---------------------------- MODULE PlaybackClock ----------------------------
(***************************************************************************)
(* PlaybackClockState, driven by the focus and pause edges of the worker   *)
(* loop.  There is one pause interval, held open by up to two reasons;     *)
(* when the last reason goes its length is added to the pause time, which  *)
(* moves the playback epoch.                                               *)
(*                                                                         *)
(* The worker samples the clock once at the top of an iteration and again  *)
(* when it resumes; time passes between the two.  qpc counts from the      *)
(* start of playback, after the first press (a pause before it ends the    *)
(* session).  Operators whose names begin with Bug are mistakes the        *)
(* properties must catch; nothing uses them.                               *)
(***************************************************************************)
EXTENDS Integers

CONSTANTS
  RestoreGrace, (* focus_restore_grace_ticks                               *)
  MaxQpc        (* bound: the performance counter is followed up to here   *)

ASSUME ClockAssumption == RestoreGrace \in Nat /\ MaxQpc \in Nat

VARIABLES
  qpc,        (* the performance counter                                   *)
  focus,      (* the target window has the focus                           *)
  want,       (* desired_pause                                             *)
  reasons,    (* pause_reasons                                             *)
  opened,     (* pause_interval_started                                    *)
  pauseTime,  (* pause_time: total length of the closed intervals          *)
  sampled,    (* the sample of this iteration                              *)
  wantSeen,   (* desired_pause as sampled with it                          *)
  marker,     (* focus_restore_started_ticks                               *)
  step,       (* where the worker is in its loop                           *)
  played      (* history: ticks that passed while nothing was paused       *)

clockVars == <<qpc, focus, want, reasons, opened, pauseTime, sampled,
              wantSeen, marker, step, played>>

Reason == {"Manual", "Focus"}
NoTicks == -1

Paused == reasons # {}

(* get_elapsed: the song position that everyone is shown. *)
Elapsed == (IF Paused THEN opened ELSE qpc) - pauseTime

ClockInit ==
  /\ qpc = 0
  /\ focus = TRUE
  /\ want = FALSE
  /\ reasons = {}
  /\ opened = NoTicks
  /\ pauseTime = 0
  /\ sampled = 0
  /\ wantSeen = FALSE
  /\ marker = NoTicks
  /\ step = "top"
  /\ played = 0
-----------------------------------------------------------------------------
(* Bug: every reason that arrives restarts the interval. *)
BugEnterPause(reason, at) ==
  /\ reasons' = reasons \cup {reason}
  /\ opened' = IF reason \in reasons THEN opened ELSE at
  /\ UNCHANGED pauseTime

(* The first reason opens the interval, a second one only joins it. *)
EnterPause(reason, at) ==
  /\ reasons' = reasons \cup {reason}
  /\ opened' = IF Paused THEN opened ELSE at
  /\ UNCHANGED pauseTime

(* The last reason to go closes the interval, at a fresh sample. *)
ExitPause(reason) ==
  /\ reasons' = reasons \ {reason}
  /\ IF reasons = {reason}
       THEN /\ pauseTime' = pauseTime + (qpc - opened)
            /\ opened' = NoTicks
       ELSE UNCHANGED <<pauseTime, opened>>

SameClock == UNCHANGED <<reasons, opened, pauseTime>>

-----------------------------------------------------------------------------
(* The world: time, the desktop and the player's pause button. *)
CounterTicks ==
  /\ qpc < MaxQpc
  /\ qpc' = qpc + 1
  /\ played' = IF Paused THEN played ELSE played + 1
  /\ UNCHANGED <<focus, want, sampled, wantSeen, marker, step>>
  /\ SameClock

FocusChanges ==
  /\ focus' = ~ focus
  /\ UNCHANGED <<qpc, want, sampled, wantSeen, marker, step, played>>
  /\ SameClock

PauseToggles ==
  /\ want' = ~ want
  /\ UNCHANGED <<qpc, focus, sampled, wantSeen, marker, step, played>>
  /\ SameClock

(* The worker moves on; what it reads of the world does not change. *)
WorkerStep(from, to) ==
  /\ step = from
  /\ step' = to
  /\ UNCHANGED <<qpc, focus, want, played>>

(* Top of the loop: one clock sample and the pause request next to it. *)
Sample ==
  /\ WorkerStep("top", "focus")
  /\ sampled' = qpc
  /\ wantSeen' = want
  /\ UNCHANGED marker
  /\ SameClock

LoseFocus ==
  /\ WorkerStep("focus", "manual")
  /\ ~ focus
  /\ EnterPause("Focus", sampled)
  /\ marker' = NoTicks
  /\ UNCHANGED <<sampled, wantSeen>>

KeepFocus ==
  /\ WorkerStep("focus", "manual")
  /\ focus
  /\ "Focus" \notin reasons
  /\ UNCHANGED <<sampled, wantSeen, marker>>
  /\ SameClock

(* The focus is back; the grace runs from the first sample that saw it. *)
FocusBack ==
  /\ WorkerStep("focus", "restore")
  /\ focus
  /\ "Focus" \in reasons
  /\ marker' = IF marker = NoTicks THEN sampled ELSE marker
  /\ UNCHANGED <<sampled, wantSeen>>
  /\ SameClock

GraceRuns ==
  /\ WorkerStep("restore", "manual")
  /\ sampled - marker < RestoreGrace
  /\ UNCHANGED <<sampled, wantSeen, marker>>
  /\ SameClock

(* After the release and the preflight the focus is checked once more. *)
RestoreFocus ==
  /\ step = "restore"
  /\ sampled - marker >= RestoreGrace
  /\ marker' = NoTicks
  /\ \/ /\ WorkerStep("restore", "manual")
        /\ focus
        /\ ExitPause("Focus")
     \/ /\ WorkerStep("restore", "top")
        /\ ~ focus
        /\ SameClock
  /\ UNCHANGED <<sampled, wantSeen>>

EnterManual ==
  /\ WorkerStep("manual", "gate")
  /\ wantSeen
  /\ "Manual" \notin reasons
  /\ EnterPause("Manual", sampled)
  /\ UNCHANGED <<sampled, wantSeen, marker>>

KeepManual ==
  /\ WorkerStep("manual", "gate")
  /\ IF wantSeen THEN "Manual" \in reasons
       ELSE "Manual" \notin reasons \/ "Focus" \in reasons
  /\ UNCHANGED <<sampled, wantSeen, marker>>
  /\ SameClock

(* A manual resume while the focus pause is open waits for the focus. *)
ExitManual ==
  /\ step = "manual"
  /\ ~ wantSeen
  /\ reasons = {"Manual"}
  /\ \/ /\ WorkerStep("manual", "gate")
        /\ focus
        /\ ExitPause("Manual")
     \/ /\ WorkerStep("manual", "top")
        /\ ~ focus
        /\ SameClock
  /\ UNCHANGED <<sampled, wantSeen, marker>>

(* A paused iteration polls; a playing one may find the focus gone at the
   final gate, on a sample no older than the one the iteration began with. *)
Continue ==
  /\ WorkerStep("gate", "top")
  /\ UNCHANGED <<sampled, wantSeen, marker>>
  /\ SameClock

GateLosesFocus ==
  /\ WorkerStep("gate", "top")
  /\ ~ Paused
  /\ ~ focus
  /\ \E at \in sampled..qpc : EnterPause("Focus", at)
  /\ marker' = NoTicks
  /\ UNCHANGED <<sampled, wantSeen>>

ClockNext ==
  \/ CounterTicks
  \/ FocusChanges
  \/ PauseToggles
  \/ Sample
  \/ LoseFocus
  \/ KeepFocus
  \/ FocusBack
  \/ GraceRuns
  \/ RestoreFocus
  \/ EnterManual
  \/ KeepManual
  \/ ExitManual
  \/ Continue
  \/ GateLosesFocus

ClockSpec == ClockInit /\ [][ClockNext]_clockVars
-----------------------------------------------------------------------------
(* Every variable of the clock and of the loop stays in its type. *)
ClockTypeOK ==
  /\ qpc \in Nat
  /\ focus \in BOOLEAN
  /\ want \in BOOLEAN
  /\ reasons \in SUBSET Reason
  /\ opened \in Nat \cup {NoTicks}
  /\ Paused <=> opened # NoTicks
  /\ pauseTime \in Nat
  /\ sampled \in Nat
  /\ wantSeen \in BOOLEAN
  /\ marker \in Nat \cup {NoTicks}
  /\ step \in {"top", "focus", "restore", "manual", "gate"}
  /\ played \in Nat

(***************************************************************************)
(* update_pause_time: pauses never lose time.  However the two pauses      *)
(* nest and however late the worker samples, the position is never ahead   *)
(* of the time that was really played, so nothing is skipped.              *)
(***************************************************************************)
NeverAheadOfPlayback == Elapsed <= played

(***************************************************************************)
(* enter_pause and exit_pause: as long as one reason holds the clock, the  *)
(* position stands still, whatever other reason comes and goes, resuming   *)
(* continues from exactly where it stood, and no step brings the position  *)
(* ahead of the time played (clock.rs:60-170, dispatch_loop.rs:430-640).   *)
(***************************************************************************)
PositionIsPlayed ==
  [][(Paused => Elapsed' = Elapsed) /\ NeverAheadOfPlayback']_clockVars
=============================================================================
