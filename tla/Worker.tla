------------------------------- MODULE Worker -------------------------------
(***************************************************************************)
(* The playback worker: one loop over the control requests, the focus and  *)
(* pause edges, planning, the wait and the two admission gates in front of *)
(* SendInput, and the clean-up when the loop ends.  Around it the session  *)
(* handle, the desktop, the supervisor lease and the player's own fingers  *)
(* act at any moment, so whatever the worker read may be stale when used.  *)
(*                                                                         *)
(* The song is one voice: live says that its last press is still to be     *)
(* lifted, keys that a key pressed by the worker is physically down, and   *)
(* tracked that the masks of the input backend are not empty.  Coordinator *)
(* has the ledger in full, PlaybackClock the time; here time is only       *)
(* whether a target was reached and whether it was reached too late.       *)
(* Operators whose names begin with Bug are mistakes the properties must   *)
(* catch; nothing uses them.                                               *)
(***************************************************************************)
EXTENDS Naturals, Sequences

CONSTANTS
  Song,         (* sequence of packets [up |-> BOOLEAN, down |-> BOOLEAN]  *)
  MaxTarget,    (* bound: target windows 1..MaxTarget; 0 is another window *)
  MaxEvents     (* bound: outside events per session                       *)

ASSUME WorkerAssumption ==
  /\ Song \in Seq([up : BOOLEAN, down : BOOLEAN])
  /\ MaxTarget \in Nat \ {0}
  /\ MaxEvents \in Nat

VARIABLES
  requests,   (* quit_requested, skip_requested, panic_requested           *)
  wantPause,  (* desired_pause                                             *)
  hint,       (* focus_active, the supervisor's focus hint                 *)
  fore,       (* the window in the foreground                              *)
  target,     (* target window and generation                              *)
  lease,      (* the supervisor's heartbeat is younger than the timeout    *)
  user,       (* the player physically holds an instrument key             *)
  interrupt,  (* the auto-reset event                                      *)
  signals,    (* stores whose call has not signalled the event yet         *)
  events,     (* number of outside events so far                           *)
  pc,         (* where the worker is                                       *)
  frame,      (* the locals of this loop iteration                         *)
  reasons,    (* pause reasons of the playback clock                       *)
  grace,      (* the restore grace: "off", "running" or "over"             *)
  verified,   (* verified_target, 0 for None                               *)
  started,    (* musical_physical_commit_started                           *)
  cursor, live, missed, cancelled,   (* the ledger                         *)
  keys, tracked,                     (* physical keys, backend masks       *)
  error,      (* terminal_error                                            *)
  full,       (* force_full_cleanup                                        *)
  outcome,    (* the published outcome, "none" while the session runs      *)
  probed      (* history: a probe passed since the last pause began        *)

World  == <<requests, wantPause, hint, fore, target, lease, user, interrupt,
            signals, events>>
Clock  == <<reasons, grace, probed>>
Ledger == <<cursor, live, missed, cancelled>>
Input  == <<keys, tracked>>
End    == <<error, full, outcome>>

vars == <<World, pc, frame, Clock, verified, started, Ledger, Input, End>>

NoFrame == [hint |-> FALSE, pause |-> FALSE, stamp |-> 0, up |-> FALSE,
            late |-> FALSE, refused |-> FALSE]

AtPacket == cursor <= Len(Song)
PressesNow == AtPacket /\ Song[cursor].down
LiftsNow == AtPacket /\ Song[cursor].up /\ live
Stopping == pc \in {"finalize", "verdict", "publish", "done"}
Focused(hwnd) == hint /\ fore = hwnd
StopRequested == requests # {}
-----------------------------------------------------------------------------
Init ==
  /\ requests = {}
  /\ wantPause = FALSE
  /\ hint = TRUE
  /\ fore = 1
  /\ target = 1
  /\ lease = TRUE
  /\ user = FALSE
  /\ interrupt = FALSE
  /\ signals = 0
  /\ events = 0
  /\ pc = "top"
  /\ frame = NoFrame
  /\ reasons = {}
  /\ grace = "off"
  /\ verified = 1
  /\ started = FALSE
  /\ cursor = 1
  /\ live = FALSE
  /\ missed = FALSE
  /\ cancelled = FALSE
  /\ keys = FALSE
  /\ tracked = FALSE
  /\ error = "none"
  /\ full = FALSE
  /\ outcome = "none"
  /\ probed = TRUE

-----------------------------------------------------------------------------
(* The outside.  A session call stores its flag and then signals.          *)
Event ==
  /\ events < MaxEvents
  /\ events' = events + 1
  /\ UNCHANGED <<pc, frame, Clock, verified, started, Ledger, Input, End>>

Stored == signals' = signals + 1 /\ UNCHANGED interrupt
Unsignalled == UNCHANGED <<signals, interrupt>>

RequestStop ==
  /\ Event
  /\ Stored
  /\ \E r \in {"quit", "skip", "panic"} \ requests :
       requests' = requests \cup {r}
  /\ UNCHANGED <<wantPause, hint, fore, target, lease, user>>

PauseOrResume ==
  /\ Event
  /\ Stored
  /\ wantPause' = ~ wantPause
  /\ UNCHANGED <<requests, hint, fore, target, lease, user>>

SetFocusHint ==
  /\ Event
  /\ Stored
  /\ hint' = ~ hint
  /\ UNCHANGED <<requests, wantPause, fore, target, lease, user>>

SetTarget ==
  /\ Event
  /\ Stored
  /\ target < MaxTarget
  /\ target' = target + 1
  /\ UNCHANGED <<requests, wantPause, hint, fore, lease, user>>

Signal ==
  /\ signals > 0
  /\ signals' = signals - 1
  /\ interrupt' = TRUE
  /\ UNCHANGED <<requests, wantPause, hint, fore, target, lease, user, events,
                 pc, frame, Clock, verified, started, Ledger, Input, End>>

ForegroundChanges ==
  /\ Event
  /\ Unsignalled
  /\ \E w \in 0..MaxTarget \ {fore} : fore' = w
  /\ UNCHANGED <<requests, wantPause, hint, target, lease, user>>

LeaseChanges ==
  /\ Event
  /\ Unsignalled
  /\ lease' = ~ lease
  /\ UNCHANGED <<requests, wantPause, hint, fore, target, user>>

UserKey ==
  /\ Event
  /\ Unsignalled
  /\ user' = ~ user
  /\ UNCHANGED <<requests, wantPause, hint, fore, target, lease>>

GraceElapses ==
  /\ grace = "running"
  /\ grace' = "over"
  /\ UNCHANGED <<World, pc, frame, reasons, probed, verified, started, Ledger,
                 Input, End>>

-----------------------------------------------------------------------------
(* Common ends of a worker step.                                           *)
Go(l) == pc' = l /\ UNCHANGED frame

(* The next iteration starts with fresh locals. *)
Top == pc' = "top" /\ frame' = NoFrame

(* A terminal error leaves the loop with a full clean-up ahead. *)
Fail(why) ==
  /\ error' = why
  /\ full' = TRUE
  /\ pc' = "finalize"
  /\ frame' = NoFrame
  /\ UNCHANGED outcome

Leave ==
  /\ pc' = "finalize"
  /\ frame' = NoFrame

(* One release of the instrument: sent says that the transport confirmed
   every Up.  The masks keep what is unconfirmed or still seen held. *)
Release(sent) ==
  /\ keys' = (keys /\ ~ sent)
  /\ tracked' = (~ sent \/ (fore = target /\ user))

ReleaseVerified(sent) == sent /\ fore = target /\ ~ user

-----------------------------------------------------------------------------
(* Top of the loop.                                                        *)

(* is_finished: nothing is left to play and nothing is held. *)
LoopEnds ==
  /\ pc = "top"
  /\ ~ AtPacket
  /\ ~ live
  /\ Leave
  /\ UNCHANGED <<World, Clock, verified, started, Ledger, Input, End>>

(* process_command_control: the lease first, then quit and skip, then the
   panic release; the focus hint is read next, and checked at startup. *)
InLoop == pc = "top" /\ (AtPacket \/ live)

LeaseExpires ==
  /\ InLoop
  /\ ~ lease
  /\ Fail("lease")
  /\ UNCHANGED <<World, Clock, verified, started, Ledger, Input>>

StopSeen ==
  /\ InLoop
  /\ lease
  /\ requests \cap {"quit", "skip"} # {}
  /\ Leave
  /\ UNCHANGED <<World, Clock, verified, started, Ledger, Input, End>>

PanicSeen ==
  /\ InLoop
  /\ lease
  /\ requests = {"panic"}
  /\ requests' = {}
  /\ \E sent \in BOOLEAN : Release(sent)
  /\ live' = FALSE
  /\ cancelled' = TRUE
  /\ error' = "panic"
  /\ Leave
  /\ UNCHANGED <<wantPause, hint, fore, target, lease, user, interrupt,
                 signals, events, Clock, verified, started, cursor, missed,
                 full, outcome>>

ReadHint ==
  /\ InLoop
  /\ lease
  /\ requests = {}
  /\ IF hint \/ started
       THEN /\ pc' = "readPause"
            /\ frame' = [frame EXCEPT !.hint = hint]
            /\ UNCHANGED End
       ELSE Fail("preroll")
  /\ UNCHANGED <<World, Clock, verified, started, Ledger, Input>>

(* A manual pause before the first press ends the session. *)
ReadPause ==
  /\ pc = "readPause"
  /\ IF wantPause /\ ~ started
       THEN Fail("preroll")
       ELSE /\ pc' = "focus"
            /\ frame' = [frame EXCEPT !.pause = wantPause]
            /\ UNCHANGED End
  /\ UNCHANGED <<World, Clock, verified, started, Ledger, Input>>

-----------------------------------------------------------------------------
(* The focus edge.                                                         *)
Enter(reason) ==
  /\ reasons' = reasons \cup {reason}
  /\ probed' = (probed /\ reasons # {})

(* Losing the focus pauses the clock and touches no key. *)
LoseFocus ==
  /\ pc = "focus"
  /\ ~ frame.hint
  /\ verified' = 0
  /\ grace' = "off"
  /\ Enter("Focus")
  /\ Go("manual")
  /\ UNCHANGED <<World, started, Ledger, Input, End>>

KeepFocus ==
  /\ pc = "focus"
  /\ frame.hint
  /\ "Focus" \notin reasons
  /\ Go("manual")
  /\ UNCHANGED <<World, Clock, verified, started, Ledger, Input, End>>

GraceRuns ==
  /\ pc = "focus"
  /\ frame.hint
  /\ "Focus" \in reasons
  /\ grace # "over"
  /\ grace' = "running"
  /\ Go("manual")
  /\ UNCHANGED <<World, reasons, probed, verified, started, Ledger, Input, End>>

ManualActive == frame.pause \/ "Manual" \in reasons

(* After the grace: release and preflight, unless a manual pause will. *)
RestoreBegins ==
  /\ pc = "focus"
  /\ frame.hint
  /\ "Focus" \in reasons
  /\ grace = "over"
  /\ verified' = 0
  /\ pc' = IF ManualActive THEN "refocus" ELSE "restoreRelease"
  /\ frame' = [frame EXCEPT !.stamp = target]
  /\ UNCHANGED <<World, Clock, started, Ledger, Input, End>>

(* The last look at focus and target before the focus pause ends. *)
Refocus ==
  /\ pc = "refocus"
  /\ grace' = "off"
  /\ IF Focused(frame.stamp) /\ target = frame.stamp
       THEN /\ reasons' = reasons \ {"Focus"}
            /\ verified' = IF wantPause THEN 0 ELSE verified
            /\ Go("manual")
       ELSE /\ verified' = 0
            /\ Top
            /\ UNCHANGED reasons
  /\ UNCHANGED <<World, probed, started, Ledger, Input, End>>

-----------------------------------------------------------------------------
(* The manual edge.                                                        *)

(* Bug: the preflight proof from before the pause is kept. *)
BugPauseManually ==
  /\ pc = "manual"
  /\ frame.pause
  /\ "Manual" \notin reasons
  /\ IF reasons = {}
       THEN /\ Go("pauseRelease")
            /\ UNCHANGED <<reasons, probed>>
       ELSE /\ Enter("Manual")
            /\ Go("gate")
  /\ UNCHANGED <<World, grace, verified, started, Ledger, Input, End>>

(* A pause that joins a focus pause releases nothing. *)
PauseManually ==
  /\ pc = "manual"
  /\ frame.pause
  /\ "Manual" \notin reasons
  /\ verified' = 0
  /\ IF reasons = {}
       THEN /\ Go("pauseRelease")
            /\ UNCHANGED <<reasons, probed>>
       ELSE /\ Enter("Manual")
            /\ Go("gate")
  /\ UNCHANGED <<World, grace, started, Ledger, Input, End>>

KeepManual ==
  /\ pc = "manual"
  /\ frame.pause <=> "Manual" \in reasons
  /\ Go("gate")
  /\ UNCHANGED <<World, Clock, verified, started, Ledger, Input, End>>

(* A resume during a focus pause waits; otherwise it needs a preflight. *)
ResumeManually ==
  /\ pc = "manual"
  /\ ~ frame.pause
  /\ "Manual" \in reasons
  /\ IF "Focus" \in reasons
       THEN /\ verified' = 0
            /\ Go("gate")
       ELSE /\ pc' = "resumePreflight"
            /\ frame' = [frame EXCEPT !.stamp = target]
            /\ UNCHANGED verified
  /\ UNCHANGED <<World, Clock, started, Ledger, Input, End>>

(* Bug: the reason stays although the preflight succeeded. *)
BugResume ==
  /\ pc = "resume"
  /\ IF Focused(frame.stamp) /\ target = frame.stamp
       THEN Go("gate") /\ UNCHANGED verified
       ELSE Top /\ verified' = 0
  /\ UNCHANGED <<World, Clock, started, Ledger, Input, End>>

Resume ==
  /\ pc = "resume"
  /\ IF Focused(frame.stamp) /\ target = frame.stamp
       THEN /\ reasons' = reasons \ {"Manual"}
            /\ Go("gate")
            /\ UNCHANGED verified
       ELSE /\ verified' = 0
            /\ Top
            /\ UNCHANGED reasons
  /\ UNCHANGED <<World, grace, probed, started, Ledger, Input, End>>

-----------------------------------------------------------------------------
(* suspend_live_input and ensure_preflight_for_target, with their callers. *)

Suspended ==
  /\ \E sent \in BOOLEAN : Release(sent) /\ ReleaseVerified(sent)
  /\ live' = FALSE
  /\ cancelled' = (cancelled \/ live)
  /\ UNCHANGED <<cursor, missed>>

RestoreReleased ==
  /\ pc = "restoreRelease"
  /\ Suspended
  /\ Go("restorePreflight")
  /\ UNCHANGED <<World, Clock, verified, started, End>>

PauseReleased ==
  /\ pc = "pauseRelease"
  /\ Suspended
  /\ Enter("Manual")
  /\ Go("gate")
  /\ UNCHANGED <<World, grace, verified, started, End>>

(* After a gate the missed path goes on with the view it was given. *)
AfterGate ==
  IF frame.late THEN Go("recover") ELSE Top

GateReleased ==
  /\ pc = "gateRelease"
  /\ Suspended
  /\ Enter("Focus")
  /\ grace' = "off"
  /\ AfterGate
  /\ UNCHANGED <<World, verified, started, End>>

SuspendFails ==
  /\ pc \in {"restoreRelease", "pauseRelease", "gateRelease"}
  /\ \E sent \in BOOLEAN : Release(sent) /\ ~ ReleaseVerified(sent)
  /\ Fail(IF pc = "gateRelease" THEN "gate" ELSE "release")
  /\ UNCHANGED <<World, Clock, verified, started, Ledger>>

AfterPreflight ==
  [restorePreflight |-> "refocus", resumePreflight |-> "resume",
   planPreflight |-> "proof"]

AtPreflight == pc \in DOMAIN AfterPreflight

ProbeFindsAllUp == fore = frame.stamp /\ ~ keys /\ ~ user

PreflightPasses ==
  /\ AtPreflight
  /\ verified = frame.stamp \/ ProbeFindsAllUp
  /\ probed' = (probed \/ verified # frame.stamp)
  /\ verified' = frame.stamp
  /\ Go(AfterPreflight[pc])
  /\ UNCHANGED <<World, reasons, grace, started, Ledger, Input, End>>

PreflightFails ==
  /\ AtPreflight
  /\ verified # frame.stamp
  /\ ~ ProbeFindsAllUp
  /\ verified' = 0
  /\ Fail(IF fore = frame.stamp THEN "held" ELSE "inconclusive")
  /\ UNCHANGED <<World, Clock, started, Ledger, Input>>

-----------------------------------------------------------------------------
(* Planning and waiting.                                                   *)
Poll ==
  /\ pc = "gate"
  /\ reasons # {}
  /\ interrupt' = FALSE
  /\ Top
  /\ UNCHANGED <<requests, wantPause, hint, fore, target, lease, user,
                 signals, events, Clock, verified, started, Ledger, Input, End>>

Playing == pc = "gate" /\ reasons = {}

(* Metadata with no physical event left passes without a send. *)
SkipStale ==
  /\ Playing
  /\ AtPacket
  /\ ~ PressesNow
  /\ ~ LiftsNow
  /\ cursor' = cursor + 1
  /\ Top
  /\ UNCHANGED <<World, Clock, verified, started, live, missed, cancelled,
                 Input, End>>

(* A press the song never lifts leaves the loop with nothing to wait for. *)
NothingToPlan ==
  /\ Playing
  /\ ~ AtPacket
  /\ Leave
  /\ UNCHANGED <<World, Clock, verified, started, Ledger, Input, End>>

Plan ==
  /\ Playing
  /\ PressesNow \/ LiftsNow
  /\ pc' = IF PressesNow THEN "planPreflight" ELSE "wait"
  /\ frame' = [frame EXCEPT !.up = LiftsNow, !.stamp = target]
  /\ UNCHANGED <<World, Clock, verified, started, Ledger, Input, End>>

(* The proof is only as good as the target it was made for. *)
Prove ==
  /\ pc = "proof"
  /\ IF target = frame.stamp
       THEN Go("wait") /\ UNCHANGED verified
       ELSE Top /\ verified' = 0
  /\ UNCHANGED <<World, Clock, started, Ledger, Input, End>>

Due ==
  /\ pc = "wait"
  /\ pc' = "admit"
  /\ \E late \in BOOLEAN :
       /\ late => PressesNow /\ started
       /\ frame' = [frame EXCEPT !.late = late]
  /\ UNCHANGED <<World, Clock, verified, started, Ledger, Input, End>>

(* A command or the lease bound ends the wait; the event is drained. *)
WakeEarly ==
  /\ pc = "wait"
  /\ interrupt \/ ~ lease
  /\ interrupt' = FALSE
  /\ Go("drain")
  /\ UNCHANGED <<requests, wantPause, hint, fore, target, lease, user,
                 signals, events, Clock, verified, started, Ledger, Input, End>>

Drain ==
  /\ pc = "drain"
  /\ interrupt' = FALSE
  /\ Top
  /\ UNCHANGED <<requests, wantPause, hint, fore, target, lease, user,
                 signals, events, Clock, verified, started, Ledger, Input, End>>

-----------------------------------------------------------------------------
(* The two admission gates.  The first asks only the hint, the second the  *)
(* foreground window itself; both look at the control flags and the lease. *)
Rejected ==
  /\ verified' = 0
  /\ IF frame.late
       THEN pc' = "recover" /\ frame' = [frame EXCEPT !.refused = TRUE]
       ELSE Top
  /\ UNCHANGED <<Clock, End>>

(* Before the first press a lost focus is a failed start. *)
GateLosesFocus ==
  /\ UNCHANGED Clock
  /\ IF started THEN Go("gateRelease") /\ UNCHANGED End ELSE Fail("preroll")

Admit ==
  /\ pc = "admit"
  /\ IF PressesNow /\ ~ hint
       THEN GateLosesFocus /\ UNCHANGED verified
     ELSE IF \/ PressesNow /\ target # frame.stamp
             \/ StopRequested \/ wantPause \/ ~ lease
       THEN Rejected
     ELSE /\ Go("final")
          /\ UNCHANGED <<Clock, verified, End>>
  /\ UNCHANGED <<World, started, Ledger, Input>>

Final ==
  /\ pc = "final"
  /\ IF \/ StopRequested \/ wantPause
        \/ PressesNow /\ target # frame.stamp
       THEN Rejected
     ELSE IF PressesNow /\ ~ Focused(frame.stamp)
       THEN GateLosesFocus /\ verified' = 0
     ELSE IF ~ lease
       THEN Rejected
     ELSE Go(IF frame.late THEN "recover" ELSE "send")
          /\ UNCHANGED <<Clock, verified, End>>
  /\ UNCHANGED <<World, started, Ledger, Input>>

-----------------------------------------------------------------------------
(* The transaction and its commit.                                         *)
KeysAfter == PressesNow \/ (keys /\ ~ frame.up)

(* The frozen commit no longer fits the ledger. *)
CommitRefused == frame.up /\ ~ live

Send ==
  /\ pc = "send"
  /\ keys' = KeysAfter
  /\ tracked' = (PressesNow \/ (tracked /\ ~ frame.up))
  /\ IF CommitRefused
       THEN Fail("commit") /\ UNCHANGED <<live, cursor, started>>
       ELSE /\ live' = (PressesNow \/ (live /\ ~ frame.up))
            /\ started' = (started \/ PressesNow)
            /\ cursor' = cursor + 1
            /\ Top
            /\ UNCHANGED End
  /\ UNCHANGED <<World, Clock, verified, missed, cancelled>>

(* SendInput inserts nothing, or some prefix of the packet's events. *)
SendFails ==
  /\ pc = "send"
  /\ \/ UNCHANGED Input
     \/ /\ keys' \in {keys /\ ~ frame.up, KeysAfter}
        /\ tracked' = TRUE
  /\ Fail("send")
  /\ UNCHANGED <<World, Clock, verified, started, Ledger>>

(* The sender's cutoff passed: no call is made. *)
SendTooLate ==
  /\ pc = "send"
  /\ PressesNow
  /\ IF started THEN Go("recover") /\ UNCHANGED End ELSE Fail("late")
  /\ UNCHANGED <<World, Clock, verified, started, Ledger, Input>>

(* recover_missed_down_boundary: the Ups go out alone, the chord expires. *)
Recover ==
  /\ pc = "recover"
  /\ keys' = (keys /\ ~ frame.up)
  /\ tracked' = (tracked /\ ~ frame.up)
  /\ IF CommitRefused
       THEN Fail("commit") /\ UNCHANGED <<live, cursor, missed>>
       ELSE /\ live' = (live /\ ~ frame.up)
            /\ missed' = TRUE
            /\ cursor' = cursor + 1
            /\ Top
            /\ UNCHANGED End
  /\ UNCHANGED <<World, Clock, verified, started, cancelled>>

RecoverFails ==
  /\ pc = "recover"
  /\ frame.up
  /\ \/ UNCHANGED Input
     \/ keys' = FALSE /\ tracked' = TRUE
  /\ Fail("send")
  /\ UNCHANGED <<World, Clock, verified, started, Ledger>>

(* Any reading of the performance counter may fail, and so may a wait. *)
QpcFails ==
  /\ ~ Stopping
  /\ AtPacket \/ live
  /\ Fail("clock")
  /\ UNCHANGED <<World, Clock, verified, started, Ledger, Input>>

-----------------------------------------------------------------------------
(* finalize_worker.                                                        *)
Blame(why) == error' = IF error = "none" THEN why ELSE error

NothingToRelease == ~ full /\ ~ tracked

(* Bug: an unverified release is not an error. *)
BugFinalRelease ==
  /\ pc = "finalize"
  /\ \E sent \in BOOLEAN : Release(sent)
  /\ Go("verdict")
  /\ UNCHANGED <<World, Clock, verified, started, Ledger, error, full, outcome>>

FinalRelease ==
  /\ pc = "finalize"
  /\ \/ NothingToRelease /\ UNCHANGED <<Input, error>>
     \/ /\ ~ NothingToRelease
        /\ \E sent \in BOOLEAN :
             /\ Release(sent)
             /\ IF ReleaseVerified(sent) THEN UNCHANGED error
                  ELSE Blame("release")
  /\ Go("verdict")
  /\ UNCHANGED <<World, Clock, verified, started, Ledger, full, outcome>>

(* clean_completion_proven: every press was released or missed. *)
CleanCompletion ==
  ~ AtPacket /\ ~ live /\ ~ cancelled /\ ~ tracked

(* The completion contract is checked, then the rest is cancelled. *)
Verdict ==
  /\ pc = "verdict"
  /\ IF requests \cap {"quit", "skip"} = {} /\ ~ CleanCompletion
       THEN Blame("incomplete") ELSE UNCHANGED error
  /\ live' = FALSE
  /\ cancelled' = (cancelled \/ live \/ AtPacket)
  /\ Go("publish")
  /\ UNCHANGED <<World, Clock, verified, started, cursor, missed, Input, full,
                 outcome>>

Publish ==
  /\ pc = "publish"
  /\ outcome' = IF error # "none" THEN "error"
                ELSE IF "skip" \in requests THEN "skipped"
                ELSE IF "quit" \in requests THEN "quit"
                ELSE "finished"
  /\ Go("done")
  /\ UNCHANGED <<World, Clock, verified, started, Ledger, Input, error, full>>

(* The session is over. *)
Over == pc = "done" /\ UNCHANGED vars
-----------------------------------------------------------------------------
Outside ==
  \/ RequestStop
  \/ PauseOrResume
  \/ SetFocusHint
  \/ SetTarget
  \/ ForegroundChanges
  \/ LeaseChanges
  \/ UserKey

Worker ==
  \/ LoopEnds \/ LeaseExpires \/ StopSeen \/ PanicSeen
  \/ ReadHint \/ ReadPause
  \/ LoseFocus \/ KeepFocus \/ GraceRuns \/ RestoreBegins \/ Refocus
  \/ PauseManually \/ KeepManual \/ ResumeManually \/ Resume
  \/ RestoreReleased \/ PauseReleased \/ GateReleased \/ SuspendFails
  \/ PreflightPasses \/ PreflightFails
  \/ Poll \/ SkipStale \/ NothingToPlan \/ Plan \/ Prove
  \/ Due \/ WakeEarly \/ Drain
  \/ Admit \/ Final
  \/ Send \/ SendFails \/ SendTooLate \/ Recover \/ RecoverFails
  \/ FinalRelease \/ Verdict \/ Publish

Next == Outside \/ Signal \/ GraceElapses \/ Worker \/ QpcFails \/ Over

Spec == Init /\ [][Next]_vars

(***************************************************************************)
(* The worker thread is scheduled, a call that stored its flag goes on to  *)
(* signal, and the grace is a finite time.  Nobody has to press anything.  *)
(***************************************************************************)
Fairness ==
  /\ WF_vars(Worker)
  /\ WF_vars(Signal)
  /\ WF_vars(GraceElapses)

FairSpec == Spec /\ Fairness
-----------------------------------------------------------------------------
Labels ==
  {"top", "readPause", "focus", "restoreRelease", "restorePreflight",
   "refocus", "manual", "pauseRelease", "resumePreflight", "resume", "gate",
   "planPreflight", "proof", "wait", "drain", "admit", "gateRelease", "final",
   "send", "recover", "finalize", "verdict", "publish", "done"}

Errors ==
  {"none", "lease", "panic", "preroll", "release", "gate", "held",
   "inconclusive", "commit", "send", "late", "clock", "incomplete"}

(* Every variable of the worker and its surroundings stays in its type. *)
TypeOK ==
  /\ requests \subseteq {"quit", "skip", "panic"}
  /\ {wantPause, hint, lease, user, interrupt, started, live, missed,
      cancelled, keys, tracked, full, probed} \subseteq BOOLEAN
  /\ fore \in 0..MaxTarget
  /\ target \in 1..MaxTarget
  /\ verified \in 0..target
  /\ {signals, events} \subseteq 0..MaxEvents
  /\ pc \in Labels
  /\ frame \in [hint : BOOLEAN, pause : BOOLEAN, stamp : 0..target,
                up : BOOLEAN, late : BOOLEAN, refused : BOOLEAN]
  /\ reasons \subseteq {"Manual", "Focus"}
  /\ grace \in {"off", "running", "over"}
  /\ cursor \in 1..(Len(Song) + 1)
  /\ error \in Errors
  /\ outcome \in {"none", "error", "skipped", "quit", "finished"}

(***************************************************************************)
(* The masks of the input backend cover every key the worker holds down,   *)
(* through partial sends, unconfirmed releases and unfocused probes: what  *)
(* a tracked clean-up does not know of it would leave down for ever.       *)
(***************************************************************************)
KeysAreTracked == keys => tracked

(***************************************************************************)
(* While the loop runs, the ledger holds a live press exactly when a key   *)
(* is down: sends, misses and suspensions commit what they really did.     *)
(***************************************************************************)
LedgerMatchesKeys == ~ Stopping => (live <=> keys)

(***************************************************************************)
(* A session that reports finished, quit or skipped has lifted every key   *)
(* it pressed; a key can only stay down behind a reported error.           *)
(***************************************************************************)
StoppedMeansReleased ==
  outcome \in {"finished", "quit", "skipped"} => ~ keys

(***************************************************************************)
(* Finished means played to the end: no press is left over and none was    *)
(* given up by a pause.  (Presses that were missed are not left over.)     *)
(***************************************************************************)
FinishedIsComplete == outcome = "finished" => ~ AtPacket /\ ~ cancelled

(* A step that hands a press to SendInput and commits it. *)
Presses == pc = "send" /\ PressesNow /\ cursor' = cursor + 1

(***************************************************************************)
(* No key is pressed while the song is paused, nor on the strength of a    *)
(* preflight from before the last pause: between a pause and the next      *)
(* press the physical keys were probed again and found up.                 *)
(***************************************************************************)
PressIsProbed == [][Presses => reasons = {} /\ probed]_vars

(***************************************************************************)
(* The worker never sleeps through a command: if one arrived that this     *)
(* iteration has not seen, the wait is about to be interrupted.            *)
(***************************************************************************)
NoLostWakeup ==
  pc = "wait" /\ (requests # {} \/ wantPause \/ ~ hint)
    => interrupt \/ signals > 0

(***************************************************************************)
(* A request to stop ends the session, whatever the focus, the pauses and  *)
(* the lease do meanwhile.                                                 *)
(***************************************************************************)
StopTerminates == StopRequested ~> outcome # "none"

(***************************************************************************)
(* Once focus, foreground and pause button are settled in favour of        *)
(* playing, the song is played to its end or the session stops: no pause   *)
(* reason is left behind.                                                  *)
(***************************************************************************)
SongEnds ==
  <>[](hint /\ fore = target /\ ~ wantPause) => <>(outcome # "none")

(***************************************************************************)
(* Nothing is forgotten: the masks cover every key that is down, the       *)
(* ledger knows it while the loop runs, a session that ends without an     *)
(* error has lifted it, one that finished has left no press over, and no   *)
(* wait sleeps through a command (dispatch_loop.rs, wait.rs, cleanup.rs).  *)
(***************************************************************************)
NothingIsForgotten ==
  /\ KeysAreTracked
  /\ LedgerMatchesKeys
  /\ StoppedMeansReleased
  /\ FinishedIsComplete
  /\ NoLostWakeup

(***************************************************************************)
(* The session ends: a request to stop ends it, and so does the song when  *)
(* nothing keeps it from playing any more (dispatch_loop.rs, control.rs).  *)
(***************************************************************************)
PlaybackEnds == StopTerminates /\ SongEnds
=============================================================================
