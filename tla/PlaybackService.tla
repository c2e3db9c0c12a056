-------------------------- MODULE PlaybackService --------------------------
(***************************************************************************)
(* The desktop's playback service (native_runtime.rs): start, the commands *)
(* on the one active session, the supervisor thread that polls the player  *)
(* and publishes what it sees, and the shutdown.  The session's fields are *)
(* separate mutexes and atomics, so a command's reads and writes, and the  *)
(* supervisor's, are steps of their own.  The player is Session and Worker *)
(* seen from outside.  A session without a player is a dry run.            *)
(***************************************************************************)
EXTENDS Naturals, Sequences, FiniteSets

CONSTANTS
  MaxSessions,  \* bound on the sessions started
  MaxCalls,     \* bound on the commands issued, each on a thread of its own
  MaxInputs,    \* bound on both together
  MaxTurns      \* bound on the losses of focus

ASSUME BoundsAreNat == MaxSessions \in Nat /\ MaxCalls \in Nat /\ MaxInputs \in Nat /\ MaxTurns \in Nat

Sessions  == 1..MaxSessions   \* session ids, in the order of their starts
NoSession == 0
Calls     == 1..MaxCalls

VARIABLES
  started,   \* how many sessions there have been
  slot,      \* the active session
  closing,   \* the activity coordinator admits no playback any more
  state,     \* PlaybackSessionState of each session; "none" before its start
  pending,   \* the control that awaits its acknowledgement
  stop,      \* stop_requested
  skip,      \* skip_requested
  dry,       \* the session has no player
  mon,       \* where the supervisor of each session is
  last,      \* its last_event_state
  seen,      \* the status it has polled
  player,    \* the status of the player, or of the clock of a dry run
  want,      \* what it has been told: a subset of {"pause", "quit", "skip"}
  turns,     \* how often players have lost their focus
  call,      \* the commands: where each is, its method and its session
  said,      \* the last a supervisor told the user interface: <<session, kind, value>>
  hub        \* the event hub delivers

session == <<started, slot, closing, state, pending, stop, skip, dry>>
monitor == <<mon, last, seen>>
engine  == <<player, want, turns>>
ui      == <<said, hub>>
vars    == <<session, monitor, engine, call, ui>>

Methods == {"stop", "pause", "resume", "skip"}
Live    == {"starting", "playing", "paused"}
Ended   == {"finished", "skipped", "quit", "failed"}
NotYet  == [pc |-> "none", method |-> "none", s |-> NoSession]
Over    == [NotYet EXCEPT !.pc = "over"]

Init ==
  /\ started = 0
  /\ slot = NoSession
  /\ closing = FALSE
  /\ state = [s \in Sessions |-> "none"]
  /\ pending = [s \in Sessions |-> "none"]
  /\ stop = [s \in Sessions |-> FALSE]
  /\ skip = [s \in Sessions |-> FALSE]
  /\ dry = [s \in Sessions |-> FALSE]
  /\ mon = [s \in Sessions |-> "none"]
  /\ last = [s \in Sessions |-> "starting"]
  /\ seen = [s \in Sessions |-> "starting"]
  /\ player = [s \in Sessions |-> "none"]
  /\ want = [s \in Sessions |-> {}]
  /\ turns = 0
  /\ call = [c \in Calls |-> NotYet]
  /\ said = <<NoSession, "none", "none">>
  /\ hub = TRUE

\* NativeEventHub::publish to a subscriber: a failed send closes the hub.
\* What a command publishes is not recorded: it may come late.
Delivered    == hub /\ UNCHANGED hub
Undelivered  == hub' = FALSE /\ UNCHANGED said
Tells(s, kind, value) == Delivered /\ said' = <<s, kind, value>>
CommandTells == (Delivered /\ UNCHANGED said) \/ Undelivered

(***************************************************************************)
(* The player, from outside.                                               *)
(***************************************************************************)
Tell(s, word) == want' = [want EXCEPT ![s] = @ \cup {word}]

\* A player that has ended hears nothing any more.
Ends(s, end) ==
  /\ player' = [player EXCEPT ![s] = end]
  /\ want' = [want EXCEPT ![s] = {}]

PlayerPauses(s) ==
  /\ ~dry[s] /\ player[s] = "playing" /\ "pause" \in want[s]
  /\ player' = [player EXCEPT ![s] = "paused"]
  /\ UNCHANGED <<session, monitor, want, turns, call, ui>>

PlayerLosesFocus(s) ==
  /\ ~dry[s] /\ player[s] = "playing" /\ turns < MaxTurns
  /\ player' = [player EXCEPT ![s] = "paused"]
  /\ turns' = turns + 1
  /\ UNCHANGED <<session, monitor, want, call, ui>>

\* After the pre-roll, or when the window has its focus and nobody wants a pause.
PlayerPlays(s) ==
  /\ ~dry[s]
  /\ player[s] = "starting" \/ (player[s] = "paused" /\ "pause" \notin want[s])
  /\ player' = [player EXCEPT ![s] = "playing"]
  /\ UNCHANGED <<session, monitor, want, turns, call, ui>>

PlayerObeys(s) ==
  /\ ~dry[s] /\ player[s] \in Live
  /\ \/ "quit" \in want[s] /\ Ends(s, "quit")
     \/ "skip" \in want[s] /\ Ends(s, "skipped")
  /\ UNCHANGED <<session, monitor, turns, call, ui>>

\* A paused player does not finish, and a dry run cannot fail.
PlayerEnds(s) ==
  /\ player[s] \in Live
  /\ \/ ~dry[s] /\ Ends(s, "failed")
     \/ player[s] = "playing" /\ (dry[s] => "pause" \notin want[s]) /\ Ends(s, "finished")
  /\ UNCHANGED <<session, monitor, turns, call, ui>>

(***************************************************************************)
(* start.  The session's lease on the physical boundary lives as long as   *)
(* anyone holds the session: the slot, the supervisor or a command.        *)
(***************************************************************************)
Leased(s) ==
  /\ ~dry[s]
  /\ \/ slot = s
     \/ mon[s] \notin {"none", "over"}
     \/ \E c \in Calls : call[c].s = s

\* reserve_playback of the activity coordinator.
Reservable == ~closing /\ ~\E x \in Sessions : Leased(x)

\* The bound on starts and commands.
Bounded == started + Cardinality({c \in Calls : call[c] # NotYet}) < MaxInputs

Goto(s, pc)      == mon' = [mon EXCEPT ![s] = pc]
SetState(s, new) == state' = [state EXCEPT ![s] = new]

\* The session's record goes with the last who holds it; its player with it.
Dropped(s) ==
  IF \E c \in Calls : call[c].s = s
  THEN UNCHANGED <<state, pending, stop, skip, dry, last, seen, player, want>>
  ELSE /\ SetState(s, "none")
       /\ pending' = [pending EXCEPT ![s] = "none"]
       /\ stop' = [stop EXCEPT ![s] = FALSE]
       /\ skip' = [skip EXCEPT ![s] = FALSE]
       /\ last' = [last EXCEPT ![s] = "starting"]
       /\ seen' = [seen EXCEPT ![s] = "starting"]
       /\ player' = [player EXCEPT ![s] = IF ~dry[s] /\ @ \in Live THEN @ ELSE "none"]
       /\ want' = [want EXCEPT ![s] = {}]
       /\ dry' = [dry EXCEPT ![s] = FALSE]

Started(s) ==
  /\ Bounded /\ s = started + 1 /\ started' = s
  /\ \E d \in BOOLEAN :
       /\ ~d => Reservable
       /\ dry' = [dry EXCEPT ![s] = d]
       /\ player' = [player EXCEPT ![s] = IF d THEN "playing" ELSE "starting"]
  /\ SetState(s, "starting")
  /\ slot' = s
  /\ Goto(s, "born")
  /\ UNCHANGED <<closing, pending, stop, skip, last, seen, want, turns, call, ui>>

\* The slot's and the plans' locks are held from the look-up to the filled slot.
Start(s) == slot = NoSession /\ Started(s)

\* A player that cannot be created leaves an ordered trace.
StartFails(s) ==
  /\ Bounded /\ s = started + 1 /\ slot = NoSession /\ Reservable
  /\ SetState(s, "failed")
  /\ started' = s
  /\ Tells(s, "outcome", "failed") \/ Undelivered
  /\ UNCHANGED <<slot, closing, pending, stop, skip, dry, monitor, engine, call>>

\* A plausible bug: nobody waits for the player that has been told to quit.
BugJoined(s) == Tell(s, "quit") /\ UNCHANGED player

\* quit, or panic_release and quit, then join; a dry run has nothing to join.
Joined(s) == IF dry[s] \/ player[s] \notin Live THEN UNCHANGED <<player, want>> ELSE Ends(s, "quit")

\* The first event and the spawn of the supervisor.
StartPublishes(s) ==
  /\ mon[s] = "born"
  /\ \/ /\ Tells(s, "state", "starting")
        /\ \/ Goto(s, "loop") /\ UNCHANGED <<player, want>>
           \/ Goto(s, "unstart") /\ Joined(s)
     \/ Undelivered /\ Goto(s, "unstart") /\ Joined(s)
  /\ UNCHANGED <<session, last, seen, turns, call>>

\* If one of them failed the slot is emptied.
Unstart(s) ==
  /\ mon[s] = "unstart"
  /\ slot' = IF slot = s THEN NoSession ELSE slot
  /\ Goto(s, "over")
  /\ Dropped(s)
  /\ UNCHANGED <<started, closing, turns, call, ui>>

(***************************************************************************)
(* monitor: the loop of the supervisor.                                    *)
(***************************************************************************)
\* poll_state, or for a dry run what its clock and its state say.
Status(s) ==
  IF dry[s] /\ player[s] \in Live
  THEN IF state[s] = "paused" THEN "paused" ELSE "playing"
  ELSE player[s]

\* cleanup_failed_event_delivery, after which the loop is left.
Cleanup(s) ==
  /\ stop' = [stop EXCEPT ![s] = TRUE]
  /\ SetState(s, "failed")
  /\ Joined(s)
  /\ Goto(s, "leave")

\* A delivery goes on to pc, or fails and is cleaned up after.
Then(s, delivery, pc) ==
  \/ delivery /\ Goto(s, pc) /\ UNCHANGED <<state, stop, player, want>>
  \/ Undelivered /\ Cleanup(s)

\* A stop request: the player is joined, then publish_stopped_completion.
MonitorStops(s) ==
  /\ mon[s] = "loop" /\ stop[s]
  /\ Joined(s)
  /\ SetState(s, "finished")
  /\ \/ Tells(s, "state", "finished") /\ Goto(s, IF skip[s] THEN "skipreport" ELSE "quitreport")
     \/ Undelivered /\ Goto(s, "failed")
  /\ UNCHANGED <<started, slot, closing, pending, stop, skip, dry, last, seen, turns, call>>

MonitorFails(s) ==
  /\ mon[s] = "failed"
  /\ Cleanup(s)
  /\ UNCHANGED <<started, slot, closing, pending, skip, dry, last, seen, turns, call, ui>>

\* publish_terminal_poll_result: the state and its event, then the outcome.
MonitorEnds(s) ==
  LET new == IF seen[s] = "failed" THEN "failed" ELSE "finished"
  IN  /\ mon[s] = "terminal"
      /\ SetState(s, new)
      /\ \/ Tells(s, "state", new) /\ Goto(s, "endreport")
         \/ Undelivered /\ Goto(s, "failed")
      /\ UNCHANGED <<started, slot, closing, pending, stop, skip, dry, last, seen, engine, call>>

\* terminal_success_outcome; the outcome of a stop was chosen before.
Verdict(s) ==
  CASE mon[s] = "quitreport" -> "quit"
    [] mon[s] = "skipreport" -> "skipped"
    [] seen[s] = "finished" /\ skip[s] -> "skipped"
    [] OTHER -> seen[s]

Reporting == {"quitreport", "skipreport", "endreport"}

\* A plausible bug: the loop is not left and finds a stop request.
BugMonitorReports(s) ==
  /\ mon[s] \in Reporting
  /\ Then(s, Tells(s, "outcome", Verdict(s)), IF stop[s] /\ mon[s] = "endreport" THEN "loop" ELSE "leave")
  /\ UNCHANGED <<started, slot, closing, pending, skip, dry, last, seen, turns, call>>

MonitorReports(s) ==
  /\ mon[s] \in Reporting
  /\ Then(s, Tells(s, "outcome", Verdict(s)), "leave")
  /\ seen' = [seen EXCEPT ![s] = "starting"]
  /\ UNCHANGED <<started, slot, closing, pending, skip, dry, last, turns, call>>

\* The focus hint, the heartbeat and the poll.
MonitorPolls(s) ==
  /\ mon[s] = "loop" /\ ~stop[s] /\ Status(s) # last[s]
  /\ seen' = [seen EXCEPT ![s] = Status(s)]
  /\ Goto(s, IF Status(s) \in Ended THEN "terminal" ELSE "change")
  /\ UNCHANGED <<session, last, engine, call, ui>>

\* The snapshot, of the position or the diagnostics, may fail to be delivered.
SnapshotFails(s) ==
  /\ mon[s] = "loop" /\ ~stop[s] /\ Status(s) = last[s]
  /\ Undelivered /\ Cleanup(s)
  /\ UNCHANGED <<started, slot, closing, pending, skip, dry, last, seen, turns, call>>

MonitorSetsState(s) ==
  /\ mon[s] = "change"
  /\ SetState(s, seen[s])
  /\ Goto(s, "announce")
  /\ UNCHANGED <<started, slot, closing, pending, stop, skip, dry, last, seen, engine, call, ui>>

\* The pending control is answered by the state it asked for.
MonitorAnnounces(s) ==
  /\ mon[s] = "announce"
  /\ pending' = [pending EXCEPT ![s] =
                   IF <<seen[s], @>> \in {<<"paused", "pause">>, <<"playing", "resume">>} THEN "none" ELSE @]
  /\ Then(s, Tells(s, "state", seen[s]), "loop")
  /\ last' = [last EXCEPT ![s] = seen[s]]
  /\ seen' = [seen EXCEPT ![s] = "starting"]
  /\ UNCHANGED <<started, slot, closing, skip, dry, turns, call>>

\* The slot is emptied, then last_terminal and done are set.
MonitorLeaves(s) ==
  /\ mon[s] = "leave"
  /\ slot' = IF slot = s THEN NoSession ELSE slot
  /\ Goto(s, "record")
  /\ UNCHANGED <<started, closing, state, pending, stop, skip, dry, last, seen, engine, call, ui>>

MonitorRecords(s) ==
  /\ mon[s] = "record"
  /\ Goto(s, "over")
  /\ Dropped(s)
  /\ UNCHANGED <<started, slot, closing, turns, call, ui>>

MonitorStep(s) ==
  \/ MonitorStops(s) \/ MonitorFails(s) \/ MonitorEnds(s) \/ MonitorReports(s) \/ MonitorPolls(s)
  \/ MonitorSetsState(s) \/ MonitorAnnounces(s) \/ MonitorLeaves(s) \/ MonitorRecords(s)

(***************************************************************************)
(* command: the session is looked up, its state read, and what the state   *)
(* admits is done lock by lock.                                            *)
(***************************************************************************)
At(c, pc)       == call[c].pc = pc
CallGoes(c, pc) == call' = [call EXCEPT ![c].pc = pc]
Returns(c)      == call' = [call EXCEPT ![c] = Over]
Begins(c, m, pc) == call' = [call EXCEPT ![c] = [pc |-> pc, method |-> m, s |-> slot]]

\* A caller turns up.
Issued(c) == Bounded /\ At(c, "none") /\ (c > 1 => ~At(c - 1, "none"))

\* What each method requires of the state it reads.
Admits(m) ==
  CASE m = "pause"  -> {"playing"}
    [] m = "resume" -> {"paused"}
    [] OTHER        -> Live

CommandBegins(c) ==
  /\ Issued(c) /\ slot # NoSession
  /\ \E m \in Methods : state[slot] \in Admits(m) /\ Begins(c, m, m)
  /\ UNCHANGED <<session, monitor, engine, ui>>

CommandStops(c) ==
  /\ At(c, "stop") \/ At(c, "onlystop")
  /\ stop' = [stop EXCEPT ![call[c].s] = TRUE]
  /\ CallGoes(c, IF At(c, "stop") THEN "clear" ELSE "finish")
  /\ UNCHANGED <<started, slot, closing, state, pending, skip, dry, monitor, engine, ui>>

\* stop and shutdown forget the control that was pending.
CommandSetsStopping(c) ==
  /\ At(c, "clear")
  /\ pending' = [pending EXCEPT ![call[c].s] = "none"]
  /\ SetState(call[c].s, "stopping")
  /\ CallGoes(c, IF call[c].method = "shutdown" THEN "say" ELSE "quit")
  /\ UNCHANGED <<started, slot, closing, stop, skip, dry, monitor, engine, ui>>

\* A player that has ended refuses every command; a poisoned one only some.
Refuses(s) == ~dry[s] /\ player[s] \notin Live

CommandQuits(c) ==
  LET s == call[c].s
  IN  /\ At(c, "quit")
      /\ \/ Refuses(s) /\ Returns(c) /\ UNCHANGED want
         \/ (dry[s] \/ player[s] = "failed") /\ CallGoes(c, "say") /\ UNCHANGED want
         \/ ~Refuses(s) /\ ~dry[s] /\ Tell(s, "quit") /\ CallGoes(c, "say")
      /\ UNCHANGED <<session, monitor, player, turns, ui>>

\* publish_playback_state(Stopping), also when the session is long over.
CommandSays(c) ==
  /\ At(c, "say")
  /\ CommandTells
  /\ IF call[c].method = "shutdown" THEN CallGoes(c, "finish") ELSE Returns(c)
  /\ UNCHANGED <<session, monitor, engine>>

\* So does skip, which tells the player or, in a dry run, the supervisor.
CommandForgets(c) ==
  /\ At(c, "skip")
  /\ pending' = [pending EXCEPT ![call[c].s] = "none"]
  /\ CallGoes(c, "flag")
  /\ UNCHANGED <<started, slot, closing, state, stop, skip, dry, monitor, engine, ui>>

CommandSkips(c) ==
  LET s == call[c].s
  IN  /\ At(c, "flag")
      /\ skip' = [skip EXCEPT ![s] = TRUE]
      /\ stop' = [stop EXCEPT ![s] = @ \/ dry[s]]
      /\ \/ ~dry[s] /\ player[s] \in Live /\ Tell(s, "skip")
         \/ (dry[s] \/ Refuses(s)) /\ UNCHANGED want
      /\ Returns(c)
      /\ UNCHANGED <<started, slot, closing, state, pending, dry, monitor, player, turns, ui>>

\* pause and resume: one control awaits its acknowledgement at a time.
CommandPends(c) ==
  LET m == call[c].method  s == call[c].s
  IN  /\ At(c, "pause") \/ At(c, "resume")
      /\ \/ pending[s] # "none" /\ Returns(c) /\ UNCHANGED pending
         \/ pending[s] = "none" /\ pending' = [pending EXCEPT ![s] = m] /\ CallGoes(c, "control")
      /\ UNCHANGED <<started, slot, closing, state, stop, skip, dry, monitor, engine, ui>>

\* The player, or the clock of a dry run, is told.
CommandControls(c) ==
  LET m == call[c].method  s == call[c].s
  IN  /\ At(c, "control")
      /\ \/ /\ ~Refuses(s)
            /\ want' = [want EXCEPT ![s] = IF m = "pause" THEN @ \cup {"pause"} ELSE @ \ {"pause"}]
            /\ IF dry[s] THEN CallGoes(c, "setstate") ELSE Returns(c)
            /\ UNCHANGED pending
         \/ /\ Refuses(s)
            /\ pending' = [pending EXCEPT ![s] = "none"]
            /\ Returns(c)
            /\ UNCHANGED want
      /\ UNCHANGED <<started, slot, closing, state, stop, skip, dry, monitor, player, turns, ui>>

\* A dry run's command sets and announces the state itself.
CommandSetsState(c) ==
  /\ At(c, "setstate")
  /\ SetState(call[c].s, IF call[c].method = "pause" THEN "paused" ELSE "playing")
  /\ CommandTells
  /\ Returns(c)
  /\ UNCHANGED <<started, slot, closing, pending, stop, skip, dry, monitor, engine>>

(***************************************************************************)
(* shutdown: the admission is closed first, then the session is looked up  *)
(* and stopped, and its end is awaited for a bounded time.                 *)
(***************************************************************************)
Looks(c) ==
  Begins(c, "shutdown", CASE slot = NoSession -> "closed"
                          [] slot # NoSession /\ state[slot] \in Live -> "stop"
                          [] OTHER -> "onlystop")

ShutdownCloses(c) ==
  /\ Issued(c) /\ ~closing
  /\ closing' = TRUE
  /\ call' = [call EXCEPT ![c] = [NotYet EXCEPT !.pc = "lookup"]]
  /\ UNCHANGED <<started, slot, state, pending, stop, skip, dry, monitor, engine, ui>>

ShutdownLooks(c) ==
  /\ At(c, "lookup")
  /\ Looks(c)
  /\ UNCHANGED <<session, monitor, engine, ui>>

ShutdownJoins(c) ==
  /\ At(c, "finish")
  /\ Joined(call[c].s)
  /\ CallGoes(c, "await")
  /\ UNCHANGED <<session, monitor, turns, ui>>

\* done is set, or five seconds have passed.
ShutdownReturns(c) ==
  /\ At(c, "await")
  /\ call' = [call EXCEPT ![c].pc = "closed", ![c].s = NoSession]
  /\ UNCHANGED <<session, monitor, engine, ui>>

(***************************************************************************)
(* The specification.                                                      *)
(***************************************************************************)
CommandStep(c) ==
  \/ CommandStops(c) \/ CommandSetsStopping(c) \/ CommandQuits(c) \/ CommandSays(c)
  \/ CommandForgets(c) \/ CommandSkips(c) \/ CommandPends(c) \/ CommandControls(c) \/ CommandSetsState(c)
  \/ ShutdownLooks(c) \/ ShutdownJoins(c) \/ ShutdownReturns(c)

Next ==
  \/ \E s \in Sessions :
       \/ Start(s) \/ StartFails(s) \/ StartPublishes(s) \/ Unstart(s)
       \/ MonitorStep(s) \/ SnapshotFails(s)
       \/ PlayerPauses(s) \/ PlayerLosesFocus(s) \/ PlayerPlays(s) \/ PlayerObeys(s) \/ PlayerEnds(s)
  \/ \E c \in Calls : CommandBegins(c) \/ ShutdownCloses(c) \/ CommandStep(c)

Spec == Init /\ [][Next]_vars

\* Threads run on and a player obeys (Worker.StopTerminates); nothing makes
\* a song end, a window get or lose its focus, a delivery fail or a user call.
Fairness ==
  /\ \A s \in Sessions :
       /\ WF_vars(StartPublishes(s)) /\ WF_vars(Unstart(s)) /\ WF_vars(MonitorStep(s))
       /\ WF_vars(PlayerPauses(s)) /\ WF_vars(PlayerObeys(s))
  /\ \A c \in Calls : WF_vars(CommandStep(c))

FairSpec == Spec /\ Fairness

(***************************************************************************)
(* Properties.                                                             *)
(***************************************************************************)
MonitorPcs ==
  {"none", "born", "unstart", "loop", "failed", "terminal", "change", "announce", "leave", "record", "over"}
    \cup Reporting

\* Every variable has its type, and a session that is not ended is held by
\* its supervisor: what the slot points at always has someone to empty it.
TypeOK ==
  /\ slot \in Sessions \cup {NoSession}
  /\ state \in [Sessions -> Live \cup {"none", "stopping", "finished", "failed"}]
  /\ pending \in [Sessions -> {"none", "pause", "resume"}]
  /\ mon \in [Sessions -> MonitorPcs]
  /\ player \in [Sessions -> Live \cup Ended \cup {"none"}]
  /\ want \in [Sessions -> SUBSET {"pause", "quit", "skip"}]
  /\ started \in 0..MaxSessions /\ turns \in 0..MaxTurns
  /\ slot # NoSession => mon[slot] \notin {"none", "record", "over"}

\* The user interface sees one session at a time: once a session has been
\* announced, the supervisor of an earlier one says nothing more.
SessionsDoNotInterleave == [][said'[1] >= said[1]]_said

\* The report of the outcome is the supervisor's last word.
ReportIsLast == [][said[2] = "outcome" => said'[1] # said[1]]_said

\* A supervisor that is gone leaves no player behind that could still press keys.
NoOrphanPlayer ==
  \A s \in Sessions : mon[s] \in {"leave", "record", "over"} /\ ~dry[s] => player[s] \notin Live

\* The reported outcome is what the player did, or what the user asked for.
Justified(s, outcome) ==
  CASE outcome = "finished" -> player[s] = "finished"
    [] outcome = "failed"   -> player[s] \in {"none", "failed"}
    [] outcome = "skipped"  -> skip[s]
    [] OTHER                -> stop[s] \/ player[s] = "quit"

OutcomeIsTrue == [][said'[2] = "outcome" => Justified(said'[1], said'[3])]_said

\* When the shutdown has returned no player lives and none is born again,
\* however starts and commands came between its steps.
ShutdownSilences ==
  (\E c \in Calls : At(c, "closed")) => \A s \in Sessions : dry[s] \/ player[s] \notin Live

\* No player is left without its supervisor, and none after the shutdown, however
\* starts, stops and the shutdown came between each other's steps
\* (native_runtime.rs:3486-3600, 3840-3876).
PlayersAreOwned == NoOrphanPlayer /\ ShutdownSilences

\* What the user interface is told of the sessions is in order and true: one after
\* the other, the outcome last, and the outcome what the player did or the user
\* asked for (native_runtime.rs monitor).
ReportsAreInOrder == SessionsDoNotInterleave /\ ReportIsLast /\ OutcomeIsTrue
=============================================================================
