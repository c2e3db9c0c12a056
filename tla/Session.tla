------------------------------- MODULE Session -------------------------------
(***************************************************************************)
(* The session handle of sky_player (engine/session.rs): arm, join, polls, *)
(* stop commands and telemetry, called from several threads, against the   *)
(* worker thread that boots, plays, finalizes and publishes its end.       *)
(*                                                                         *)
(* Every atomic word is read and written in a step of its own, in the      *)
(* order of the code; the progress clock is the module ProgressClock.      *)
(* What the worker does while it plays is the module Worker; here it only  *)
(* publishes anchors and ends.                                             *)
(***************************************************************************)
EXTENDS ProgressClock, Sequences, FiniteSets

CONSTANTS
  Stops,            \* the stop commands callers use
  MaxCalls,         \* bound: calls made on the session
  MaxTurns          \* bound: calls and publications together

ASSUME SessionAssumption ==
  /\ Stops \subseteq {"skip", "quit"}
  /\ MaxCalls \in Nat /\ MaxTurns \in Nat

Callers == Readers

VARIABLES
  lifecycle,        \* "new", "running", "finished" or "poisoned"
  outcome,          \* terminal_outcome
  panicked,         \* metrics.panicked
  done,             \* the completed flag behind the condition variable
  config,           \* is the configuration still there
  handle,           \* thread_handle: "none", "stored" or "taken"
  telemetry,        \* telemetry_output: "none", "there" or "taken"
  stop,             \* the stop requests stored so far
  terminal,         \* number of the frozen publication, 0 before it
  thread,           \* the worker thread
  call,             \* the call each caller is in, or its last result
  calls             \* number of calls begun

words == <<lifecycle, outcome, panicked, done, config, handle, telemetry, stop>>

vars == <<clockVars, lifecycle, outcome, panicked, done, config, handle,
          telemetry, stop, terminal, thread, call, calls>>

Ops == {"arm", "join", "poll", "telemetry"} \cup Stops

\* The stores at the end of the thread's closure, in order.
ReturnOrder == <<"outcome", "panicked", "lifecycle", "done", "gone">>

After(step) ==
  ReturnOrder[1 + CHOOSE i \in 1 .. Len(ReturnOrder) - 1 : ReturnOrder[i] = step]

NoCall == [op |-> "none", at |-> "idle", seen |-> "none", result |-> "none"]

Unborn == [at |-> "unborn", booted |-> FALSE, end |-> "played", result |-> "none"]

Init ==
  /\ ClockInit
  /\ lifecycle = "new" /\ outcome = "none" /\ panicked = FALSE /\ done = FALSE
  /\ config = TRUE /\ handle = "none" /\ telemetry = "none" /\ stop = {}
  /\ terminal = 0
  /\ thread = Unborn
  /\ call = [c \in Callers |-> NoCall]
  /\ calls = 0

-----------------------------------------------------------------------------
(* Callers.                                                                *)

\* The sequence counts the beginnings and the ends of publications.
WithinTurns == calls + (sequence + 1) \div 2 < MaxTurns

\* A call begins with its first step.
Begin(c) ==
  /\ calls < MaxCalls /\ WithinTurns /\ calls' = calls + 1
  /\ call[c].at = "idle"

In(c, op, at) == call[c].op = op /\ call[c].at = at

Goto(c, at) == call' = [call EXCEPT ![c].at = at]

Starts(c, op, at) ==
  call' = [call EXCEPT ![c] = [op |-> op, at |-> at, seen |-> "none", result |-> "none"]]

Refused(c, op) ==
  call' = [call EXCEPT ![c] = [op |-> op, at |-> "idle", seen |-> "none", result |-> "error"]]

Return(c, result) ==
  call' = [call EXCEPT ![c].at = "idle", ![c].seen = "none", ![c].result = result]

ArmCas(c) ==
  /\ Begin(c)
  /\ IF lifecycle = "new"
       THEN lifecycle' = "running" /\ Starts(c, "arm", "config")
       ELSE Refused(c, "arm") /\ UNCHANGED lifecycle
  /\ UNCHANGED <<clockVars, outcome, panicked, done, config, handle, telemetry,
                 stop, terminal, thread>>

ArmTakesConfig(c) ==
  /\ In(c, "arm", "config")
  /\ config' = FALSE
  /\ IF config
       THEN Goto(c, "spawn") /\ UNCHANGED lifecycle
       ELSE Return(c, "error") /\ lifecycle' = "poisoned"
  /\ UNCHANGED <<clockVars, outcome, panicked, done, handle, telemetry, stop,
                 terminal, thread, calls>>

\* The thread starts, or the system refuses and nothing will ever complete.
ArmSpawns(c) ==
  /\ In(c, "arm", "spawn")
  /\ \/ /\ thread' = [thread EXCEPT !.at = "boot"]
        /\ Goto(c, "handle")
        /\ UNCHANGED lifecycle
     \/ /\ lifecycle' = "poisoned"
        /\ Return(c, "error")
        /\ UNCHANGED thread
  /\ UNCHANGED <<clockVars, outcome, panicked, done, config, handle, telemetry,
                 stop, terminal, calls>>

ArmStoresHandle(c) ==
  /\ In(c, "arm", "handle")
  /\ handle' = "stored"
  /\ Return(c, "ok")
  /\ UNCHANGED <<clockVars, lifecycle, outcome, panicked, done, config,
                 telemetry, stop, terminal, thread, calls>>

JoinChecks(c) ==
  /\ Begin(c)
  /\ IF lifecycle = "new" THEN Refused(c, "join") ELSE Starts(c, "join", "wait")
  /\ UNCHANGED <<clockVars, words, terminal, thread>>

JoinTimesOut(c) ==
  /\ In(c, "join", "wait") /\ ~done
  /\ Return(c, "timeout")
  /\ UNCHANGED <<clockVars, words, terminal, thread, calls>>

\* The handle is taken once; it may not be stored yet.
JoinWakes(c) ==
  /\ In(c, "join", "wait") /\ done
  /\ IF handle = "stored"
       THEN handle' = "taken" /\ Goto(c, "thread")
       ELSE Return(c, "ok") /\ UNCHANGED handle
  /\ UNCHANGED <<clockVars, lifecycle, outcome, panicked, done, config,
                 telemetry, stop, terminal, thread, calls>>

JoinsThread(c) ==
  /\ In(c, "join", "thread") /\ thread.at = "gone"
  /\ Return(c, "ok")
  /\ UNCHANGED <<clockVars, words, terminal, thread, calls>>

PollReadsLifecycle(c) ==
  /\ Begin(c)
  /\ call' = [call EXCEPT ![c] = [op |-> "poll", at |-> "anchor", seen |-> lifecycle,
                                  result |-> "none"]]
  /\ UNCHANGED <<clockVars, words, terminal, thread>>

PollLoads(c) ==
  /\ In(c, "poll", "anchor")
  /\ Load(c)
  /\ IF reader'[c].step = "idle" THEN Goto(c, "status") ELSE UNCHANGED call
  /\ UNCHANGED <<words, terminal, thread, calls>>

\* MUTANT: the lifecycle is read again when the anchor is already loaded.
BugSeen(c) == lifecycle

\* The lifecycle the poll works with was read before the anchor.
Seen(c) == call[c].seen

\* poll_status: the outcome and the panic flag are read last.
PollReadsStatus(c) ==
  /\ In(c, "poll", "status")
  /\ Return(c, CASE Seen(c) = "finished" ->
                      IF outcome = "none" THEN "finished" ELSE outcome
                 [] Seen(c) = "poisoned" ->
                      IF panicked THEN "panicked" ELSE "poisoned"
                 [] OTHER -> Seen(c))
  /\ UNCHANGED <<clockVars, words, terminal, thread, calls>>

Commandable == lifecycle \in {"running", "poisoned"}

\* skip and quit look at the lifecycle, store the request and look again.
StopChecks(c, op) ==
  /\ Begin(c)
  /\ IF Commandable THEN Starts(c, op, "store") ELSE Refused(c, op)
  /\ UNCHANGED <<clockVars, words, terminal, thread>>

StopStores(c, op) ==
  /\ In(c, op, "store")
  /\ stop' = stop \cup {op}
  /\ Goto(c, "signal")
  /\ UNCHANGED <<clockVars, lifecycle, outcome, panicked, done, config, handle,
                 telemetry, terminal, thread, calls>>

StopSignals(c, op) ==
  /\ In(c, op, "signal")
  /\ Return(c, IF Commandable THEN "ok" ELSE "error")
  /\ UNCHANGED <<clockVars, words, terminal, thread, calls>>

TakeTelemetry(c) ==
  /\ Begin(c)
  /\ done
  /\ Starts(c, "telemetry", "idle")
  /\ telemetry' = IF telemetry = "there" THEN "taken" ELSE telemetry
  /\ UNCHANGED <<clockVars, lifecycle, outcome, panicked, done, config, handle,
                 stop, terminal, thread>>

CallStarts(c) ==
  \/ ArmCas(c) \/ JoinChecks(c) \/ PollReadsLifecycle(c) \/ TakeTelemetry(c)
  \/ \E op \in Stops : StopChecks(c, op)

CallStep(c) ==
  \/ ArmTakesConfig(c) \/ ArmSpawns(c) \/ ArmStoresHandle(c)
  \/ JoinTimesOut(c) \/ JoinWakes(c) \/ JoinsThread(c)
  \/ PollLoads(c) \/ PollReadsStatus(c)
  \/ \E op \in Stops : StopStores(c, op) \/ StopSignals(c, op)

-----------------------------------------------------------------------------
(* The worker thread.                                                      *)

\* boot::initialize: an admission failure returns the exit code 1, which the
\* closure stores as the outcome; 1 is OUTCOME_FINISHED.
BootRefuses ==
  /\ thread.at = "boot"
  /\ thread' = [thread EXCEPT !.at = ReturnOrder[1], !.result = "finished"]
  /\ UNCHANGED <<clockVars, words, terminal, call, calls>>

\* A panic that nothing inside the worker catches: in the boot, or in the
\* finalization before telemetry is out.
Panics ==
  /\ thread.at \in {"boot", "finalize", "telemetry"}
  /\ thread' = [thread EXCEPT !.at = ReturnOrder[1], !.result = "error",
                              !.end = "panicked"]
  /\ UNCHANGED <<clockVars, words, terminal, call, calls>>

Publishes ==
  /\ WithinTurns /\ BeginPublish
  /\ UNCHANGED <<words, terminal, call, calls>>

\* The first anchor.
BootPublishes ==
  /\ thread.at = "boot" /\ thread' = [thread EXCEPT !.at = "booting"]
  /\ Publishes

\* The anchor of a pause, or of its end.
PauseOrResume ==
  /\ thread.at = "playing" /\ thread' = [thread EXCEPT !.at = "publishing"]
  /\ Publishes

\* The frozen anchor.
Freeze ==
  /\ thread.at = "finalize" /\ thread' = [thread EXCEPT !.at = "freezing"]
  /\ Publishes

Publishing == thread.at \in {"booting", "publishing", "freezing"}

PublishStep ==
  /\ Publishing
  /\ \/ /\ \E w \in Words : StoreWord(w)
        /\ UNCHANGED <<terminal, thread>>
     \/ /\ EndPublish
        /\ IF thread.at = "freezing"
             THEN /\ terminal' = published'
                  /\ thread' = [thread EXCEPT !.at = "telemetry"]
             ELSE /\ thread' = [thread EXCEPT !.at = "playing", !.booted = TRUE]
                  /\ UNCHANGED terminal
  /\ UNCHANGED <<words, call, calls>>

\* The dispatch loop ends: by itself, with an error, or by a panic that
\* finalization carries on.
LoopEnds ==
  /\ thread.at = "playing"
  /\ \E end \in {"played", "failed", "panicked"} :
       thread' = [thread EXCEPT !.at = "finalize", !.end = end]
  /\ UNCHANGED <<clockVars, words, terminal, call, calls>>

\* Without a clock there is no frozen anchor, and that is an error.
FreezeFails ==
  /\ thread.at = "finalize"
  /\ thread' = [thread EXCEPT !.at = "telemetry",
                              !.end = IF @ = "played" THEN "failed" ELSE @]
  /\ UNCHANGED <<clockVars, words, terminal, call, calls>>

PublishTelemetry ==
  /\ thread.at = "telemetry"
  /\ telemetry' = "there"
  /\ thread' = [thread EXCEPT !.at = "return"]
  /\ UNCHANGED <<clockVars, lifecycle, outcome, panicked, done, config, handle,
                 stop, terminal, call, calls>>

Returns ==
  /\ thread.at = "return"
  /\ thread' = [thread EXCEPT
       !.at = ReturnOrder[1],
       !.result = IF thread.end # "played" THEN "error"
                  ELSE IF "skip" \in stop THEN "skip"
                  ELSE IF "quit" \in stop THEN "quit"
                  ELSE "finished"]
  /\ UNCHANGED <<clockVars, words, terminal, call, calls>>

StoreOutcome ==
  /\ thread.at = "outcome"
  /\ outcome' = thread.result
  /\ thread' = [thread EXCEPT !.at = After("outcome")]
  /\ UNCHANGED <<clockVars, lifecycle, panicked, done, config, handle,
                 telemetry, stop, terminal, call, calls>>

StorePanicked ==
  /\ thread.at = "panicked"
  /\ panicked' = (thread.end = "panicked")
  /\ thread' = [thread EXCEPT !.at = After("panicked")]
  /\ UNCHANGED <<clockVars, lifecycle, outcome, done, config, handle,
                 telemetry, stop, terminal, call, calls>>

StoreLifecycle ==
  /\ thread.at = "lifecycle"
  /\ lifecycle' = IF thread.end = "panicked" THEN "poisoned"
                  ELSE IF lifecycle = "running" THEN "finished" ELSE lifecycle
  /\ thread' = [thread EXCEPT !.at = After("lifecycle")]
  /\ UNCHANGED <<clockVars, outcome, panicked, done, config, handle,
                 telemetry, stop, terminal, call, calls>>

\* MUTANT: a worker that panicked wakes nobody.
BugStoreDone ==
  /\ thread.at = "done"
  /\ done' = (thread.end # "panicked")
  /\ thread' = [thread EXCEPT !.at = After("done")]
  /\ UNCHANGED <<clockVars, lifecycle, outcome, panicked, config, handle,
                 telemetry, stop, terminal, call, calls>>

StoreDone ==
  /\ thread.at = "done"
  /\ done' = TRUE
  /\ thread' = [thread EXCEPT !.at = After("done")]
  /\ UNCHANGED <<clockVars, lifecycle, outcome, panicked, config, handle,
                 telemetry, stop, terminal, call, calls>>

ThreadStep ==
  \/ BootRefuses \/ BootPublishes \/ Panics \/ PauseOrResume \/ PublishStep
  \/ LoopEnds \/ Freeze \/ FreezeFails \/ PublishTelemetry \/ Returns
  \/ StoreOutcome \/ StorePanicked \/ StoreLifecycle \/ StoreDone

-----------------------------------------------------------------------------
Next ==
  \/ \E c \in Callers : CallStarts(c) \/ CallStep(c)
  \/ ThreadStep

\* The worker's thread is scheduled; that a song ends is Worker's SongEnds.  The
\* end waits for no caller, so nothing is asked of theirs.
Spec ==
  /\ Init /\ [][Next]_vars
  /\ WF_vars(ThreadStep) /\ WF_vars(LoopEnds)

-----------------------------------------------------------------------------
TypeOK ==
  /\ lifecycle \in {"new", "running", "finished", "poisoned"}
  /\ outcome \in {"none", "finished", "quit", "skip", "error"}
  /\ {panicked, done, config} \subseteq BOOLEAN
  /\ handle \in {"none", "stored", "taken"}
  /\ telemetry \in {"none", "there", "taken"}
  /\ stop \subseteq Stops
  /\ terminal \in 0 .. MaxPublications
  /\ \A c \in Callers : call[c].op \in Ops \cup {"none"}
  /\ Cardinality({c \in Callers : In(c, "join", "thread")}) <= 1

Polled(c, statuses) ==
  call[c].op = "poll" /\ call[c].at = "idle" /\ call[c].result \in statuses

\* A poll that reports an end reports the one the worker returned, although it
\* reads the lifecycle and the outcome separately (session.rs poll_status takes
\* a missing outcome for "finished").
PollTellsTheOutcome ==
  \A c \in Callers :
    Polled(c, {"finished", "quit", "skip", "error"}) =>
      call[c].result = outcome /\ outcome = thread.result

\* A poll that reports the end of a song that played returns the frozen
\* position: nothing published before the end comes after it.
EndedPositionIsFrozen ==
  \A c \in Callers :
    Polled(c, {"finished", "quit", "skip"}) /\ thread.booted =>
      terminal # 0 /\ reader[c].got = Whole(terminal)

\* A panic is never taken for a thread that did not start.
PoisonedMeansUnborn ==
  \A c \in Callers : Polled(c, {"poisoned"}) => thread.at = "unborn"

\* After a join nothing of the session changes any more, and the telemetry of a
\* worker that reached its end can be fetched, even for the joiner that finds
\* the handle gone or not yet stored.
JoinedMeansOver ==
  \A c \in Callers :
    call[c].op = "join" /\ call[c].at = "idle" /\ call[c].result = "ok" =>
      /\ lifecycle \in {"finished", "poisoned"}
      /\ outcome = thread.result /\ outcome # "none"
      /\ thread.booted /\ thread.end # "panicked" => telemetry # "none"

\* Once the worker thread exists the session comes to its end, panics included:
\* a joiner that waits long enough is woken.
SessionCompletes == (thread.at # "unborn") ~> done

\* Whatever the interleaving with the worker's last steps, a caller is told of the
\* end as it was: the outcome of a poll, the frozen position, a thread that never
\* was, and the results a join waits for (session.rs:190-330).
CallersSeeTheEnd ==
  PollTellsTheOutcome /\ EndedPositionIsFrozen /\ PoisonedMeansUnborn /\ JoinedMeansOver
=============================================================================
