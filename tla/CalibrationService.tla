------------------------- MODULE CalibrationService -------------------------
(***************************************************************************)
(* The desktop's calibration service (native_runtime.rs): a command thread *)
(* starts an operation and its worker, another cancels it, the worker runs *)
(* a child process and publishes its result through a gate that admits one *)
(* commit at a time, and the shutdown closes that gate.  Playback shares   *)
(* the Activity coordinator and the prepared plans, which a successful     *)
(* calibration replaces the basis of.                                      *)
(***************************************************************************)
EXTENDS Activity, PreparedPlans, FiniteSets

CONSTANTS
  Preparers,      \* concurrent playback.prepare calls
  NoOperation,    \* no operation has been started
  MaxMargin       \* bound on the versions of the cache

ASSUME MaxMarginIsNat == MaxMargin \in Nat
ASSUME NoOperationDiffers == NoOperation \notin Operations

VARIABLES
  margin,     \* version of the calibration cache on disk
  operation,  \* NativeCalibrationService::operation
  owner,      \* who holds the reservation object of each operation
  cancel,     \* the cancel flag of each operation
  start,      \* where the command that started each operation is
  work,       \* where the worker of each operation is
  outcome,    \* what the worker has to report
  done,       \* the worker's done flag
  gate,       \* CalibrationPublicationState
  closed,     \* NativeCalibrationService::closed
  quit,       \* where the shutdown is
  events,     \* the calibration events delivered so far
  hub,        \* whether the event hub delivers
  preparing   \* the plan that each playback.prepare call is making, if any

service == <<operation, owner, cancel, start, work, outcome, done, gate, closed>>
plans   == <<margin, prepared, preparing>>
vars    == <<activity, service, plans, quit, events, hub>>

Outcomes == {"succeeded", "failed", "cancelled"}
Idle     == "idle"

CalibrationInit ==
  /\ operation = [id |-> NoOperation, state |-> Idle, handle |-> FALSE]
  /\ owner = [o \in Operations |-> "nobody"]
  /\ cancel = [o \in Operations |-> FALSE]
  /\ start = [o \in Operations |-> Idle]
  /\ work = [o \in Operations |-> Idle]
  /\ outcome = [o \in Operations |-> "none"]
  /\ done = [o \in Operations |-> FALSE]
  /\ gate = [closing |-> FALSE, commit |-> FALSE]
  /\ closed = FALSE

Init ==
  /\ ActivityInit
  /\ CalibrationInit
  /\ margin = 0
  /\ prepared = <<>>
  /\ preparing = [p \in Preparers |-> {}]
  /\ quit = "open"
  /\ events = <<>>
  /\ hub = TRUE

Active(state) == state \in {"running", "cancelling"}

\* NativeEventHub::publish once the UI has subscribed: a failed send closes the hub.
Publish(event) == /\ hub
                  /\ events' = Append(events, event)
                  /\ UNCHANGED hub
PublishFails   == /\ hub' = FALSE
                  /\ UNCHANGED events

(***************************************************************************)
(* The command that starts an operation.                                   *)
(***************************************************************************)
\* The operation lock is held across the activity reservation.
Start(o) ==
  /\ start[o] = Idle
  /\ ~Active(operation.state)
  /\ ReserveCalibration(o)
  /\ operation' = [id |-> o, state |-> "running", handle |-> FALSE]
  /\ owner' = [owner EXCEPT ![o] = "operation"]
  /\ start' = [start EXCEPT ![o] = "publish"]
  /\ UNCHANGED <<cancel, work, outcome, done, gate, closed, plans, quit, events, hub>>

\* current.take(): whatever operation is there is dropped, and its reservation.
Abandon(o) ==
  /\ operation' = [id |-> NoOperation, state |-> Idle, handle |-> FALSE]
  /\ start' = [start EXCEPT ![o] = "failed"]
  /\ IF owner[o] = "operation"
       THEN owner' = [owner EXCEPT ![o] = "nobody"] /\ DropCalibration(o)
       ELSE UNCHANGED <<owner, activity>>

StartPublishes(o) ==
  /\ start[o] = "publish"
  /\ \/ /\ Publish(<<"progress", o>>)
        /\ start' = [start EXCEPT ![o] = "spawn"]
        /\ UNCHANGED <<operation, owner, activity>>
     \/ PublishFails /\ Abandon(o)
  /\ UNCHANGED <<cancel, work, outcome, done, gate, closed, plans, quit>>

StartSpawns(o) ==
  /\ start[o] = "spawn"
  /\ \/ /\ work' = [work EXCEPT ![o] = "entry"]
        /\ start' = [start EXCEPT ![o] = "store"]
        /\ UNCHANGED <<operation, owner, activity>>
     \/ Abandon(o) /\ UNCHANGED work
  /\ UNCHANGED <<cancel, outcome, done, gate, closed, plans, quit, events, hub>>

StartStores(o) ==
  /\ start[o] = "store"
  /\ start' = [start EXCEPT ![o] = "acked"]
  /\ operation' = IF operation.id = o THEN [operation EXCEPT !.handle = TRUE] ELSE operation
  /\ UNCHANGED <<activity, owner, cancel, work, outcome, done, gate, closed, plans, quit, events, hub>>

\* A plausible bug: release_calibration is called when the user cancels.
BugCancel(o) ==
  /\ operation.id = o
  /\ operation.state = "running"
  /\ operation' = [operation EXCEPT !.state = "cancelling"]
  /\ cancel' = [cancel EXCEPT ![o] = TRUE]
  /\ calibration_active' = FALSE
  /\ UNCHANGED <<physical_playback, update_installing, closing, leases>>
  /\ UNCHANGED <<owner, start, work, outcome, done, gate, closed, plans, quit, events, hub>>

(***************************************************************************)
(* calibration.cancel, whole under the operation lock.  It refuses a stale *)
(* operation and answers, changing nothing, for a cancelling or ended one. *)
(***************************************************************************)
Cancel(o) ==
  /\ operation.id = o
  /\ operation.state = "running"
  /\ operation' = [operation EXCEPT !.state = "cancelling"]
  /\ cancel' = [cancel EXCEPT ![o] = TRUE]
  /\ UNCHANGED <<activity, owner, start, work, outcome, done, gate, closed, plans, quit, events, hub>>

(***************************************************************************)
(* The worker: run, finish and finish_admitted.                            *)
(***************************************************************************)
Goto(o, pc) == work' = [work EXCEPT ![o] = pc]

WorkEnters(o) ==
  /\ work[o] = "entry"
  /\ Goto(o, IF closed THEN "ending" ELSE "child")
  /\ UNCHANGED <<activity, operation, owner, cancel, start, outcome, done, gate, closed, plans, quit, events, hub>>

\* run_child: a cancelled child may still be reported by a failing pipe reader.
ChildEnds(o) ==
  /\ work[o] = "child"
  /\ \E r \in IF cancel[o] THEN {"cancelled", "failed"} ELSE {"measured", "diagnosed", "failed"} :
       outcome' = [outcome EXCEPT ![o] = r]
  /\ Goto(o, "returned")
  /\ UNCHANGED <<activity, operation, owner, cancel, start, done, gate, closed, plans, quit, events, hub>>

WorkSeesClosed(o) ==
  /\ work[o] = "returned"
  /\ Goto(o, IF closed THEN "ending" ELSE "result")
  /\ UNCHANGED <<activity, operation, owner, cancel, start, outcome, done, gate, closed, plans, quit, events, hub>>

\* The evidence of a measurement is validated and written to a temporary file
\* before the gate is asked; a diagnostic run has nothing to commit.
WorkJudges(o) ==
  /\ work[o] = "result"
  /\ IF cancel[o]
       THEN outcome' = [outcome EXCEPT ![o] = "cancelled"]
       ELSE CASE outcome[o] = "diagnosed" -> outcome' = [outcome EXCEPT ![o] = "succeeded"]
              [] outcome[o] = "measured"  -> \E r \in {"measured", "failed"} :
                                               outcome' = [outcome EXCEPT ![o] = r]
              [] OTHER -> UNCHANGED outcome
  /\ Goto(o, "admit")
  /\ UNCHANGED <<activity, operation, owner, cancel, start, done, gate, closed, plans, quit, events, hub>>

\* try_admit: a refused worker drops its temporary file and returns in silence.
Admit(o) ==
  /\ work[o] = "admit"
  /\ IF gate.closing \/ gate.commit
       THEN Goto(o, "ending") /\ UNCHANGED gate
       ELSE /\ gate' = [gate EXCEPT !.commit = TRUE]
            /\ Goto(o, IF outcome[o] = "measured" THEN "commit" ELSE "settle")
  /\ UNCHANGED <<activity, operation, owner, cancel, start, outcome, done, closed, plans, quit, events, hub>>

\* PreparedCalibrationCache::commit: the rename, which may fail.
Commit(o) ==
  /\ work[o] = "commit"
  /\ \/ /\ margin < MaxMargin
        /\ margin' = margin + 1
        /\ outcome' = [outcome EXCEPT ![o] = "succeeded"]
        /\ Goto(o, "invalidate")
     \/ /\ outcome' = [outcome EXCEPT ![o] = "failed"]
        /\ Goto(o, "settle")
        /\ UNCHANGED margin
  /\ UNCHANGED <<activity, operation, owner, cancel, start, done, gate, closed, prepared, preparing, quit, events, hub>>

Invalidate(o) ==
  /\ work[o] = "invalidate"
  /\ InvalidatePlans
  /\ Goto(o, "settle")
  /\ UNCHANGED <<activity, operation, owner, cancel, start, outcome, done, gate, closed, margin, preparing, quit, events, hub>>

\* finish_admitted: the state is set and the reservation taken under one lock.
Settle(o) ==
  /\ work[o] = "settle"
  /\ IF closed \/ operation.id # o \/ operation.state \in Outcomes
       THEN Goto(o, "release") /\ UNCHANGED <<operation, owner>>
       ELSE /\ operation' = [operation EXCEPT !.state = outcome[o]]
            /\ owner' = [owner EXCEPT ![o] = IF @ = "operation" THEN "worker" ELSE @]
            /\ Goto(o, "publish")
  /\ UNCHANGED <<activity, cancel, start, outcome, done, gate, closed, plans, quit, events, hub>>

\* The result of the publication is ignored.
PublishFinished(o) ==
  /\ work[o] = "publish"
  /\ \/ Publish(<<"finished", o, outcome[o]>>)
     \/ PublishFails
  /\ Goto(o, "lease")
  /\ UNCHANGED <<activity, operation, owner, cancel, start, outcome, done, gate, closed, plans, quit>>

DropLease(o) ==
  /\ work[o] = "lease"
  /\ IF owner[o] = "worker"
       THEN owner' = [owner EXCEPT ![o] = "nobody"] /\ DropCalibration(o)
       ELSE UNCHANGED <<owner, activity>>
  /\ Goto(o, "release")
  /\ UNCHANGED <<operation, cancel, start, outcome, done, gate, closed, plans, quit, events, hub>>

\* The admission is dropped last, and its Drop wakes a closer.
Release(o) ==
  /\ work[o] = "release"
  /\ gate' = [gate EXCEPT !.commit = FALSE]
  /\ Goto(o, "ending")
  /\ UNCHANGED <<activity, operation, owner, cancel, start, outcome, done, closed, plans, quit, events, hub>>

WorkEnds(o) ==
  /\ work[o] = "ending"
  /\ done' = [done EXCEPT ![o] = TRUE]
  /\ Goto(o, "ended")
  /\ UNCHANGED <<activity, operation, owner, cancel, start, outcome, gate, closed, plans, quit, events, hub>>

(***************************************************************************)
(* Playback's side: a plan is made from the cache that was read before it  *)
(* was pushed, and a physical session holds a lease.                       *)
(***************************************************************************)
PrepareReads(p) ==
  /\ preparing[p] = {}
  /\ preparing' = [preparing EXCEPT ![p] = {[margin |-> margin]}]
  /\ UNCHANGED <<activity, service, margin, prepared, quit, events, hub>>

PreparePushes(p) ==
  /\ \E plan \in preparing[p] : PushPlan(plan)
  /\ preparing' = [preparing EXCEPT ![p] = {}]
  /\ UNCHANGED <<activity, service, margin, quit, events, hub>>

PlaybackStarts(s) ==
  /\ ReservePlayback(s)
  /\ \E i \in DOMAIN prepared : RemovePlan(i)
  /\ UNCHANGED <<service, margin, preparing, quit, events, hub>>

PlaybackEnds(s) ==
  /\ DropPlayback(s)
  /\ UNCHANGED <<service, plans, quit, events, hub>>

(***************************************************************************)
(* pre_exit_safety and the shutdown of the calibration service.            *)
(***************************************************************************)
Quiesce ==
  /\ quit = "open"
  /\ BeginShutdown
  /\ quit' = "quiesced"
  /\ UNCHANGED <<service, plans, events, hub>>

CloseService ==
  /\ quit = "quiesced"
  /\ closed' = TRUE
  /\ quit' = "closed"
  /\ UNCHANGED <<activity, operation, owner, cancel, start, work, outcome, done, gate, plans, events, hub>>

CloseGate ==
  /\ quit = "closed"
  /\ gate' = [gate EXCEPT !.closing = TRUE]
  /\ quit' = "waiting"
  /\ UNCHANGED <<activity, operation, owner, cancel, start, work, outcome, done, closed, plans, events, hub>>

\* A plausible bug: the deadline lets the shutdown go on.
BugAwaitCommit ==
  /\ quit = "waiting"
  /\ quit' = "cancelling"
  /\ UNCHANGED <<activity, service, plans, events, hub>>

\* close_until: an admitted commit is waited for; past the deadline the
\* process aborts rather than leave a writer behind.
AwaitCommit ==
  /\ quit = "waiting"
  /\ quit' = IF gate.commit THEN "aborted" ELSE "cancelling"
  /\ UNCHANGED <<activity, service, plans, events, hub>>

CancelForShutdown ==
  LET o == operation.id
      running == Active(operation.state)
  IN  /\ quit = "cancelling"
      /\ operation' = [operation EXCEPT !.state = IF running THEN "cancelling" ELSE @, !.handle = FALSE]
      /\ cancel' = [x \in Operations |-> cancel[x] \/ (running /\ x = o)]
      /\ owner' = [x \in Operations |->
                     IF x = o /\ owner[x] = "operation" THEN "shutdown" ELSE owner[x]]
      /\ quit' = IF operation.handle THEN "joining" ELSE "drop"
      /\ UNCHANGED <<activity, start, work, outcome, done, gate, closed, plans, events, hub>>

\* Either the worker is done and joined, or the deadline has passed: both
\* drop the reservation the shutdown has taken.
JoinWorker ==
  /\ quit = "joining"
  /\ quit' = "drop"
  /\ UNCHANGED <<activity, service, plans, events, hub>>

DropTaken ==
  /\ quit = "drop"
  /\ IF \E o \in Operations : owner[o] = "shutdown"
       THEN \E o \in Operations : /\ owner[o] = "shutdown"
                                  /\ owner' = [owner EXCEPT ![o] = "nobody"]
                                  /\ DropCalibration(o)
       ELSE UNCHANGED <<owner, activity>>
  /\ quit' = "stopped"
  /\ UNCHANGED <<operation, cancel, start, work, outcome, done, gate, closed, plans, events, hub>>

CloseHub ==
  /\ quit = "stopped"
  /\ hub' = FALSE
  /\ quit' = "exited"
  /\ UNCHANGED <<activity, service, plans, events>>

StartStep(o) == StartPublishes(o) \/ StartSpawns(o) \/ StartStores(o)

WorkStep(o) ==
  \/ WorkEnters(o) \/ ChildEnds(o) \/ WorkSeesClosed(o) \/ WorkJudges(o)
  \/ Admit(o) \/ Commit(o) \/ Invalidate(o) \/ Settle(o)
  \/ PublishFinished(o) \/ DropLease(o) \/ Release(o) \/ WorkEnds(o)

ShutdownStep ==
  \/ CloseService \/ CloseGate \/ AwaitCommit \/ CancelForShutdown
  \/ JoinWorker \/ DropTaken \/ CloseHub

PlaybackStep ==
  \/ \E p \in Preparers : PrepareReads(p) \/ PreparePushes(p)
  \/ \E s \in Sessions : PlaybackStarts(s) \/ PlaybackEnds(s)

\* An aborted process takes no more steps.
Next ==
  /\ quit # "aborted"
  /\ \/ \E o \in Operations : Start(o) \/ Cancel(o) \/ StartStep(o) \/ WorkStep(o)
     \/ PlaybackStep
     \/ Quiesce
     \/ ShutdownStep

Alive(A) == quit # "aborted" /\ A

\* Threads run, the child has a budget and the shutdown a deadline.
Fairness ==
  /\ \A o \in Operations : /\ WF_vars(Alive(StartStep(o)))
                           /\ WF_vars(Alive(WorkStep(o)))
  /\ WF_vars(Alive(ShutdownStep))

Spec == Init /\ [][Next]_vars /\ Fairness

-----------------------------------------------------------------------------
Publishing == {"commit", "invalidate", "settle", "publish", "lease", "release"}
Holding    == {"child", "returned", "result", "admit", "commit", "invalidate", "settle", "publish"}

TypeOK ==
  /\ ActivityTypeOK
  /\ operation \in [id : Operations \cup {NoOperation},
                    state : {Idle, "running", "cancelling"} \cup Outcomes, handle : BOOLEAN]
  /\ owner \in [Operations -> {"nobody", "operation", "worker", "shutdown"}]
  /\ cancel \in [Operations -> BOOLEAN]
  /\ start \in [Operations -> {Idle, "publish", "spawn", "store", "acked", "failed"}]
  /\ work \in [Operations -> {Idle, "entry", "ending", "ended"} \cup Publishing \cup Holding]
  /\ outcome \in [Operations -> Outcomes \cup {"none", "measured", "diagnosed"}]
  /\ done \in [Operations -> BOOLEAN]
  /\ gate \in [closing : BOOLEAN, commit : BOOLEAN]
  /\ closed \in BOOLEAN
  /\ margin \in 0..MaxMargin
  /\ prepared \in UNION {[1..n -> [margin : 0..MaxMargin]] : n \in 0..MaxPlans}
  /\ preparing \in [Preparers -> SUBSET [margin : 0..MaxMargin]]
  /\ quit \in {"open", "quiesced", "closed", "waiting", "aborted", "cancelling", "joining",
               "drop", "stopped", "exited"}
  /\ hub \in BOOLEAN

(***************************************************************************)
(* No physical session holds the input boundary while a calibration worker *)
(* measures, commits or announces its result, whatever is cancelled, fails *)
(* or shuts down meanwhile (native_runtime.rs:328-345, 739-746).           *)
(***************************************************************************)
MeasurementIsExclusive ==
  \A o \in Operations : work[o] \in Holding => leases \cap Sessions = {}

(***************************************************************************)
(* Past the gate the shutdown has the last word: no worker, however late,  *)
(* replaces the cache, clears plans on its account or announces a result   *)
(* (native_runtime.rs:437-448, 509-514).                                   *)
(***************************************************************************)
PastGate == quit \in {"cancelling", "joining", "drop", "stopped", "exited"}
Announces == \E i \in DOMAIN events' \ DOMAIN events : events'[i][1] = "finished"
QuietAfterShutdown ==
  [][PastGate => margin' = margin /\ ~Announces]_vars

(***************************************************************************)
(* The shutdown aborts the process only when a worker it admitted really   *)
(* is between its admission and its end (native_runtime.rs:440-446).       *)
(***************************************************************************)
AbortMeansAWriter ==
  quit = "aborted" => \E o \in Operations : work[o] \in Publishing

(***************************************************************************)
(* Every worker that was spawned comes to its end, so that the shutdown's  *)
(* bounded wait is for something that happens (native_runtime.rs:363-369). *)
(***************************************************************************)
WorkersEnd ==
  \A o \in Operations : work[o] = "entry" ~> (done[o] \/ quit = "aborted")

\* The shutdown waits for what happens, aborts only where it must, and has the
\* last word (native_runtime.rs:363-369, 437-514).
ShutdownIsOrderly == WorkersEnd /\ []AbortMeansAWriter /\ QuietAfterShutdown
=============================================================================
