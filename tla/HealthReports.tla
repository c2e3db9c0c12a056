---------------------------- MODULE HealthReports ----------------------------
(***************************************************************************)
(* What the desktop is told about the health of a playback: the worker's   *)
(* published metrics and errors (engine/telemetry, worker/cleanup.rs), the *)
(* snapshots a supervisor assembles from them, load by load                *)
(* (engine/session.rs), and the playback and diagnostics events it makes   *)
(* of them behind the diagnostics gate (native_runtime.rs).                *)
(*                                                                         *)
(* Of the metrics only what the reported health depends on is kept.        *)
(***************************************************************************)
EXTENDS Naturals, Sequences

CONSTANTS
  Supervisors,      \* threads that poll the session
  MaxTime,          \* bound of the clock of the gate
  Interval,         \* DIAGNOSTICS_INTERVAL
  MaxChanges,       \* bound: publications of the worker before its end
  MaxToggles,       \* bound: calls of set_diagnostics_enabled
  Never             \* nothing emitted, nobody

ASSUME NeverIsNobody == Never \notin Supervisors

VARIABLES
  physical,         \* there is a session: not so in a dry run
  worker,           \* from "boot", or "refused" there, over "playing" to "over"
  metrics,          \* the active slot of the snapshot buffer
  errors,           \* [last, terminal]: last_error and terminal_error are set
  startup,          \* [ready, latency]
  lifecycle,        \* "running", "finished" or "poisoned"
  changes,
  super,            \* per supervisor: the snapshot in progress
  gate,             \* [enabled, epoch, emitted, sequence] and who holds its lock
  quiet,            \* history: a disable has returned and no enable has begun since
  reported,         \* the last diagnostics event: [sequence, backend], and the health last shown
  gateNow

workerVars == <<physical, worker, metrics, errors, startup, lifecycle, changes>>
gateVars == <<gate, quiet, reported>>
reportVars == <<workerVars, super, gateVars, gateNow>>

\* The worst of: a key was not released ("failed"); keys were dropped, a chord was
\* split, or a key is possibly active ("unsure"); the input path is "slow".
\* final: the worker's last numbers.
Metrics == [worst : {"good", "slow", "unsure", "failed"}, final : BOOLEAN]
Clean == [worst |-> "good", final |-> FALSE]

\* Each load is a step: the order of snapshot_lite, and that of snapshot.
LoadOrder(use) ==
  IF use = "report"
  THEN <<"lifecycle", "metrics", "ready", "last", "terminal", "latency">>
  ELSE <<"lifecycle", "metrics", "terminal", "last">>

Polling == [at |-> 1, phase |-> "load", use |-> "playback", lifecycle |-> "running",
            metrics |-> Clean, terminal |-> FALSE, last |-> FALSE, ready |-> FALSE, latency |-> FALSE,
            sample |-> 0]

\* is_finished of both snapshots.
Finished(x) == x.lifecycle \in {"finished", "poisoned"}

ReportsInit ==
  /\ physical \in BOOLEAN
  /\ worker = "boot" /\ metrics = Clean
  /\ errors = [last |-> FALSE, terminal |-> FALSE]
  /\ startup = [ready |-> FALSE, latency |-> FALSE]
  /\ lifecycle = "running" /\ changes = 0
  /\ super = [s \in Supervisors |-> Polling]
  /\ gate = [enabled |-> FALSE, epoch |-> 0, emitted |-> Never, sequence |-> 0, owner |-> Never]
  /\ quiet = FALSE
  /\ reported = [sequence |-> 0, backend |-> "none", health |-> "none"]
  /\ gateNow = 0

-----------------------------------------------------------------------------
(* The worker.                                                             *)

Unread == UNCHANGED <<physical, super, gateVars, gateNow>>

\* A hard admission error: the worker returns without its finalization.
RefusesBoot ==
  /\ worker = "boot" /\ worker' = "refused"
  /\ errors' = [errors EXCEPT !.last = TRUE]
  /\ UNCHANGED <<metrics, startup, lifecycle, changes>> /\ Unread

StoreLatency ==
  /\ worker = "boot" /\ worker' = "timed"
  /\ startup' = [startup EXCEPT !.latency = TRUE]
  /\ UNCHANGED <<metrics, errors, lifecycle, changes>> /\ Unread

StoreReady ==
  /\ worker = "timed" /\ worker' = "playing"
  /\ startup' = [startup EXCEPT !.ready = TRUE]
  /\ UNCHANGED <<metrics, errors, lifecycle, changes>> /\ Unread

\* publish_backend_metrics: the error text is published as it changes, back to
\* none included; the last time after the terminal error.
PublishError ==
  /\ worker \in {"playing", "closing"} /\ changes < MaxChanges
  /\ errors' = [errors EXCEPT !.last = ~@]
  /\ changes' = changes + 1
  /\ UNCHANGED <<worker, metrics, startup, lifecycle>> /\ Unread

\* try_publish_metrics: now and then, and not at all when both slots are pinned.
PublishMetrics ==
  /\ worker = "playing" /\ changes < MaxChanges
  /\ metrics' \in {m \in Metrics : ~m.final}
  /\ changes' = changes + 1
  /\ UNCHANGED <<worker, errors, startup, lifecycle>> /\ Unread

\* finalize_worker: the terminal error, and then the terminal metrics, with
\* whatever the throttled publications have not told yet.  A boot that fails
\* softly ends here, too.
StoreTerminalError ==
  /\ worker \in {"boot", "timed", "playing"} /\ worker' = "closing"
  /\ \E failed \in BOOLEAN : errors' = [errors EXCEPT !.terminal = failed]
  /\ UNCHANGED <<metrics, startup, lifecycle, changes>> /\ Unread

PublishFinal ==
  /\ worker = "closing" /\ worker' = "ending"
  /\ metrics' \in {m \in Metrics : m.final}
  /\ UNCHANGED <<errors, startup, lifecycle, changes>> /\ Unread

\* A panic, wherever it comes, reaches the thread's catch_unwind, which stores
\* its message as the terminal error.
Panics ==
  /\ worker \notin {"panicked", "over"} /\ worker' = "panicked"
  /\ errors' = [errors EXCEPT !.terminal = TRUE]
  /\ UNCHANGED <<metrics, startup, lifecycle, changes>> /\ Unread

\* The thread's exit: the lifecycle is stored when everything else is.
StoreLifecycle ==
  /\ worker' = "over"
  /\ \/ worker \in {"refused", "ending"} /\ lifecycle' = "finished"
     \/ worker = "panicked" /\ lifecycle' = "poisoned"
  /\ UNCHANGED <<metrics, errors, startup, changes>> /\ Unread

Worker ==
  /\ physical
  /\ \/ RefusesBoot \/ StoreLatency \/ StoreReady \/ PublishError \/ PublishMetrics
     \/ StoreTerminalError \/ PublishFinal \/ Panics \/ StoreLifecycle

-----------------------------------------------------------------------------
(* A snapshot: the lifecycle first, then the metrics, and then the errors   *)
(* and the startup, in the order of the fields.  A dry run takes none.      *)

Taken(s, use) ==
  /\ super[s].use = use /\ super[s].phase = "load"
  /\ physical => super[s].at > Len(LoadOrder(use))

Load(s, cell, new) ==
  /\ physical
  /\ super[s].phase = "load" /\ super[s].at <= Len(LoadOrder(super[s].use))
  /\ LoadOrder(super[s].use)[super[s].at] = cell
  /\ super' = [super EXCEPT ![s] = [new EXCEPT !.at = @ + 1]]
  /\ UNCHANGED <<workerVars, gateVars, gateNow>>

LoadLifecycle(s) ==
  \E use \in {"playback", "diagnostics", "report"} :
    /\ super[s].use = "diagnostics" <=> use = "diagnostics"
    /\ Load(s, "lifecycle", [super[s] EXCEPT !.use = use, !.lifecycle = lifecycle])
LoadMetrics(s) == Load(s, "metrics", [super[s] EXCEPT !.metrics = metrics])
LoadTerminalError(s) ==
  Load(s, "terminal", [super[s] EXCEPT !.terminal = errors.terminal])
LoadLastError(s) == Load(s, "last", [super[s] EXCEPT !.last = errors.last])
LoadReady(s) == Load(s, "ready", [super[s] EXCEPT !.ready = startup.ready])
LoadLatency(s) ==
  Load(s, "latency", [super[s] EXCEPT !.latency = @ \/ (super[s].ready /\ startup.latency)])

\* diagnostics_backend_status, and the health of a playback snapshot, which also
\* counts a slow input path; a dry run is healthy, and has no diagnostics.
Failing(x) == x.terminal \/ x.last \/ x.metrics.worst = "failed"
BackendStatus(x) ==
  IF ~physical THEN "unavailable"
  ELSE IF Failing(x) THEN "error"
  ELSE IF x.metrics.worst = "unsure" THEN "degraded" ELSE "healthy"
Health(x) ==
  IF ~physical THEN "healthy"
  ELSE IF BackendStatus(x) = "healthy" /\ x.metrics.worst = "slow" THEN "degraded" ELSE BackendStatus(x)

\* publish_playback_snapshot; the diagnostics take a snapshot of their own.
PlaybackEvent(s) ==
  /\ Taken(s, "playback")
  /\ super' = [super EXCEPT ![s] = [Polling EXCEPT !.use = "diagnostics"]]
  /\ reported' = [reported EXCEPT !.health = Health(super[s])]
  /\ UNCHANGED <<workerVars, gate, quiet, gateNow>>

\* The full snapshot goes to whoever asked for it.
ReportTaken(s) ==
  /\ physical /\ Taken(s, "report")
  /\ super' = [super EXCEPT ![s] = Polling]
  /\ UNCHANGED <<workerVars, gateVars, gateNow>>

-----------------------------------------------------------------------------
(* The gate.                                                               *)

\* The sample time is taken before the lock.
SampleTime(s) ==
  /\ Taken(s, "diagnostics")
  /\ super' = [super EXCEPT ![s].phase = "gate", ![s].sample = gateNow]
  /\ UNCHANGED <<workerVars, gateVars, gateNow>>

Due(s) == gate.enabled /\ (gate.emitted # Never => super[s].sample >= gate.emitted + Interval)

GateRefuses(s) ==
  /\ super[s].phase = "gate" /\ gate.owner = Never /\ ~Due(s)
  /\ super' = [super EXCEPT ![s] = Polling]
  /\ UNCHANGED <<workerVars, gateVars, gateNow>>

GateAdmits(s) ==
  /\ super[s].phase = "gate" /\ gate.owner = Never /\ Due(s)
  /\ gate' = [gate EXCEPT !.owner = s, !.emitted = super[s].sample, !.sequence = @ + 1]
  /\ super' = [super EXCEPT ![s].phase = "publish"]
  /\ UNCHANGED <<workerVars, quiet, reported, gateNow>>

\* The event is published with the gate held.
DiagnosticsEvent(s) ==
  /\ super[s].phase = "publish"
  /\ gate' = [gate EXCEPT !.owner = Never]
  /\ reported' = [reported EXCEPT !.sequence = gate.sequence, !.backend = BackendStatus(super[s])]
  /\ super' = [super EXCEPT ![s] = Polling]
  /\ UNCHANGED <<workerVars, quiet, gateNow>>

\* An event that cannot be delivered ends the player and its supervisor; the
\* gate keeps the time and the sequence it counted for it.
DeliveryFails(s) ==
  /\ \/ Taken(s, "playback") /\ UNCHANGED gate
     \/ super[s].phase = "publish" /\ gate' = [gate EXCEPT !.owner = Never]
  /\ super' = [super EXCEPT ![s] = [Polling EXCEPT !.phase = "over"]]
  /\ UNCHANGED <<workerVars, quiet, reported, gateNow>>

\* The loop ends on a terminal status or a stop before it takes a snapshot.
SupervisorEnds(s) ==
  /\ super[s] = Polling
  /\ super' = [super EXCEPT ![s].phase = "over"]
  /\ UNCHANGED <<workerVars, gateVars, gateNow>>

\* Mutant: the switch does not wait for a publication in flight.
BugToggle(on) ==
  /\ gate.epoch < MaxToggles
  /\ gate' = [gate EXCEPT !.enabled = on, !.epoch = @ + 1, !.emitted = Never]
  /\ quiet' = ~on
  /\ UNCHANGED <<workerVars, super, reported, gateNow>>

\* set_enabled: a new window, the same sequence.
Toggle(on) ==
  /\ gate.epoch < MaxToggles /\ gate.owner = Never
  /\ gate' = [gate EXCEPT !.enabled = on, !.epoch = @ + 1, !.emitted = Never]
  /\ quiet' = ~on
  /\ UNCHANGED <<workerVars, super, reported, gateNow>>

Tick ==
  /\ gateNow < MaxTime
  /\ gateNow' = gateNow + 1
  /\ UNCHANGED <<workerVars, super, gateVars>>

Supervise(s) ==
  \/ LoadLifecycle(s) \/ LoadMetrics(s) \/ LoadTerminalError(s) \/ LoadLastError(s)
  \/ LoadReady(s) \/ LoadLatency(s) \/ PlaybackEvent(s) \/ ReportTaken(s)
  \/ SampleTime(s) \/ GateRefuses(s) \/ GateAdmits(s) \/ DiagnosticsEvent(s)
  \/ DeliveryFails(s) \/ SupervisorEnds(s)

ReportsNext ==
  \/ Worker \/ Tick
  \/ \E s \in Supervisors : Supervise(s)
  \/ \E on \in BOOLEAN : Toggle(on)

ReportsSpec == ReportsInit /\ [][ReportsNext]_reportVars

-----------------------------------------------------------------------------
\* A snapshot is assembled from many cells while the worker ends, and still
\* never tells of an end with the error of before it, of a worker that finished
\* with the numbers of before it (or of one refused at its boot, which has none,
\* without an error), of a panic without an error, nor of a ready worker without
\* its startup latency (session.rs snapshot_lite, snapshot and the exit
\* of the thread, cleanup.rs finalize_worker: the order of stores and loads).
SnapshotsAreOrdered ==
  \A s \in Supervisors : super[s].at > Len(LoadOrder(super[s].use)) =>
    /\ Finished(super[s]) =>
         super[s].terminal = errors.terminal /\ super[s].last = errors.last
    /\ super[s].lifecycle = "finished" => super[s].metrics.final \/ super[s].last
    /\ super[s].lifecycle = "poisoned" => super[s].terminal
    /\ super[s].ready => super[s].latency

\* Once a disable has returned, no diagnostics event comes until the next
\* enable, even from a supervisor whose snapshot was under way; and the
\* sequence never repeats (DiagnosticsPublicationGate).
SilentWhileDisabled ==
  [][reported'.sequence # reported.sequence => ~quiet /\ reported'.sequence > reported.sequence]_reportVars

\* HealthReports: no end with the numbers of before it, and no diagnostics after
\* a disable has returned (session.rs snapshot, DiagnosticsPublicationGate).
ReportsAreTrue == []SnapshotsAreOrdered /\ SilentWhileDisabled
=============================================================================
