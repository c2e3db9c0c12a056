# Sky-Player: a TLA+ verification

Sky-Player plays song sheets into a game by sending keyboard input. A song is
compiled to a schedule of packets (a time with the keys to lift and the keys to
press), and a real-time worker thread plans, waits for and sends one packet
after another, while the user, the desktop program, a supervisor and the
player's own fingers act at any moment. The promise is simple and hard to test:
every press is sent once, at its time, together with its chord, into the right
window; it is lifted no earlier than its hold; no key stays down when the
session is over, whatever interferes; and what the desktop shows and stores is
what happened.

Paths are relative to `src/`; `core/` stands for
`rust/crates/sky_dispatch_core/src/`, `engine/` for
`rust/crates/sky_player/src/engine/`, `win32/` for
`rust/crates/sky_dispatch_win32/src/`, `app/` for
`rust/crates/sky_app_core/src/`, `adapters/` for
`rust/crates/sky_native_adapters/src/`, `tauri/` for `desktop/src-tauri/src/`.

## 1. Inventory

| Component | Source | State it keeps | Operations |
|---|---|---|---|
| Schedule compiler and validator | `core/compile.rs`, `core/validation.rs`, `core/model.rs` | none: actions in, `RuntimeSchedule` out | pair Downs with Ups into generations, group by time, reject overlaps; check hold and release gap |
| Dispatch coordinator | `core/coordinator/*` | cursor, generation ledger, owner of each key slot, pending releases, owned Up intents | prepare, freeze, commit sent or missed, commit a pending release, skip stale packets, cancel, check invariants |
| Playback clock | `core/clock.rs` | epoch, two pause reasons, start of the open interval, pause time | enter and exit a pause, elapsed time |
| Worker loop, admission, finalization | `engine/worker/*` | verified target, focus-restore marker, Down boundary, terminal error | control, focus and pause edges, plan, preflight, wait, two gates, send, recovery of a missed press, release, outcome |
| Session handle | `engine/session.rs`, `engine/shared.rs` | command flags, target, lifecycle, progress anchor (sequence lock), interrupt event | arm, pause, resume, skip, quit, panic, heartbeat, poll, join, snapshot |
| Input backend | `win32/input/*` | masks per key: active, possibly active, failed release | physical packet, release with retries, physical probe |
| Event and waits | `win32/event.rs`, `win32/wait/*` | auto-reset event, signal generation, timer | signal, take, hybrid wait |
| Observation | `engine/worker/dispatch/{observer,hold_forensics}.rs`, `engine/worker/health.rs`, `engine/telemetry/*` | bounded queue, anchors, windows, metrics buffer | push or drop, drain, publish, load |
| Calibration | `win32/calibration.rs` | armed packet, receipts, pump state; buckets and counters | open, arm, send, await, seal, close; measure, write the report |
| Desktop runtime | `tauri/native_runtime.rs`, `native_update.rs`, `app_state.rs` | prepared plans, active playback, leases, event hub, calibration gate, catalogue, settings | prepare, start, monitor, stop, calibrate, reload, update, shut down |
| Application core, adapters | `app/*`, `adapters/lib.rs` | settings, library manifest, catalogue index | load, migrate, save, compose, search, admit a song |
| User interface | `desktop/src/state/store.ts` | pages, selection, requests in flight, the session shown | search, select, prepare, play, settings |
| Tooling, Windows wrappers | `rust/xtask`, `win32/{clock,focus,timer}.rs` | none that matters at run time | build, audit; thin system calls |

How they interact. The desktop runtime prepares a plan, starts a session from
it, sets the target, arms it and runs a monitor thread that sets the focus hint
on every turn, sends a heartbeat, polls and publishes events. A session call
stores an atomic flag and then signals the interrupt event. The worker thread
alone owns coordinator, clock and backend; it reads the flags at a few fixed
places of its loop, and what it read may be stale when it acts, which is why it
looks again at two gates in front of `SendInput`. The worker publishes its
outcome and position; nobody else writes them. Playback, calibration and update
ask one coordinator (`app_state.rs`) for the physical boundary. The user
interface sends requests and receives answers and events on different ways.

What is hard, and what makes each part correct (`PROJECT.json` lists the
hazards line by line):

- A plan is frozen before a wait and committed after it. The ledger must still
  be the one it was made from, and if not the commit must refuse.
- Deferred releases, missed chords and suspensions change who owns an authored
  Up that is still to come. None may lift somebody else's key or leave a key down.
- Two pause reasons share one interval and open and close it at samples of
  different age.
- Command flags, focus hint, foreground window, target generation and lease
  are five independent inputs of a press, read at different moments.
- `SendInput` may insert a prefix; a release may be unconfirmed or
  unverifiable. The masks must keep what may be down, and the outcome must not
  claim more than is known.
- The end of a session is several stores, read by several threads, and the
  session must come to it: after a stop, after the last release, after a panic.
- Desktop commands run on a thread each and take locks in different orders;
  between two locks the world moves. Documents are saved in two steps, either
  of which may fail. Answers overtake events in the user interface.

## 2. The modules

A definition whose name begins with `Bug` is a plausible mistake in the
definition after it (a dropped reset, an off-by-one, a forgotten withdrawal).
Nothing uses it; putting it in the place of the right one makes the property
named in `PROJECT.json` fail, which shows that the property speaks about that
code.

### 2.1 Dispatch (`RuntimeSchedule`, `GenerationLedger`, `Coordinator`, `MCCoordinator`, `CoordinatorProofs`)

A generation is one press of one key. `status` is the ledger, `active` the
slot table (the set of generations that own their slot), `pending` the deferred
releases, `owned` the generations whose Up intent has not been invalidated
(`NO_GENERATION_ID` in the code), `plan` the frozen plan of the iteration.
`RuntimeSchedule` says what a compiled schedule is (`IsCompiled`) and the hold
half of admission; `GenerationLedger` is the abstract specification, with only
schedule, time and ledger.

| Action | Code |
|---|---|
| `PlanFault`, `PlanPending`, `PlanFrame` | `plan_next_dispatch_projected`, `prepare_current_authored_packet` with its three-way classification of Ups, `prepare_pending_release_view` |
| `Replan` | the early end of a wait; the plan is thrown away |
| `CommitMetadata`, `CommitPendingRelease`, `CommitFrame`, `MissFrame` | the four commit functions, each with the check it repeats against the live ledger; a failed check is a terminal fault |
| `CommitStale` | `commit_stale_packet`, which needs neither time nor gates |
| `Suspend` | `suspend_live_input` and `cancel_live_generations` |
| `SuspendMissed`, `RecoverSuspended` | the gate of a packet already missed loses the focus; the recovery goes on with its old plan |
| `Close` | `cancel_all` in `finalize_worker` |

`CommitFrameDirectly` and `CommitPacketDirectly` are the commit entry points
that tests and benchmarks use, as functions of the state. The statuses
`DroppedBackend` and `DroppedConflict` are left out: the frozen commits of the
production loop never produce them. A commit that fails half-way leaves the
ledger where it was; the code may have moved some generations, after which only
`cancel_all` follows. Time is in ticks; arithmetic that overflows 64 bits is a
terminal error in the code and not modelled.

### 2.2 The engine's time (`PlaybackClock`, `DownAdmission`, `Boot`, `MCEngine`, `EngineProofs`)

`PlaybackClock` is `clock.rs` with the edges of the loop that drive it. The
worker's sample `now` and its pause request are taken at the top of the
iteration and used after any delay; a resume takes a fresh sample. `played` is a
history variable that counts the ticks during which no reason was active.

`DownAdmission` is the musical admission of presses: a boundary seen ahead of
its target may be sent when due; one found late may be rescued once, within
the grace, if the press before it was sent in time. `seen`, `credit` and the
fate of each boundary follow `worker.rs` and `dispatch_due_from_plan`; the
sender's cutoff may still refuse, and a send that fails ends the loop. It is the
non-strict production mode.

`Boot` is the interrupt event with its generation, the waits with timer and
spin, and the worker around them: boot with admission, wake probe and readiness
check, then the loop, which a failing wait leaves. Every step is one access to
shared state. `Refuses` stands for the individual admission checks. `SetEvent` may
fail (`SignalFails`): the generation then stays as it was and the command is lost
to a sleeping loop until something else wakes it, so that the property on wake-ups
speaks of commands that were completely sent.

### 2.3 The worker (`Worker`, `MCWorker`, `WorkerProofs`)

`pc` is the place in the loop, `frame` holds the locals of one iteration. Every
read of a shared flag is a step of its own, so the outside may act between any
two of them. The outside: stop requests, the pause flag, the focus hint, the
target generation (each stored first and signalled later, as in
`session.rs`), and, without a signal, the foreground window, the supervisor
lease and the player's own keys. `probed` is a history variable: a physical
probe has passed since the last pause began. A lease or a target that changes without a
suspension does not withdraw it, so `PressIsProbed` says nothing of those alone.

Abstractions, all of them on the side of data: the song is one voice, `live`
says that its last press is still in the ledger, `keys` that a key pressed by
the worker is physically down, `tracked` that the backend's masks are not all
empty; time is whether the wait reached the target and whether the boundary is
late, which is left to chance; a gate reads hint, foreground and target in one
step; one release is one step with two outcomes; focus is required and strict
timing is off, as the desktop configures every session; the model starts after
boot; a commit that fails stops the session; a failing clock read or wait may
strike before any step.

### 2.4 The input backend (`KeyLedger`, `InputBackend`, `PacketSend`, `MCInput`, `InputBackendProofs`)

`InputBackend` is `win32/input/tracked`: a packet with every prefix that may be
inserted, the three masks, and the release machine attempt by attempt (send,
reconcile, probe, retry), with the player's fingers between any two steps. It
implements `KeyLedger`: a key the engine holds is on the ledger and leaves it
only when the engine no longer holds it. `PacketSend` is the inside of one send:
start sample, cutoff, calls, completion, status, and under the policies that
retry, the next attempt or the rollback. `key_down` and `key_up` of the backend,
which only tests call, are left out.

### 2.5 The session (`AtomicAnchor`, `ProgressClock`, `Session`, `SessionProofs`)

`ProgressClock` is the sequence lock of `engine/shared.rs`, one word per step,
relaxed accesses in any order between the two accesses of the sequence; it
implements `AtomicAnchor`. `Session` is the handle on top of it: arm, polls,
join, stop commands, telemetry against a worker thread that boots, plays, may
panic anywhere, and publishes its end word by word (`ReturnOrder`).

### 2.6 Observation (`SnapshotBuffer`, `Observation`, `HealthWindow`, `HealthReports`, `EngineProofs`, `DesktopProofs`)

`SnapshotBuffer` is the two-slot metrics buffer with its reader counts, word by
word. `Observation` is the worker's and the observer's measuring of holds over a
bounded queue that drops. `HealthWindow` compares the ring and its running
counts with the whole history. `HealthReports` follows a number from the
worker's cells through the supervisor's snapshot, load by load, to the two events
the desktop receives, the diagnostics behind their gate with its epoch. The worker
may refuse its boot or panic, the delivery of an event may fail and end the
supervisor. Its proof is in `DesktopProofs`, beside the supervisor's.

### 2.7 Calibration (`CalibrationSession`, `CalibrationRun`, `CalibrationService`, `MCCalibration`, `CalibrationProofs`)

`CalibrationSession` is one measuring session: the caller and the pump thread
under one mutex and condition, in both modes (measuring, and observing, which only the
engineering diagnostics use), with the pump's own start-up, strays,
timeouts, refused calls and the two-phase seal. `CalibrationRun` is what becomes of the samples:
buckets, quantiles (the maximum only), the report, the cache on disk, and what a
later playback loads from it after crashes, edits and a change of host.
`CalibrationService` is the desktop's side: start, cancel, the worker, the gate
that admits one commit, the shutdown; it shares `Activity` (the admission
authority of `app_state.rs`) and `PreparedPlans` with playback.

### 2.8 Playback in the desktop (`PlaybackService`, `DesktopProofs`, `Activity`, `PreparedPlans`)

`PlaybackService` has the sessions with their separate mutexes and atomics, the
supervisor's loop with its pc `mon`, each command with its pc `call[c]`, start,
dry runs and the shutdown. The player is `Worker` and `Session` seen from
outside: it plays, pauses, loses its focus, obeys, ends or fails at any moment.
`said` is the last thing a supervisor told the user interface.

### 2.9 Library, settings, updates (`LibraryCommands`, `Catalog`, `Schedule`, `AtomicReplace`, `Settings`, `LibraryManifest`, `Update`, `MCDesktop`, `DesktopProofs`, `CalibrationProofs`)

`LibraryCommands` has the commands lock by lock, data reduced to versions.
`Catalog` is the composition and the search, `Schedule` the way from a song to
its key actions with its risks, `Settings` and `LibraryManifest` the two
documents over `AtomicReplace`, with failures and crashes at every step,
`Update` the update service over `Activity`, with the phase it shows, and a check,
a change of the preferences or an installation failing at each of its steps. The
proofs about `Settings` are in `DesktopProofs`; those about `Update` are in
`CalibrationProofs`, beside those about `Activity`.

### 2.10 The stores (`LibraryStore`, `PlaybackStore`, `MCStores`, `DesktopProofs`)

An action is what `store.ts` does between two awaits. Requests are answered in
any order; events come in theirs. A token is remembered as "is still the last".

### How the parts are put together in the runs

`MCEngine`, `MCInput`, `MCCalibration`, `MCDesktop` and `MCStores` check several
parts in one run. The parts share no variable (a part that is proved about is
extended, the others are instances); `which` names the one a behaviour runs, the others keep their first state, and the VIEW lets TLC forget them (it
never merges two states that differ in the part that runs). This is a way to
run them, not a claim about their composition. In the code they meet as follows:

- `Worker` takes from `Coordinator` only whether there is something to lift
  or to press, from `PlaybackClock` only that time is frozen in a pause, from
  `DownAdmission` only that a boundary may be late, from `InputBackend` only that
  a release is confirmed or not (`verdict.ok`, which is proved to rest on a
  probe), and from `Boot` that a signal ends a wait. Each of them allows more
  behaviour in `Worker` than the part really has.
- `Session` has the worker as a thread that plays for a while and ends;
  `Worker` has the session's commands as the outside. `PlaybackService` has
  both as a player that ends when it likes and obeys in the end.
- `PlaybackStore`'s native side is `PlaybackService` seen through answers
  and events; `LibraryStore`'s is `LibraryCommands` reduced to a generation.
- `CalibrationRun` sends its packets through `CalibrationSession` and is the
  measuring step of `CalibrationService`.

## 3. What is checked

| Run | Instance | Shows |
|---|---|---|
| `coordinator` | all compiled schedules of 4 packets at ticks 0, 1, 2, 4 over 2 keys, hold 2, time to 5, one suspension | `LedgerIsConsistent`: slots, cursor, Up intents and pending releases agree with the ledger; `NoInvariantFault`: no frozen plan is refused; `AdmissionSuffices`: admitted songs never defer; `DirectCommitsAgree`: the tests' commit functions do what the worker's do; `PlayedAsWritten`: nothing lifted early, no chord torn; `ImplementsLedger`; `ScheduleDrains` |
| `worker` | song press, press with lift, lift, press never lifted; 2 targets; 3 outside events | `NothingIsForgotten`: masks cover the keys, the ledger knows them, a clean end has lifted them, a finished song is complete, no wait sleeps through a command; `PressIsProbed`; `PlaybackEnds` |
| `input` | 2 keys, 2 moves of the user; one send under every policy | `VerifiedMeansSeenUp`; `SendTellsTheTruth`: status, evidence and keyboard agree, no chord is pressed twice; `ImplementsLedger`; `ReleaseEnds` |
| `session` | 2 callers, 2 words; at most 3 calls (arm, poll, join, skip, quit, telemetry) and 3 publications (boot, pause or resume, frozen), 5 of both together | `CallersSeeTheEnd`; `LoadsAreAtomic`; `SessionCompletes` |
| `engine` | a song of 6 boundaries with grace 1, clock to 7, 3 snapshots of 2 words for 2 pollers, 2 commanders, 3 packets for the observer, 7 samples for the window | `RescueIsIsolated`; `PressesKeepTheGap`; `PositionIsPlayed`; `SnapshotsAreAtomic`; `SentCommandWakes`; `ObservationIsTrue`; `WindowIsItsHistory` |
| `desktop` | 3 commands of 8 kinds, 2 plans; 3 operations with 2 faults on the settings, 5 with one on the manifest; 4 notes on 2 keys; 2 reloads; 2 checks, 1 patch, 1 installation; one supervisor | `PlansAreCurrent`; `DocumentsAreDurable`: a restart finds the settings it was promised; `AdmittedSchedulesArePlayable`; `SongsAreFound`: the catalogue lists every song once, and a restart finds the manifest it was promised; `LaunchedWasAskedFor`; `ReportsAreTrue` |
| `calibration_service` | 2 operations, 1 playback, 1 preparing call, 1 plan | `MeasurementIsExclusive`; `ShutdownIsOrderly` |
| `playback_service` | 2 sessions, 2 commands, 3 starts and commands, 1 loss of focus | `PlayersAreOwned`; `ReportsAreInOrder` |
| `stores` | 2 songs, 3 generations, 3 inputs; 2 sessions, 4 inputs, feed of 3 | `ViewIsCurrent`; `ControlsAreTrue` |
| `calibration` | a session of 2 packets of 2 keys with a stray; a run of 2 buckets with a restart | `ResultsAreReal`; `NothingStaysDown`; `MarginCoversTheEvidence`; `ReportIsWhatIsLoaded` |
| `crossed_locks` (violation) | 3 commands | a prepare holds the catalogue and waits for the settings while a like holds the settings and waits for the catalogue |
| `spin_misses_signal` (violation) | 2 commanders | a second signal between the second consume of a wait and its new sample of the generation is not seen by the spin |

Every property has a mutant in `PROJECT.json` that breaks it. The largest runs are
`calibration` with 3.0 million distinct states, `engine` with 2.9, `stores` with 2.6
and `desktop` with 2.5.

Why the bounds are enough to be interesting. The spacing 0, 1, 2, 4 with a hold
of 2 gives floors before, exactly on and after the authored Up, releases that
come between two packets, coalesce with a later one or block a press, chords,
retriggers in one packet, unmatched Downs and stale packets. The worker's song
has a packet of each kind, and three events are a pause within a focus loss
with a target change. Two keys are a chord, and a third adds no new case where
the code loops over a mask. Two callers, two sessions, two operations and two
patches are what it takes for one to overtake the other; three commands make a
chain of two waits and one that changes what they wait for. A session needs an arm,
a stop and a poll, and an anchor of the boot, one of a pause and the frozen one;
`MaxTurns` leaves out that all six happen in one behaviour, but a session that was
stopped, skipped or paused is still polled at its frozen position. Six boundaries
allow a rescue, a miss after it and a second rescue. The bounds are named in the
modules (`Max...`) and every one is an assumption of a guard, never a wrap. All
actions fire. Deadlock is not checked where the system really stops: a finished
session, an answered store, a bounded number of commands.

Fairness is weak except in one place. `Coordinator`: time passes, and the worker
takes the steps that stay possible; nobody is obliged to suspend, miss or
close. `Worker`: its thread is scheduled, a session call that stored its flag
goes on to signal, and the restore grace is finite. `InputBackend`: a release
goes on. `Session`: the worker's thread runs, and the loop ends some day
(which `Worker` shows of a loop that is stopped); the callers need no fairness.
`CalibrationService`, `PlaybackService`: threads run, the player obeys. `LibraryCommands`: every lock is granted in turn
(strong fairness of a command's step, since a lock that others take and release
again and again is only free now and then); the deadlock that `crossed_locks`
shows needs no unfairness.

The properties about `PlaybackService`, `CalibrationRun`, `DownAdmission` and
the stores are safety properties; that a stopped session disappears, that
commands return, that the terminal metrics are published and that a calibration
session closes was looked at while the modules were written and is not part of
the runs.

## 4. What is proved

TLAPS proves the following for every value of the constants: every number of
sessions, calls, operations, keys, words, pollers, targets, events and turns,
every compiled schedule and every song. Nothing is assumed except the named
assumptions on constants (`MinHoldAssumption`, `CoordinatorAssumption`: the
schedules satisfy `IsCompiled`; `ClockAssumption`, `BootAssumption`,
`PacketAssumption`: scan codes are numbers; `ObservationAssumption`: the keys
are finite; `WorkerAssumption`: the song is a sequence of packets; `FirstView`: the
window opens on all songs; `DocumentsAreDocuments`: what a user leaves is a document
with keys of their kinds, or none; `CallsDiffer`: checks and changes of the
preferences are not the same calls; bounds are naturals, sets of names do not contain
the name for nothing (`NeverIsNobody`, `AbsentIsNoValue`, `OwnersDiffer`, ...),
commands are those the code has), which TLC evaluates on every run.

| Module | Theorem | States |
|---|---|---|
| `CoordinatorProofs` | `LedgerStaysConsistent`, `FrozenPlansAreSafe`, `AdmissionIsSufficient`, `PlayedAsItIsWritten`, `CoordinatorImplementsLedger` | `LedgerIsConsistent`, `NoInvariantFault`, `AdmissionSuffices`, `PlayedAsWritten`, `ImplementsLedger` |
| `WorkerProofs` | `NothingForgotten`, `PressesAreProbed`, `TypeCorrect` | `NothingIsForgotten`, `PressIsProbed` |
| `InputBackendProofs` | `VerdictIsVerified`, `BackendImplementsLedger`, `TypeCorrect`, `SendsTellTheTruth` | `VerifiedMeansSeenUp`, `ImplementsLedger`, `SendTellsTheTruth` |
| `SessionProofs` | `ClockIsAtomic`, `SessionLoadsAreAtomic`, `CallersAreToldTheEnd` | `LoadsAreAtomic` of the lock and of the session on it, `CallersSeeTheEnd` |
| `EngineProofs` | `RescuesAreIsolated`, `GapsAreKept`, `PositionIsWhatWasPlayed`, `SnapshotsAreAtomicForOnePublisher`, `CommandsWakeTheLoop`, `WhatIsMeasuredWasPlayed` | `RescueIsIsolated`, `PressesKeepTheGap`, `PositionIsPlayed`, `SnapshotsAreAtomic`, `SentCommandWakes`, `ObservationIsTrue` |
| `DesktopProofs` | `NoPlayerIsLeft`, `TheReportsAreInOrder`, `StoreIsTyped`, `TheViewIsCurrent`, `ControlsTellTheTruth`, `ReportsTellTheTruth`, `SettingsSurvive` | `PlayersAreOwned`, `ReportsAreInOrder`, types of the store, `ViewIsCurrent`, `ControlsAreTrue`, `ReportsAreTrue`, `DocumentsAreDurable` |
| `CalibrationProofs` | `UsesActivity`, `ServiceOneOwner`, `Measured`, `ShutdownHasTheLastWord`, `SessionsTellTheTruth`, `SessionsReleaseTheKeys`, `WhatIsReportedIsLoaded`, `LaunchesAreAskedFor` | refinement of the lease protocol, `OneOwner`, `MeasurementIsExclusive`, the safety of `ShutdownIsOrderly`, `ResultsAreReal`, `NothingStaysDown`, `ReportIsWhatIsLoaded`, `LaunchedWasAskedFor` |
| `LibraryCommands` | `PlansStayCurrent` | `PlansAreCurrent` |

The arguments, one by one.

**Coordinator.** No property is inductive by itself. `IInv` joins them with two
facts about pending releases and Up intents and with `PlanFresh`: a frozen plan
is what planning would produce now, because nothing but time changes while a
plan is frozen, and a plan in recovery has an empty slot table in front of it.
From `PlanFresh` follows that every check a commit repeats succeeds
(`FreshFrameMatches`, `FreshPendingMatches`), so a commit consumes the packet
at the cursor (`ConsumePacket`) or the earliest pending releases. `NoOrphanUps`
rules out the accounting fault of planning, and `DueByPacketCoalesces` shows
that what is due at a packet coalesces with it when no pending release comes
first, which is what makes slots free. `StepClasses` sorts every step into five
classes; the refinement and the two action properties are proved class by class.

**Worker.** `WInv` has six parts. `KeysInv`: masks and ledger cover the keys that
are down. `WakeInv`: whoever made stale what the loop read (`hint`, pause flag,
requests) has signalled or is about to; this is why the wait cannot sleep
through a command, although the auto-reset event is drained in two places.
`EdgeInv`: past the focus and pause edges the reasons are those of the frame.
`ProbeInv`: a verified target was probed since the last pause; there is one
exception, the focus pause entered at a gate, which keeps the old proof, and
the invariant says that the restore which alone ends that pause throws it
away. `EndInv`: what the finalization has done by the time it publishes. There
is one lemma per group of actions; each proves the parts one by one.

**Input backend.** Two facts about a release in progress carry the ledger: a key
the transport confirmed is not held by the engine any more, and the transport
confirms all of an attempt or nothing, so no key leaves the request between two
probes. The user's moves disturb neither. For a send, `SendInv` follows the attempts:
as long as a transaction does not take a split chord back, what came before the
current attempt lifted at most keys of the packet (`KeyboardInv`), because only
Ups, or a packet of which nothing was inserted, are sent again; so the last
attempt decides what the status may say. `CallsInv` keeps the order of the calls
for the evidence, and that a chord once pressed is not wanted again.

**Session.** The sequence lock: between the two equal even reads no publication
can have begun and ended, so the words read are those of one publication; the
refinement maps a read to the moment of its second load. For the handle: the
stores of the end have an order (`ReturnOrder`), a lifecycle word that says
"ended" implies all stores before it, and every caller in the middle of a call
has read a prefix of them.

**Engine.** Admission: a rescue spends the credit that only a boundary seen in
time gives back, and the gap between two presses follows from where each of
them may lie around its target. Clock: every sample the worker holds is of the
past, and elapsed time plus pauses add up to the counter. Buffer: with one
publisher the slot it fills is not the active one, and a reader that holds a
slot keeps it from being filled; so what is copied is one publication, and the
last complete one at some moment of the load. With two publishers this is false
(section 5), hence the name of the theorem.

**Boot and waits.** A wait begins only after the loop has read every flag, and a try
at the event that finds it set ends the wait. `SignalInv` says so: from the
reading of the flags until the end of the wait that follows, the event stays set
if anybody has set it whose flag was not read. It needs `NoWaitInv`: no wait of
the boot's probe is left over when the loop starts.

**Observation.** The worker's forensics follow its keys step by step, because the
coordinator builds only packets that release held keys and press free ones. The
observer lags behind by the queue: `CatchesUp` names the anchors it will have in
front of every observation still queued. The first of them is what it measures
now, the last is what the worker holds, every observation between them is clean,
and the holds it has not recorded are those the queue yields. A push extends
this history at its end, a drain shortens it at its beginning, and a drop ends
the claim.

**Playback service.** `SlotInv`: the slot names exactly the session whose
supervisor has not left, and that is the newest one; so whoever speaks is the
newest session, which is the order of the reports. `PlayerInv`: once all that a
supervisor has to do is to report and to leave, its player is over. `ReportInv`:
what a report will rest on is still so when it is made; in particular "skipped"
needs the skip flag to be set before the player hears of it. `ShutInv`: closing
the admission comes before the look at the slot, so that from the look on the
session it found is the only one that can have a player, and it is joined
before the shutdown returns.

**Calibration service.** `UsesActivity`: every step of the service on the leases
is a step of `ActivitySpec`, in which no two leases live together. The gate: a
writer past its admission is counted as such until it has settled; the
shutdown either waits for it or aborts over it, and whoever comes later is
refused, so nothing is published or announced afterwards.

**Measuring session.** `SessionInv` has five parts, each kept by the caller's steps
and by the pump's. `SessionTypes` also says which places belong to which mode.
`ReceiptsInv`: what is pending belongs to the active packet, tags are armed in
increasing order, and a sample that was accepted had its packet's receipts, no more
and no fewer. `SealInv`: what the two phases of the seal have established about the
registration and the pump's queue. `AlienInv`: as long as the boundary is not lost,
an input that is foreign or comes twice is still in front of the pump, in its hand or
in the queue; so once the seal has drained the queue, there was none. `CloseInv`:
what a close may rely on at each of its steps, down to the All-Up that was not
refused. From them follow both what a session reports and that no key stays down.

**Calibration run.** The loader recomputes what a document claims, so a document that
it takes has a margin exactly if its status is valid (`TakenMeansConsistent`); the
document made ready is one that the loader takes, and moving it into place changes
nothing in it. The aggregation of the samples is not looked into: the theorem holds
whatever it computes.

**Updates.** Whoever is between a change of something that preferences and service
share and its end holds the settings lock (`LockInv`), so a candidate is offered only
under the preferences it was checked with. An installation works on a copy of
candidate and updates taken under one lock (`InstallInv`), which are of one check.

**Library store.** One invariant per kind of request says what its answer will find:
a page that is still merged or awaited is of the shown query (`PageCallsInv`), a detail or a plan still taken is of the shown generation, and a plan
of the shown settings (`DetailCallsInv`, `PlanCallsInv`). `LoadingInv`: a spinner turns
only while an answer is on its way that will end it. `CatalogInv`: the newest
generation of the catalogue is shown, announced, or carried by a reload or an import
under way, which is why the store is up to date once everything has come.

**Playback store.** `PlaybackInv` relates the view, the feed and the answers on their
way. For the first half, `FreshInv`: when the answer to the last start arrives after
the end of its session has been shown, that session is still the one shown, so
`Bound` holds and the answer does not revive it. For the second half, as long as every start can be told from what
was before it (`~muddled`): `OnlySpeaker`, of the sessions with the awaited song only
the started one still speaks, so an early event is bound to the right start;
`EndIsAhead`, the end of an older session that is still shown is in the feed ahead of
all that is newer, so the first event of the new one finds the view ended and is
accepted (`FirstIsAccepted`); `NothingApplied`, until then all its events are in the
feed; `LastWord`, the last event of the session that plays carries its state, and
once there is none the view has it. The proof attempt corrected `Muddles`: it
looked at the newest session only, but an older one of the same song, replaced in
the slot while its end is on its way, is mistaken for the new one too. That takes
three sessions, one more than the run has.

**Health reports.** A snapshot that has seen the end was begun, as far as its later
loads go, after the worker's last store; so every cell it loads from then on is the
last (`Truthful`, with `CellOrder`: the worker stores in an order, the snapshot loads in
one). For the diagnostics: a supervisor that is publishing holds the gate, for which a
switch has to wait, so nobody publishes any more once a switch-off has returned
(`GateInv`).

**Settings.** The document about to be put in place is the one that is there,
migrated, or that one with the next settings laid over it (`OpInv`); a second
migration changes nothing (`MigratedOnce`), and what is laid over a document is loaded
as it was meant, all other keys kept (`Overlaid`). So the replacement, the one step
that changes the document, leads from settings that were there to settings that were
promised. A failed read of a document that is there (`blind`) breaks this in the
code, and the property excludes it.

**Library commands.** `LInv`: who prepares a plan holds the catalogue until it is
pushed, so it is pushed into the generation it was made of; who starts or patches
holds `coherence`, so the snapshot of the settings is still true when a plan is
looked up with it. `PlanInv`: the plans in the store are of the current
generation, or the reload that made them old is on its way to drop them. The
first load installs a catalogue and drops nothing, which is right only because no
plan can have been made before it. The theorem and its proof are at the end of the
module.

What stays with TLC, and why:

- liveness (`ScheduleDrains`, `PlaybackEnds`, `ReleaseEnds`, `SessionCompletes`,
  the end of the workers in `ShutdownIsOrderly`): the prover does not
  reason about fairness and ENABLED;
- `DirectCommitsAgree` compares two folds over a set of generations, which is an
  induction over data;
- `AdmittedSchedulesArePlayable`, `SongsAreFound`, `WindowIsItsHistory`,
  `MarginCoversTheEvidence`: they compare computations over sequences, folds and
  sorts with reference definitions, induction over data again (the part of
  `SongsAreFound` on the manifest could be proved like that on the settings).

## 5. Not modelled, and observations

### 5.1 Not modelled

- The wrappers of Windows calls (`win32/clock.rs`, `focus.rs`, `timer.rs`) and
  the repository's tooling: there is no protocol between actors in them.
- The algorithms of `compile.rs` and `validation.rs`; what they establish is the
  predicate `IsCompiled`. The conflict entry points of `coordinator/conflict.rs`,
  which the production loop does not reach.
- Parsing of song files, scores of the search (abstract ranks), rendering, row
  metadata, `rename_collection`, playlists' membership in the store.
- Statistics: min/max metrics, the anomaly ring, release-gap statistics, Up
  observations, receipts' time stamps, engineering diagnostics.
- Failure of `join`, poisoned locks; arithmetic that overflows 64 bits, which
  ends the session.
- Weak memory: sequence lock, metrics buffer and event are modelled with
  sequentially consistent accesses, except that relaxed accesses between the two
  of the sequence happen in any order.
- In single modules: `DownAdmission` is the non-strict mode; `PacketSend` leaves
  out attempt counters and Win32 error codes; `CalibrationRun` reduces quantiles to the
  maximum and leaves out versions and host fingerprints as data (one "host" value stands for
  them); `CalibrationSession` leaves out the preflight probe; `Update` leaves out
  the text of its progress events; `HealthWindow` a policy of zero; `LibraryStore`
  likes and playlists. The lock around a settings write is covered by `coherence` in `LibraryCommands`.

### 5.2 Disagreements that a run shows

`crossed_locks` and `spin_misses_signal` (findings in `PROJECT.json`).

### 5.3 Observations made while modelling

None of these is a claim of a run; each is a behaviour the model has because
the code has it, or a reason why a property says no more than it does. Files
without a directory are in `engine/worker/` or, for the observer, in its
`dispatch/`.

Dispatch and worker
- A late packet that also lifts a held key goes through the gates. If the gate
  finds the focus lost, the held press is released and cancelled, and the
  recovery of the missed packet then finds its Up without an owner
  (`dispatch/authored.rs:204`): the session ends with an error, where
  `docs/timing-principles.md:115` has it continue. In `Coordinator` it is the
  fault `suspended`, which is why `NoInvariantFault` does not speak of it.
- The recovery of a missed packet runs whatever the gates answered, so a
  rejected packet may still send its Ups; `docs/timing-principles.md:356` says a
  rejection performs no packet call.
- A suspension cancels the generations that were held, and a clean end demands
  that none was cancelled (`worker/cleanup.rs:336`), so a song paused over a held
  note, resumed and played to its end is an error; `cleanup.rs:366` calls a
  suspension resumable. `FinishedIsComplete` is therefore about what a finished
  song has, not about which songs finish.
- A focus pause keeps the worker's own key down until the focus is back; a
  manual pause joining it does not release it either, and the preflight of the
  resume may then blame the player (`dispatch_loop.rs:574`, `:430`;
  `README.md:76` promises an immediate release).
- A finished session may contain missed presses (`cleanup.rs:318`); a worker that
  fails in its boot returns 1, the code of "finished" (`boot.rs:105`).
- An inconclusive probe at a gate or a preflight is reported as a held key
  (`physical.rs:91`) and ends the session. A song whose last press is never
  lifted ends in the completion error.
- Two pauses may overlap by the age of the loop-top sample (`dispatch_loop.rs:614`);
  the position then steps back by it, which `PositionIsPlayed` allows for.
- `skip` and `quit` are read again for the outcome; an accepted cancel may
  still end as succeeded.
- Time may pass between the cutoff sample and `SendInput`, so a Down can be inserted
  after its cutoff. Under the test-only retry of Ups a partial insertion followed by
  zero is reported as no progress.

Session and observation
- A thread that could not be spawned leaves `done` false for ever. A poll
  between the move to RUNNING and `armed = true` reports Playing.
- In the strict profile two threads publish metrics (`observer.rs:643`, against
  `metrics.rs:387`), and a snapshot can then mix two publications; the
  theorem on the buffer is about one publisher.
- Stopping the observer loses its last observation; after a failure its queue
  fills and drops, and the loss is not reported (`observer.rs:322`, against
  `docs/rt-dispatch-architecture.md:397`).
- The supervisor publishes no last diagnostics sample at the end of a session; a
  backend error text can be reset.

Calibration
- A full calibration measures 5000 clean pairs per bucket within two minutes,
  which cannot be reached, and the publication demands exactly 100 where
  `docs/timing-principles.md:277` says at least 100: it can never be published.
  `CalibrationRun` has it as its second preset.
- An exhausted budget in the receipt loop leaves the packet armed, which later
  calls refuse; the error paths of the publishing close drop the outcome of the
  clean-up; one of the two joins of the pump thread has no bound.
- Committing a calibration drops the prepared plans but not the cached analyses;
  a playback admitted before the commit goes on with its old plan
  (`docs/architecture.md:58`).

Desktop
- `reload` composes with no lock held, so an older composition may overwrite a
  newer import; it may fail at the count of songs after it has installed the catalogue.
- An analysis computed before an invalidation may be cached after it. A like is
  stored before the generation is checked and survives the failing command.
- A search without a generation can combine the membership of one catalogue with
  the index of the next (`docs/library-v1-contract.md:72`).
- A start that fails pushes its plan back, also after an invalidation. Two reloads
  may drop a plan that was fresh.
- The stop path reports "quit" even if the worker failed; the Stopping event of a
  command can follow the terminal event; the supervisor may overwrite Paused or
  Stopping. A pending command can be lost (`native_runtime.rs:3710`).
- A worker whose predecessor still holds the commit admission stays Running
  (`native_runtime.rs:681`); no property covers it.
- With two trust roots the authority may publish between the two checks, so the
  launched version may differ from the confirmed one (production has one root).
  A change of preferences does not stop a download.
- Settings: a transient read failure replaces the document by defaults (`blind`);
  a patch does not reload first; the migration of `load` writes without the lock,
  and its failure makes the start fail; the temporary file is not flushed. Unknown keys
  inside of the hotkeys and safety sections are dropped by a save (`overlay_settings`),
  those at the top and inside of `update` stay.
- Schedule: the recommended tempo is rounded to 0.01 and may still be infeasible;
  density counts chords where the text says notes.

User interface
- An acknowledgement of pause or resume after its event leaves the command
  pending, even into the next session; a late acknowledgement of a cancel
  leaves the calibration dialog in "cancelling".
- A second click on Play while the first start is under way makes the first
  answer ignored: a session without controls. A start of the same song while the
  end of an earlier session of it is on its way drops the early events, or takes those
  of the earlier session for its own.
- A failed detail is not asked for again until the generation or the source
  changes; a page in flight overwrites a like, and a failed like is rolled back
  to the opposite of what was set.

## 6. What the plan has left

- A proof of the manifest's durability.
- The release-gap half of the admission, likes and playlists of the store.
- Strict timing with its two publishers, as a run of its own.
