-------------------------------- MODULE Boot --------------------------------
(***************************************************************************)
(* The interrupt event (event.rs), the waits of the dispatch worker        *)
(* (wait/hybrid.rs) and the worker around them: its boot (worker/boot.rs)  *)
(* with admission, the wake probe within the startup budget and the        *)
(* readiness check against the start of playback, and then a loop          *)
(* (worker/wait.rs) that reads the flags of the commands before every wait.*)
(*                                                                         *)
(* A command stores its flag, sets the auto-reset event and then advances  *)
(* the signal generation; a wait samples the generation, consumes the      *)
(* event, and sleeps in the kernel until close to its target, where it     *)
(* spins on the clock and the generation.  Every step is one read or write *)
(* of shared state.                                                        *)
(***************************************************************************)
EXTENDS Integers

CONSTANTS
  Commanders,       \* the threads that command the worker, one command each
  MaxCounter,       \* bound of the counter
  Capped,           \* the longest sleep of a waiter without a timer
  Epoch,            \* where the song starts
  Reserve,          \* STARTUP_READINESS_RESERVE_US
  Budget,           \* CALIBRATION_MAX_STARTUP_BUDGET_US
  Samples,          \* CALIBRATION_SAMPLES
  Gap,              \* the distance of a probe's target
  Spin,             \* the spin threshold of a physical target
  MaxWaits,         \* bound of the waits of the loop
  NoProbe           \* the budget does not fit before readiness

ASSUME BootAssumption ==
  /\ Capped \in Nat /\ Epoch \in Nat /\ Reserve \in Nat /\ Budget \in Nat
  /\ Samples \in Nat /\ Gap \in Nat /\ Spin \in Nat
  /\ MaxCounter \in Nat /\ MaxWaits \in Nat

VARIABLES
  counter,          \* the performance counter
  event,            \* the auto-reset event
  generation,       \* signal_generation
  commands,         \* per commander: "idle", "stored", "set", "sent", or "lost"
  timer,            \* the waitable timer could be created
  events,           \* event_wait_enabled
  wait,             \* the wait in progress, or the last one
  boot,             \* where the worker is
  production,       \* production_wait_policy
  limits,           \* startup_deadline_ticks and the probe's deadline
  probed,           \* probe samples taken, or NoProbe once it gave up
  terminal,         \* terminal_error
  ready,            \* startup_ready
  heard,            \* the commands whose flag the loop has read
  waits             \* waits of the loop

waitVars == <<counter, event, generation, commands, timer, events, wait>>

Idle == [at |-> "idle", observed |-> 0, target |-> 0, threshold |-> 0, due |-> 0,
         outcome |-> "none", late |-> {}]

WaitInit ==
  /\ counter = 0 /\ event = FALSE /\ generation = 0
  /\ commands = [c \in Commanders |-> "idle"]
  /\ timer \in BOOLEAN /\ events \in BOOLEAN
  /\ wait = Idle

CounterAdvances ==
  /\ counter < MaxCounter
  /\ counter' = counter + 1
  /\ UNCHANGED <<event, generation, commands, timer, events, wait>>

-----------------------------------------------------------------------------
(* The commanders.  late keeps, for the property below, who set the event  *)
(* after the wait last tried to consume it.                                *)

StoreFlag(c) ==
  /\ commands[c] = "idle"
  /\ commands' = [commands EXCEPT ![c] = "stored"]
  /\ UNCHANGED <<counter, event, generation, timer, events, wait>>

SetEvent(c) ==
  /\ commands[c] = "stored"
  /\ commands' = [commands EXCEPT ![c] = "set"]
  /\ event' = TRUE
  /\ wait' = [wait EXCEPT !.late = IF wait.at \in {"idle", "done"} THEN @ ELSE @ \union {c}]
  /\ UNCHANGED <<counter, generation, timer, events>>

\* SetEvent fails: the generation is not advanced.
SignalFails(c) ==
  /\ commands[c] = "stored"
  /\ commands' = [commands EXCEPT ![c] = "lost"]
  /\ UNCHANGED <<counter, event, generation, timer, events, wait>>

Publish(c) ==
  /\ commands[c] = "set"
  /\ commands' = [commands EXCEPT ![c] = "sent"]
  /\ generation' = generation + 1
  /\ UNCHANGED <<counter, event, timer, events, wait>>

Command(c) == StoreFlag(c) \/ SetEvent(c) \/ SignalFails(c) \/ Publish(c)

-----------------------------------------------------------------------------
(* The wait.                                                               *)

Started(target, threshold) ==
  [wait EXCEPT !.at = IF events THEN "take" ELSE "clock", !.observed = generation,
               !.target = target, !.threshold = threshold, !.outcome = "none"]

\* MUTANT: a second take whose answer is not looked at.
BugTakeIgnored(here, otherwise) ==
  /\ wait.at = here
  /\ event' = FALSE
  /\ wait' = [wait EXCEPT !.at = IF event /\ here # "retake" THEN "classify" ELSE otherwise,
                          !.late = {}]
  /\ UNCHANGED <<counter, generation, commands, timer, events>>

\* The event is consumed by whoever finds it set; late starts again with every
\* attempt.
TryTake(here, otherwise) ==
  /\ wait.at = here
  /\ event' = FALSE
  /\ wait' = [wait EXCEPT !.at = IF event THEN "classify" ELSE otherwise, !.late = {}]
  /\ UNCHANGED <<counter, generation, commands, timer, events>>

Resample ==
  /\ wait.at = "resample"
  /\ wait' = [wait EXCEPT !.at = IF generation # wait.observed THEN "retake" ELSE "clock"]
  /\ UNCHANGED <<counter, event, generation, commands, timer, events>>

Reobserve ==
  /\ wait.at = "reobserve"
  /\ wait' = [wait EXCEPT !.at = "clock", !.observed = generation]
  /\ UNCHANGED <<counter, event, generation, commands, timer, events>>

Returned(outcome) ==
  /\ wait' = [Idle EXCEPT !.at = "done", !.outcome = outcome]
  /\ UNCHANGED <<counter, event, generation, commands, timer, events>>

\* classify_interrupt_with_fresh_qpc: an interrupt at or after the target is
\* reported as the deadline.
ClassifyInterrupt ==
  /\ wait.at = "classify"
  /\ Returned(IF counter >= wait.target THEN "deadline" ELSE "interrupted")

Reaches == wait.at \in {"clock", "spin"} /\ counter >= wait.target /\ Returned("deadline")

Remaining == wait.target - counter

\* The timer is armed for what remains beyond the spin, and waited for with the
\* event or alone; without a timer the thread sleeps, but never so long that a
\* command waits behind a long gap.
Slept == LET beyond == Remaining - wait.threshold
         IN IF timer \/ beyond < Capped THEN beyond ELSE Capped

Approaches ==
  /\ wait.at = "clock" /\ counter < wait.target
  /\ wait' = IF Remaining <= wait.threshold
             THEN [wait EXCEPT !.at = "spin"]
             ELSE [wait EXCEPT !.at = IF ~timer THEN "sleep"
                                      ELSE IF events THEN "kernel" ELSE "timer",
                               !.due = counter + Slept]
  /\ UNCHANGED <<counter, event, generation, commands, timer, events>>

SpinNotices ==
  /\ wait.at = "spin" /\ events
  /\ generation # wait.observed
  /\ wait' = [wait EXCEPT !.at = "classify"]
  /\ UNCHANGED <<counter, event, generation, commands, timer, events>>

TimerFires ==
  /\ wait.at \in {"kernel", "timer"} /\ counter >= wait.due
  /\ wait' = [wait EXCEPT !.at = "clock", !.due = 0]
  /\ UNCHANGED <<counter, event, generation, commands, timer, events>>

EventFires == event /\ TryTake("kernel", "kernel")

\* WaitForMultipleObjects, the timer and every reading of the clock may fail.
WaitFails ==
  /\ wait.at \in {"kernel", "timer", "sleep", "clock", "spin", "classify"}
  /\ Returned("failed")

Wakes ==
  /\ wait.at = "sleep" /\ counter >= wait.due
  /\ IF counter >= wait.target
     THEN Returned("deadline")
     ELSE /\ wait' = [wait EXCEPT !.at = IF events THEN "resample" ELSE "clock"]
          /\ UNCHANGED <<counter, event, generation, commands, timer, events>>

WaitStep ==
  \/ TryTake("take", "resample") \/ Resample \/ TryTake("retake", "reobserve") \/ Reobserve
  \/ ClassifyInterrupt \/ Reaches \/ Approaches \/ SpinNotices \/ TimerFires \/ EventFires
  \/ Wakes \/ WaitFails

Surroundings == CounterAdvances \/ \E c \in Commanders : Command(c)

-----------------------------------------------------------------------------
(* The worker around the waits.                                            *)

workerVars == <<boot, production, limits, probed, terminal, ready, heard, waits>>
bootVars == <<waitVars, workerVars>>

BootInit ==
  /\ WaitInit
  /\ boot = "admission" /\ production \in BOOLEAN
  /\ limits = [startup |-> 0, probe |-> NoProbe]
  /\ probed = 0
  /\ terminal = "none" /\ ready = FALSE
  /\ heard = {} /\ waits = 0

\* The schedule, the clock, the wait backend, the focus, the keyboard, every
\* conversion and the coordinator: any of them may refuse, before or after the
\* event is cleared, and a conversion and the playback clock even after the
\* probe; the production wait is refused without a timer or without the event.
Refuses ==
  /\ \/ boot = "admission" /\ event' \in {event, FALSE}
     \/ boot = "publish" /\ UNCHANGED event
  /\ boot' = "refused"
  /\ UNCHANGED <<counter, generation, commands, timer, events, wait,
                 production, limits, probed, terminal, ready, heard, waits>>

\* startup_probe_deadline: the whole budget, in front of the readiness reserve.
ProbeDeadline(startup) ==
  IF production /\ startup - Reserve >= counter + Budget THEN counter + Budget ELSE NoProbe

\* Admission ends with a clear event: a command that came before is kept by
\* its flag alone.
Admits ==
  /\ boot = "admission"
  /\ production => timer /\ events
  /\ boot' = "probe"
  /\ event' = FALSE
  /\ LET startup == IF Epoch > Reserve THEN Epoch - Reserve ELSE 0
     IN limits' = [startup |-> startup, probe |-> ProbeDeadline(startup)]
  /\ UNCHANGED <<counter, generation, commands, timer, events, wait,
                 production, probed, terminal, ready, heard, waits>>

FitsProbe == counter + Gap <= limits.probe

ProbeStarts ==
  /\ boot = "probe" /\ wait.at = "idle"
  /\ limits.probe # NoProbe /\ probed \in 0 .. Samples - 1 /\ FitsProbe
  /\ wait' = Started(counter + Gap, 0)
  /\ UNCHANGED <<counter, event, generation, commands, timer, events, workerVars>>

\* Without room for a sample, or without a clock.
ProbeGivesUp ==
  /\ boot = "probe" /\ wait.at = "idle" /\ probed # Samples
  /\ boot' = "publish" /\ probed' = NoProbe
  /\ UNCHANGED <<waitVars, production, limits, terminal, ready, heard, waits>>

ProbeCompletes ==
  /\ boot = "probe" /\ probed = Samples
  /\ boot' = "publish"
  /\ UNCHANGED <<waitVars, production, limits, probed, terminal, ready, heard, waits>>

\* A sample that was interrupted, failed or ran over ends the probe, and so does
\* a clock that cannot be read after it.
ProbeEnds ==
  /\ boot = "probe" /\ wait.at = "done"
  /\ wait' = Idle
  /\ \/ /\ wait.outcome = "deadline" /\ counter <= limits.probe
        /\ probed' = probed + 1 /\ UNCHANGED boot
     \/ probed' = NoProbe /\ boot' = "publish"
  /\ UNCHANGED <<counter, event, generation, commands, timer, events,
                 production, limits, terminal, ready, heard, waits>>

\* The resources and the progress clock are published in either case; the
\* readiness sample, and then startup_ready or the terminal error (which a
\* failing clock is, too).
PublishesResources ==
  /\ boot = "publish"
  /\ boot' = "loop"
  /\ \/ counter <= limits.startup /\ ready' = TRUE /\ UNCHANGED terminal
     \/ counter > limits.startup /\ terminal' = "startup_deadline_missed" /\ UNCHANGED ready
     \/ terminal' = "clock" /\ UNCHANGED ready
  /\ UNCHANGED <<waitVars, production, limits, probed, heard, waits>>

-----------------------------------------------------------------------------
Asked == {c \in Commanders : commands[c] # "idle"}

\* The flags are read at the top of the loop; a terminal error ends it.
Reads ==
  /\ boot = "loop" /\ wait.at = "idle"
  /\ heard' = Asked
  /\ boot' = IF terminal # "none" THEN "ended" ELSE "planned"
  /\ UNCHANGED <<waitVars, production, limits, probed, terminal, ready, waits>>

\* wait_for_next_boundary: a target of the song is waited for with the spin, a
\* lease in front of it without; a target already reached needs no wait.
Waits ==
  /\ boot = "planned" /\ waits < MaxWaits
  /\ waits' = waits + 1
  /\ boot' = "loop"
  /\ \E target \in counter .. MaxCounter, threshold \in {0, Spin} :
        wait' = IF target = counter THEN wait ELSE Started(target, threshold)
  /\ UNCHANGED <<counter, event, generation, commands, timer, events,
                 production, limits, probed, terminal, ready, heard>>

\* The song is over, a command ends it, or an error comes before the wait.
LeavesLoop ==
  /\ boot \in {"loop", "planned"} /\ wait.at = "idle"
  /\ boot' = "ended"
  /\ terminal' \in {terminal, "loop"}
  /\ UNCHANGED <<waitVars, production, limits, probed, ready, heard, waits>>

\* record_wait_failure: a failed wait is terminal, every other outcome replans
\* or dispatches.
WaitReturns ==
  /\ boot = "loop" /\ wait.at = "done"
  /\ wait' = Idle
  /\ terminal' = IF wait.outcome = "failed" THEN "wait" ELSE terminal
  /\ UNCHANGED <<counter, event, generation, commands, timer, events,
                 boot, production, limits, probed, ready, heard, waits>>

BootStep ==
  \/ Refuses \/ Admits
  \/ ProbeStarts \/ ProbeGivesUp \/ ProbeCompletes \/ ProbeEnds
  \/ PublishesResources \/ Reads \/ Waits \/ WaitReturns \/ LeavesLoop

InWait == WaitStep /\ UNCHANGED workerVars
Around == Surroundings /\ UNCHANGED workerVars

BootNext == BootStep \/ InWait \/ Around

BootSpec == BootInit /\ [][BootNext]_bootVars

-----------------------------------------------------------------------------
\* No command sleeps behind a song gap: while the loop is blocked in the
\* kernel, a command that was completely sent and whose flag the loop has not
\* read has left the event set, whatever the boot, the probe and the earlier
\* waits consumed (event.rs signal, hybrid.rs handoff, boot.rs try_take).
SentCommandWakes ==
  boot = "loop" /\ wait.at = "kernel" /\ (\E c \in Commanders \ heard : commands[c] = "sent")
    => event

\* What hybrid.rs says of its handoff: a signal after the second consume is
\* seen by the generation check in the final spin.
SpinSeesTheSignal ==
  wait.at = "spin" /\ (\E c \in wait.late : commands[c] = "sent")
    => generation # wait.observed

=============================================================================
