------------------------------ MODULE MCEngine ------------------------------
(***************************************************************************)
(* The parts of the engine around the coordinator, each on a small         *)
(* instance of its own.  They share no state here (the README says where   *)
(* the code joins them), so one behaviour runs one of them: which says     *)
(* which, and the others keep their initial state.                         *)
(***************************************************************************)
EXTENDS DownAdmission, PlaybackClock, SnapshotBuffer, Boot, Observation

VARIABLES which, window, samples

Health == INSTANCE HealthWindow WITH
  N <- 3, MinimumSamples <- 2, BadSampleCount <- 2, DegradeHold <- 2,
  RecoveryHold <- 3, MaxGap <- 2, MaxSamples <- 7

\* Six boundaries: a first press, two that may be overtaken while the one
\* before waits, a release between them, and two at the same moment.
MCSong == << [at |-> 1, down |-> TRUE], [at |-> 3, down |-> TRUE],
             [at |-> 4, down |-> FALSE], [at |-> 5, down |-> TRUE],
             [at |-> 7, down |-> TRUE], [at |-> 7, down |-> TRUE] >>

windowVars == <<window, samples>>

-----------------------------------------------------------------------------
MCInit ==
  /\ which \in {"admission", "clock", "buffer", "boot", "observation", "health"}
  /\ Init /\ ClockInit /\ BufferInit
  /\ BootInit /\ (which = "boot" \/ (~timer /\ ~events /\ ~production))
  /\ ObservationInit /\ Health!HealthInit

Rest(part) ==
  /\ which = part /\ UNCHANGED which
  /\ IF part = "admission" THEN TRUE ELSE UNCHANGED vars
  /\ IF part = "clock" THEN TRUE ELSE UNCHANGED clockVars
  /\ IF part = "buffer" THEN TRUE ELSE UNCHANGED bufferVars
  /\ IF part = "boot" THEN TRUE ELSE UNCHANGED bootVars
  /\ IF part = "observation" THEN TRUE ELSE UNCHANGED observationVars
  /\ IF part = "health" THEN TRUE ELSE UNCHANGED windowVars

MCNext ==
  \/ Rest("admission") /\ Next
  \/ Rest("clock") /\ ClockNext
  \/ Rest("buffer") /\ BufferNext
  \/ Rest("boot") /\ BootNext
  \/ Rest("observation") /\ ObservationNext
  \/ Rest("health") /\ Health!HealthNext

mcVars == <<which, vars, clockVars, bufferVars, bootVars, observationVars,
            windowVars>>

MCSpec == MCInit /\ [][MCNext]_mcVars

\* Two states that differ differ in the part that runs: TLC need not look at
\* the others, which have not moved.
MCView ==
  <<which, CASE which = "admission"   -> vars
             [] which = "clock"       -> clockVars
             [] which = "buffer"      -> bufferVars
             [] which = "boot"        -> bootVars
             [] which = "observation" -> observationVars
             [] which = "health"      -> windowVars>>

-----------------------------------------------------------------------------
\* HealthWindow: the running window says what the whole history says.
WindowIsItsHistory == Health!WindowIsItsHistory
=============================================================================
