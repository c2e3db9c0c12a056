---------------------------- MODULE EngineProofs ----------------------------
(***************************************************************************)
(* Proofs about the parts of the engine that keep time: the musical        *)
(* admission for every song and every grace, the playback clock for every  *)
(* length of session, and the snapshot buffer for any number of pollers,   *)
(* words and publications.  The parts share no variable, and each has its  *)
(* own specification and its own inductive invariant.                      *)
(***************************************************************************)
EXTENDS DownAdmission, PlaybackClock, SnapshotBuffer, Boot, Observation,
        SequenceTheorems, FiniteSetTheorems, TLAPS

(***************************************************************************)
(* DownAdmission.  The inductive invariant says what the down-boundary     *)
(* state stands for: a credit, or a rescue at the gate, that the last      *)
(* press was sent; an authorization, that its stamp was seen; and what a   *)
(* plan at the gate was classified from, which still holds there because   *)
(* targets do not move while it waits.                                     *)
(***************************************************************************)

Past ==
  \A b \in Boundaries : fate[b] = "pending" <=> b >= cursor

LastPressSent ==
  \A p \in Boundaries : Precedes(p, cursor) => fate[p] = "sent"

CreditInv ==
  down.kind = "credit" \/ (pc = "gate" /\ admission = "rescue") => LastPressSent

SeenInv ==
  /\ seen.boundary <= cursor
  /\ seen.boundary = cursor => down = Authorized(seen)
  /\ down.kind = "authorized" => down.stamp = seen

GateInv ==
  pc = "gate" =>
    /\ Playing /\ Due
    /\ admission = "missed" => Presses /\ seen # Stamp
    /\ admission = "normal" /\ Presses /\ started => seen = Stamp

PressedInv ==
  \A p \in Boundaries : pressed.boundary = p => pressed.at <= Song[p].at + Grace

DInv == TypeOK /\ Past /\ CreditInv /\ SeenInv /\ GateInv /\ PressedInv /\ RescueIsIsolated

LEMMA SongTyped ==
  /\ Len(Song) \in Nat \ {0} /\ Song[1].down
  /\ \A b \in Boundaries : Song[b].at \in Nat /\ Song[b].down \in BOOLEAN
<1>1. Len(Song) \in Nat \ {0} /\ Song[1].down
  BY SongAssumption
<1>2. \A b \in 1..Len(Song) : Song[b] \in [at : Nat, down : BOOLEAN]
  BY SongAssumption, ElementOfSeq
<1>. QED BY <1>1, <1>2 DEF Boundaries

LEMMA InitInvariant == Init => DInv
<1> SUFFICES ASSUME Init PROVE DInv
  OBVIOUS
<1> USE SongTyped DEF Init
<1>1. TypeOK
  <2>1. fate \in [Boundaries -> Fates]
    BY DEF Fates
  <2>2. None \in Stamps /\ [boundary |-> 0, at |-> 0] \in [boundary : 0..Len(Song), at : Int]
    BY DEF None, Stamps
  <2>3. Initial \in [kind : {"initial", "credit", "spent", "authorized"}, stamp : Stamps]
    BY <2>2 DEF Initial
  <2>4. cursor \in 1..(Len(Song) + 1)
    OBVIOUS
  <2>. QED BY <2>1, <2>2, <2>3, <2>4 DEF TypeOK
<1>2. Past /\ RescueIsIsolated
  BY DEF Past, RescueIsIsolated, Boundaries
<1>3. CreditInv /\ SeenInv /\ GateInv /\ PressedInv
  BY DEF CreditInv, SeenInv, GateInv, PressedInv, Initial, None, Boundaries
<1>. QED BY <1>1, <1>2, <1>3 DEF DInv

\* What the steps that neither advance nor observe keep.
LEMMA Kept ==
  ASSUME DInv, UNCHANGED <<cursor, fate, pressed>>
  PROVE  Past' /\ PressedInv' /\ RescueIsIsolated' /\ (LastPressSent => LastPressSent')
BY DEF DInv, Past, PressedInv, RescueIsIsolated, LastPressSent

LEMMA InvalidatedKeeps ==
  ASSUME DInv, Invalidated, UNCHANGED <<cursor, started>>
  PROVE  /\ down' \in [kind : {"initial", "credit", "spent", "authorized"}, stamp : Stamps]
         /\ (down = Initial <=> ~started)' /\ seen' \in Stamps
         /\ SeenInv' /\ down'.kind \in {"initial", "spent"}
BY SongTyped DEF DInv, TypeOK, Invalidated, SeenInv, Awaiting, Initial, None, Stamps, Authorized, Boundaries

\* A frame is done: the cursor moves past it.
LEMMA Advances ==
  ASSUME DInv, NEW f \in Fates \ {"pending"}, pc = "gate", Advance(f),
         f = "rescued" => LastPressSent
  PROVE  /\ cursor' \in 1..(Len(Song) + 1) /\ fate' \in [Boundaries -> Fates]
         /\ pc' \in {"top", "done"}
         /\ Past' /\ RescueIsIsolated'
         /\ (f = "sent" /\ (Presses \/ LastPressSent)) => LastPressSent'
<1> USE SongTyped DEF DInv
<1>1. cursor \in Boundaries /\ fate \in [Boundaries -> Fates]
      /\ fate' = [fate EXCEPT ![cursor] = f] /\ cursor' = cursor + 1
  BY DEF GateInv, Playing, Advance, TypeOK
<1>2. cursor' \in 1..(Len(Song) + 1) /\ fate' \in [Boundaries -> Fates] /\ pc' \in {"top", "done"}
  BY <1>1 DEF Boundaries, Advance
<1>3. \A b \in Boundaries : fate'[b] = IF b = cursor THEN f ELSE fate[b]
  BY <1>1
<1>4. Past'
  BY <1>1, <1>3 DEF Past, Boundaries
<1>5. RescueIsIsolated'
  <2> SUFFICES ASSUME NEW p \in Boundaries, NEW b \in Boundaries, Precedes(p, b), fate'[b] = "rescued"
               PROVE  fate'[p] = "sent"
    BY DEF RescueIsIsolated, Precedes
  <2>1. p < b
    BY DEF Precedes
  <2>2. CASE b = cursor
    BY <2>1, <2>2, <1>1, <1>3 DEF LastPressSent, Boundaries
  <2>3. CASE b # cursor
    <3>1. fate[b] = "rescued" /\ fate[p] = "sent"
      BY <2>3, <1>3 DEF RescueIsIsolated
    <3>2. b < cursor
      BY <3>1, <1>1 DEF Past, Boundaries
    <3>. QED BY <3>1, <3>2, <2>1, <1>1, <1>3 DEF Boundaries
  <2>. QED BY <2>2, <2>3
<1>6. ASSUME f = "sent", Presses \/ LastPressSent PROVE LastPressSent'
  <2> SUFFICES ASSUME NEW p \in Boundaries, Precedes(p, cursor + 1) PROVE fate'[p] = "sent"
    BY <1>1 DEF LastPressSent, Precedes
  <2>1. CASE p = cursor
    BY <2>1, <1>3, <1>6
  <2>2. CASE p # cursor
    <3>1. p < cursor /\ ~Presses
      BY <2>2, <1>1 DEF Precedes, Presses, Boundaries
    <3>2. Precedes(p, cursor)
      BY <3>1, <1>1 DEF Precedes, Boundaries
    <3>. QED BY <3>1, <3>2, <1>3, <1>6 DEF LastPressSent
  <2>. QED BY <2>1, <2>2
<1>. QED BY <1>2, <1>4, <1>5, <1>6

LEMMA TickInvariant == DInv /\ Tick => DInv'
<1> SUFFICES ASSUME DInv, Tick PROVE DInv'
  OBVIOUS
<1> USE SongTyped DEF DInv, Tick
<1>1. TypeOK'
  BY DEF TypeOK, Initial
<1>2. GateInv'
  BY DEF GateInv, TypeOK, Playing, Due, Target, Stamp, Presses, Boundaries
<1>3. CreditInv' /\ SeenInv'
  BY Kept DEF CreditInv, SeenInv, Authorized, LastPressSent
<1>. QED BY <1>1, <1>2, <1>3, Kept

LEMMA TopInvariant ==
  DInv /\ (Pause \/ Resume \/ PreflightStale \/ Replan) => DInv'
<1> SUFFICES ASSUME DInv, Pause \/ Resume \/ PreflightStale \/ Replan PROVE DInv'
  OBVIOUS
<1> USE SongTyped DEF DInv
<1>1. CASE Pause /\ started
  <2>1. Invalidated /\ pc' = pc /\ pc = "top" /\ paused' = TRUE
        /\ UNCHANGED <<time, cursor, started, admission, fate, pressed>>
    BY <1>1 DEF Pause
  <2>. QED BY <2>1, InvalidatedKeeps, Kept DEF TypeOK, time, CreditInv, GateInv
<1>2. CASE (Pause /\ ~started) \/ Resume \/ Replan
  <2>1. /\ pc' \in {"top", "done"} /\ paused' \in BOOLEAN
        /\ UNCHANGED <<time, cursor, down, started, admission, fate, seen, pressed>>
    BY <1>2 DEF Pause, Resume, Replan, TypeOK
  <2>. QED BY <2>1, Kept DEF TypeOK, time, CreditInv, GateInv, SeenInv, Initial
<1>3. CASE PreflightStale
  <2>1. Invalidated /\ pc' = "top" /\ UNCHANGED <<time, paused, cursor, started, admission, fate, pressed>>
    BY <1>3 DEF PreflightStale
  <2>. QED BY <2>1, InvalidatedKeeps, Kept DEF TypeOK, time, CreditInv, GateInv
<1>. QED BY <1>1, <1>2, <1>3

LEMMA ObserveInvariant == DInv /\ Observe => DInv'
<1> SUFFICES ASSUME DInv, Observe PROVE DInv'
  OBVIOUS
<1> USE SongTyped DEF DInv, Observe
<1>1. cursor \in Boundaries /\ Stamp \in Stamps /\ Stamp.boundary = cursor
  BY DEF Playing, Stamp, Stamps, Target, TypeOK, Boundaries
<1>2. TypeOK'
  BY <1>1 DEF TypeOK, time, Authorized, Initial, None
<1>3. SeenInv'
  BY <1>1 DEF SeenInv, Authorized, TypeOK, Boundaries, Initial
<1>4. CreditInv' /\ GateInv'
  BY Kept DEF CreditInv, GateInv, Authorized
<1>. QED BY <1>2, <1>3, <1>4, Kept

LEMMA ClassifyInvariant == DInv /\ Classify => DInv'
<1> SUFFICES ASSUME DInv, Classify PROVE DInv'
  OBVIOUS
<1> USE SongTyped DEF DInv, Classify
<1>1. cursor \in Boundaries /\ Playing /\ Due /\ Stamp.boundary = cursor /\ Presses \in BOOLEAN
  BY DEF Playing, Stamp, Presses
<1>2. TypeOK'
  BY DEF TypeOK, time, Awaiting, Initial, None, Stamps
<1>3. down' = down \/ (down.kind = "credit" /\ down' = Awaiting(FALSE))
  OBVIOUS
<1>4. SeenInv'
  BY <1>3 DEF SeenInv, Authorized, Awaiting
<1>5. Rescued => down.kind = "credit"
  BY DEF Rescued
<1>6. CreditInv'
  BY <1>3, <1>5, Kept DEF CreditInv, Awaiting
<1>7. GateInv'
  <2>1. admission' = "missed" => ~Normal
    OBVIOUS
  <2>2. admission' = "normal" => Normal
    BY DEF Rescued
  <2>3. Normal /\ Presses /\ started => seen = Stamp
    BY DEF Normal, Authorizes, SeenInv
  <2>4. ~Normal => Presses /\ seen # Stamp
    <3>1. SUFFICES ASSUME ~Normal, seen = Stamp PROVE FALSE
      BY DEF Normal
    <3>2. down = Authorized(Stamp)
      BY <3>1, <1>1 DEF SeenInv
    <3>. QED BY <3>1, <3>2 DEF Normal, Authorizes, Authorized
  <2>. QED BY <1>1, <2>1, <2>2, <2>3, <2>4
       DEF GateInv, Playing, Due, Target, Stamp, Presses, time
<1>. QED BY <1>2, <1>4, <1>6, <1>7, Kept

LEMMA GateInvariant ==
  DInv /\ (GateRejects \/ GateFindsTargetChanged \/ GateFindsFocusLost \/ SendFails) => DInv'
<1> SUFFICES ASSUME DInv, GateRejects \/ GateFindsTargetChanged \/ GateFindsFocusLost \/ SendFails
             PROVE  DInv'
  OBVIOUS
<1> USE SongTyped DEF DInv
<1>1. CASE GateFindsTargetChanged
  <2>1. Invalidated /\ pc' = "top" /\ UNCHANGED <<time, paused, cursor, started, admission, fate, pressed>>
    BY <1>1 DEF GateFindsTargetChanged
  <2>. QED BY <2>1, InvalidatedKeeps, Kept DEF TypeOK, time, CreditInv, GateInv
<1>2. CASE GateRejects \/ GateFindsFocusLost \/ SendFails
  <2>1. /\ pc' \in {"top", "done"} /\ paused' \in BOOLEAN
        /\ UNCHANGED <<time, cursor, down, started, admission, fate, seen, pressed>>
    BY <1>2 DEF GateRejects, GateFindsFocusLost, SendFails, TypeOK
  <2>. QED BY <2>1, Kept DEF TypeOK, time, CreditInv, GateInv, SeenInv, Initial
<1>. QED BY <1>1, <1>2

LEMMA MissInvariant ==
  ASSUME DInv, NEW f \in {"backlog", "late"}, pc = "gate", Missed(f)
  PROVE  DInv'
<1> USE SongTyped DEF DInv, Missed
<1>1. cursor \in Boundaries /\ cursor' = cursor + 1
  BY DEF GateInv, Playing, Advance
<1>2. /\ cursor' \in 1..(Len(Song) + 1) /\ fate' \in [Boundaries -> Fates]
      /\ pc' \in {"top", "done"} /\ Past' /\ RescueIsIsolated'
  <2>1. f \in Fates \ {"pending"} /\ f # "rescued" /\ Advance(f)
    BY DEF Fates
  <2>. QED BY <2>1, Advances
<1>3. down'.kind \in {"initial", "spent"} /\ down' \in [kind : {"initial", "credit", "spent", "authorized"}, stamp : Stamps]
      /\ (down' = Initial <=> down = Initial)
  BY DEF Awaiting, Initial, TypeOK, None, Stamps
<1>4. TypeOK'
  BY <1>2, <1>3 DEF TypeOK, time
<1>5. SeenInv'
  <2>1. seen' = seen /\ seen.boundary # cursor' /\ seen.boundary <= cursor'
    BY <1>1 DEF SeenInv, TypeOK, Stamps, Boundaries
  <2>2. down'.kind # "authorized"
    BY <1>3
  <2>. QED BY ONLY <2>1, <2>2 DEF SeenInv
<1>6. CreditInv' /\ GateInv' /\ PressedInv'
  BY <1>2, <1>3 DEF CreditInv, GateInv, PressedInv
<1>. QED BY <1>2, <1>4, <1>5, <1>6

LEMMA PressInvariant == DInv /\ Press => DInv'
<1> SUFFICES ASSUME DInv, Press PROVE DInv'
  OBVIOUS
<1> USE SongTyped, GraceAssumption DEF DInv, Press
<1> DEFINE f == IF admission = "rescue" THEN "rescued" ELSE "sent"
<1>1. cursor \in Boundaries /\ cursor' = cursor + 1
  BY DEF GateInv, Playing, Advance
<1>2. /\ cursor' \in 1..(Len(Song) + 1) /\ fate' \in [Boundaries -> Fates]
      /\ pc' \in {"top", "done"} /\ Past' /\ RescueIsIsolated'
      /\ (admission # "rescue" => LastPressSent')
  <2>1. f \in Fates \ {"pending"} /\ (f = "rescued" => LastPressSent) /\ (f = "sent" <=> admission # "rescue")
    BY DEF Fates, CreditInv
  <2>. QED BY <2>1, Advances
<1>3. /\ down' \in [kind : {"initial", "credit", "spent", "authorized"}, stamp : Stamps]
      /\ down'.kind = IF admission = "rescue" THEN "spent" ELSE "credit"
      /\ down' # Initial
  BY DEF Awaiting, Initial, None, Stamps
<1>4. pressed' \in [boundary : 0..Len(Song), at : Int] /\ pressed'.boundary = cursor
      /\ pressed'.at <= Song[cursor].at + Grace
  BY <1>1 DEF TypeOK, InTime, Target, Boundaries
<1>5. TypeOK'
  BY <1>2, <1>3, <1>4 DEF TypeOK, time
<1>6. SeenInv'
  BY <1>1, <1>3 DEF SeenInv, TypeOK, Stamps, Boundaries
<1>7. CreditInv' /\ GateInv' /\ PressedInv'
  BY <1>2, <1>3, <1>4 DEF CreditInv, GateInv, PressedInv
<1>. QED BY <1>2, <1>5, <1>6, <1>7

LEMMA LiftInvariant == DInv /\ Lift => DInv'
<1> SUFFICES ASSUME DInv, Lift PROVE DInv'
  OBVIOUS
<1> USE SongTyped DEF DInv, Lift
<1>1. cursor \in Boundaries /\ cursor' = cursor + 1
  BY DEF GateInv, Playing, Advance
<1>2. /\ cursor' \in 1..(Len(Song) + 1) /\ fate' \in [Boundaries -> Fates]
      /\ pc' \in {"top", "done"} /\ Past' /\ RescueIsIsolated'
      /\ (LastPressSent => LastPressSent')
  BY Advances DEF Fates
<1>3. TypeOK'
  BY <1>2 DEF TypeOK, time, Initial
<1>4. SeenInv' \/ down.kind = "authorized"
  BY <1>1 DEF SeenInv, TypeOK, Stamps, Boundaries, Authorized
<1>5. SeenInv'
  BY <1>1 DEF SeenInv, TypeOK, Stamps, Boundaries, Authorized
<1>6. CreditInv' /\ GateInv' /\ PressedInv'
  BY <1>2 DEF CreditInv, GateInv, PressedInv
<1>. QED BY <1>2, <1>3, <1>5, <1>6

LEMMA Invariance == Spec => []DInv
<1>1. DInv /\ [Next]_vars => DInv'
  <2> SUFFICES ASSUME DInv, [Next]_vars PROVE DInv'
    OBVIOUS
  <2>1. CASE Backlog \/ HardLate
    <3>1. CASE (HardLate /\ ~started) 
      <4>1. /\ pc' = "done" /\ UNCHANGED <<time, paused, cursor, down, started, admission, fate, seen, pressed>>
        BY <3>1 DEF HardLate
      <4>. QED BY <4>1, Kept DEF DInv, TypeOK, time, CreditInv, GateInv, SeenInv, Initial
    <3>2. CASE Backlog \/ (HardLate /\ started)
      BY <3>2, MissInvariant DEF Backlog, HardLate
    <3>. QED BY <2>1, <3>1, <3>2
  <2>2. CASE UNCHANGED vars
    BY <2>2 DEF vars, DInv, TypeOK, Past, CreditInv, SeenInv, GateInv, PressedInv, RescueIsIsolated,
                LastPressSent, Playing, Due, Target, Stamp, Presses, Initial, Authorized
  <2>. QED BY <2>1, <2>2, TickInvariant, TopInvariant, ObserveInvariant, ClassifyInvariant,
             GateInvariant, PressInvariant, LiftInvariant DEF Next
<1>. QED BY <1>1, InitInvariant, PTL DEF Spec

\* Types, for every song: a credit or an authorization only once started.
THEOREM TypeCorrect == Spec => []TypeOK
<1>1. DInv => TypeOK
  BY DEF DInv
<1>. QED BY <1>1, Invariance, PTL

\* No two late discoveries in a row are played.
THEOREM RescuesAreIsolated == Spec => []RescueIsIsolated
<1>1. DInv => RescueIsIsolated
  BY DEF DInv
<1>. QED BY <1>1, Invariance, PTL

\* A press that is no rescue was seen ahead of its very target.
THEOREM NormalPressesWereSeen == Spec => PressesWereSeen
<1>1. DInv /\ [Next]_vars => [NormalPress => seen = Stamp]_vars
  <2> SUFFICES ASSUME DInv, NormalPress PROVE seen = Stamp
    OBVIOUS
  <2>. QED BY DEF DInv, GateInv, NormalPress, Press
<1>. QED BY <1>1, Invariance, PTL DEF Spec, PressesWereSeen

\* What was seen ahead of its target is not dropped as backlog.
THEOREM SeenIsPlayed == Spec => SeenIsNotBacklog
<1>1. DInv /\ [Next]_vars => [Backlog => seen # Stamp]_vars
  <2> SUFFICES ASSUME DInv, Backlog PROVE seen # Stamp
    OBVIOUS
  <2>. QED BY DEF DInv, GateInv, Backlog
<1>. QED BY <1>1, Invariance, PTL DEF Spec, SeenIsNotBacklog

\* Presses keep the gaps of the song, less the grace.
THEOREM GapsAreKept == Spec => PressesKeepTheGap
<1>1. DInv /\ [Next]_vars => [KeepsTheGap]_vars
  <2> SUFFICES ASSUME DInv, NEW p \in Boundaries, Press, pressed.boundary = p
               PROVE  now - shift - pressed.at >= Song[cursor].at - Song[p].at - Grace
    BY DEF KeepsTheGap
  <2>1. cursor \in Boundaries /\ Song[cursor].at + shift <= now
    BY DEF DInv, GateInv, Press, Playing, Due, Target
  <2>2. pressed.at <= Song[p].at + Grace
    BY DEF DInv, PressedInv
  <2>3. now \in Nat /\ shift \in Nat /\ pressed.at \in Int
    BY DEF DInv, TypeOK
  <2>4. Song[cursor].at \in Nat /\ Song[p].at \in Nat
    BY <2>1, SongTyped
  <2>. QED BY <2>1, <2>2, <2>3, <2>4, GraceAssumption
<1>. QED BY <1>1, Invariance, PTL DEF Spec, PressesKeepTheGap, KeepsTheGap

-----------------------------------------------------------------------------
(***************************************************************************)
(* PlaybackClock.  The position is never ahead of the time played because  *)
(* the interval that is open began no later than now and everything paused *)
(* so far is in the pause time or in that interval; and the worker's       *)
(* sample is never in the future, which is why an interval opened with it  *)
(* is no shorter than the pause it stands for.                             *)
(***************************************************************************)

(* No sample, and so no open interval, lies in the future. *)
SamplesArePast ==
  /\ sampled <= qpc
  /\ Paused => opened <= qpc

ClockInv ==
  /\ ClockTypeOK
  /\ SamplesArePast
  /\ NeverAheadOfPlayback

(* Opening or joining the pause interval at a past sample keeps ClockInv. *)
LEMMA EnterKeepsClock ==
  ASSUME ClockInv, NEW reason \in Reason, NEW at \in Nat, at <= qpc,
         EnterPause(reason, at), UNCHANGED <<qpc, played>>
  PROVE  /\ reasons' \in SUBSET Reason
         /\ opened' \in Nat
         /\ Paused'
         /\ pauseTime' \in Nat
         /\ opened' <= qpc
         /\ NeverAheadOfPlayback'
         /\ Paused => Elapsed' = Elapsed
  BY DEF ClockInv, ClockTypeOK, SamplesArePast, NeverAheadOfPlayback, Elapsed, Paused,
         EnterPause, NoTicks

(* Leaving a pause keeps ClockInv and does not move the position. *)
LEMMA ExitKeepsClock ==
  ASSUME ClockInv, NEW reason \in reasons, ExitPause(reason),
         UNCHANGED <<qpc, played>>
  PROVE  /\ reasons' \in SUBSET Reason
         /\ opened' \in Nat \cup {NoTicks}
         /\ Paused' <=> opened' # NoTicks
         /\ Paused' => opened' <= qpc
         /\ pauseTime' \in Nat
         /\ NeverAheadOfPlayback'
         /\ Elapsed' = Elapsed
<1>1. CASE reasons = {reason}
  BY <1>1 DEF ClockInv, ClockTypeOK, SamplesArePast, NeverAheadOfPlayback, Elapsed,
         Paused, ExitPause, NoTicks
<1>2. CASE reasons # {reason}
  BY <1>2 DEF ClockInv, ClockTypeOK, SamplesArePast, NeverAheadOfPlayback, Elapsed,
         Paused, ExitPause, NoTicks
<1> QED BY <1>1, <1>2

(* The initial state satisfies the inductive invariant. *)
LEMMA ClockInvInit == ClockInit => ClockInv
<1> SUFFICES ASSUME ClockInit PROVE ClockInv
  OBVIOUS
<1>1. ~ Paused
  BY DEF ClockInit, Paused
<1>2. ClockTypeOK
  BY <1>1 DEF ClockInit, ClockTypeOK, Reason
<1>3. SamplesArePast /\ NeverAheadOfPlayback
  BY <1>1 DEF ClockInit, SamplesArePast, NeverAheadOfPlayback, Elapsed
<1> QED BY <1>2, <1>3 DEF ClockInv

(* One step keeps the inductive invariant and freezes a paused position. *)
LEMMA ClockInvNext ==
  ClockInv /\ [ClockNext]_clockVars => ClockInv' /\ (Paused => Elapsed' = Elapsed)
<1> SUFFICES ASSUME ClockInv, [ClockNext]_clockVars
             PROVE  ClockInv' /\ (Paused => Elapsed' = Elapsed)
  OBVIOUS
<1> USE DEF ClockInv, ClockTypeOK, SamplesArePast, NoTicks
<1>1. CASE CounterTicks
  BY <1>1 DEF CounterTicks, SameClock, NeverAheadOfPlayback, Elapsed, Paused
<1>2. CASE FocusChanges \/ PauseToggles \/ UNCHANGED clockVars
  BY <1>2 DEF FocusChanges, PauseToggles, clockVars, SameClock,
              NeverAheadOfPlayback, Elapsed, Paused
<1>3. CASE Sample \/ KeepFocus \/ FocusBack \/ GraceRuns \/ KeepManual
           \/ Continue
  BY <1>3 DEF Sample, KeepFocus, FocusBack, GraceRuns, KeepManual, Continue,
              WorkerStep, SameClock, NeverAheadOfPlayback, Elapsed, Paused
<1>4. CASE LoseFocus
  <2>1. EnterPause("Focus", sampled) /\ UNCHANGED <<qpc, played>>
    BY <1>4 DEF LoseFocus, WorkerStep
  <2>2. /\ UNCHANGED <<focus, want, sampled, wantSeen>>
        /\ marker' = NoTicks
        /\ step' = "manual"
    BY <1>4 DEF LoseFocus, WorkerStep
  <2> QED BY <2>1, <2>2, EnterKeepsClock DEF Reason
<1>5. CASE RestoreFocus
  <2>1. CASE focus
    <3>1. /\ ExitPause("Focus")
          /\ UNCHANGED <<qpc, played, focus, want, sampled, wantSeen>>
          /\ marker' = NoTicks
          /\ step' = "manual"
      BY <1>5, <2>1 DEF RestoreFocus, WorkerStep
    <3>2. CASE "Focus" \in reasons
      BY <3>1, <3>2, ExitKeepsClock
    <3>3. CASE "Focus" \notin reasons
      BY <3>1, <3>3 DEF ExitPause, NeverAheadOfPlayback, Elapsed, Paused
    <3> QED BY <3>2, <3>3
  <2>2. CASE ~ focus
    BY <1>5, <2>2 DEF RestoreFocus, WorkerStep, SameClock,
                      NeverAheadOfPlayback, Elapsed, Paused
  <2> QED BY <2>1, <2>2
<1>6. CASE EnterManual
  <2>1. EnterPause("Manual", sampled) /\ UNCHANGED <<qpc, played>>
    BY <1>6 DEF EnterManual, WorkerStep
  <2>2. UNCHANGED <<focus, want, sampled, wantSeen, marker>> /\ step' = "gate"
    BY <1>6 DEF EnterManual, WorkerStep
  <2> QED BY <2>1, <2>2, EnterKeepsClock DEF Reason
<1>7. CASE ExitManual
  <2>1. CASE focus
    <3>1. /\ ExitPause("Manual")
          /\ "Manual" \in reasons
          /\ UNCHANGED <<qpc, played, focus, want, sampled, wantSeen, marker>>
          /\ step' = "gate"
      BY <1>7, <2>1 DEF ExitManual, WorkerStep
    <3> QED BY <3>1, ExitKeepsClock
  <2>2. CASE ~ focus
    BY <1>7, <2>2 DEF ExitManual, WorkerStep, SameClock,
                      NeverAheadOfPlayback, Elapsed, Paused
  <2> QED BY <2>1, <2>2
<1>8. CASE GateLosesFocus
  <2>1. PICK at \in sampled..qpc : EnterPause("Focus", at)
    BY <1>8 DEF GateLosesFocus
  <2>2. at \in Nat /\ at <= qpc
    BY <2>1
  <2>3. /\ UNCHANGED <<qpc, played, focus, want, sampled, wantSeen>>
        /\ marker' = NoTicks
        /\ step' = "top"
    BY <1>8 DEF GateLosesFocus, WorkerStep
  <2> QED BY <2>1, <2>2, <2>3, EnterKeepsClock DEF Reason
<1> QED
  BY <1>1, <1>2, <1>3, <1>4, <1>5, <1>6, <1>7, <1>8 DEF ClockNext

(* The inductive invariant holds in every reachable state. *)
THEOREM ClockInvariance == ClockSpec => []ClockInv
  BY ClockInvInit, ClockInvNext, PTL DEF ClockSpec

(* TypeOK holds for every grace and session length. *)
THEOREM ClockTypeCorrect == ClockSpec => []ClockTypeOK
<1>1. ClockInv => ClockTypeOK
  BY DEF ClockInv
<1> QED BY <1>1, ClockInvariance, PTL

(* Pauses never lose time: the position is never ahead of what was played. *)
THEOREM NothingIsSkipped == ClockSpec => []NeverAheadOfPlayback
<1>1. ClockInv => NeverAheadOfPlayback
  BY DEF ClockInv
<1> QED BY <1>1, ClockInvariance, PTL

(* The position stands still while any reason holds the clock, and no step *)
(* brings it ahead of what was played.                                     *)
THEOREM PositionIsWhatWasPlayed == ClockSpec => PositionIsPlayed
<1>1. ClockInv /\ [ClockNext]_clockVars =>
        [(Paused => Elapsed' = Elapsed) /\ NeverAheadOfPlayback']_clockVars
  BY ClockInvNext DEF ClockInv
<1> QED BY <1>1, ClockInvariance, PTL DEF ClockSpec, PositionIsPlayed

-----------------------------------------------------------------------------
(***************************************************************************)
(* SnapshotBuffer.  With one publisher the double buffer is atomic: the    *)
(* publisher fills the slot that is not active, the active slot is the     *)
(* last complete publication, and nobody copies a slot that is filled.     *)
(***************************************************************************)

PublisherRecord ==
  [step : {"idle", "due", "chosen", "fill", "closed"}, terminal : BOOLEAN,
   number : Nat, into : Slots, left : SUBSET Fields]

PollerRecord ==
  [step : {"idle", "index", "pin", "recheck", "copy", "return", "retry"},
   from : Slots, left : SUBSET Fields, copy : [Fields -> Nat],
   got : [Fields -> Nat]]

BufferTypes ==
  /\ active \in Slots /\ begun \in Nat /\ current \in Nat
  /\ slot \in [Slots -> [Fields -> Nat]]
  /\ pins \in [Slots -> SUBSET Pollers]
  /\ publisher \in [Publishers -> PublisherRecord]
  /\ poller \in [Pollers -> PollerRecord]

PublisherInv ==
  /\ slot[active] = Snapshot(current)
  /\ \A p \in Publishers :
       /\ publisher[p].step \in {"chosen", "fill"} => publisher[p].into = 1 - active
       /\ publisher[p].step = "fill" =>
            \A f \in Fields \ publisher[p].left :
              slot[publisher[p].into][f] = publisher[p].number

PollerInv ==
  \A r \in Pollers :
    /\ poller[r].step \in {"recheck", "copy"} => r \in pins[poller[r].from]
    /\ poller[r].step = "copy" =>
         /\ \A f \in Fields \ poller[r].left :
              poller[r].copy[f] = slot[poller[r].from][f]
         /\ \A p \in Publishers :
              publisher[p].step = "fill" => publisher[p].into # poller[r].from

BInv == BufferTypes /\ PublisherInv /\ PollerInv

OnePublisher == \A p, q \in Publishers : p = q

LEMMA OtherSlot == \A i \in Slots : 1 - i \in Slots /\ 1 - i # i
BY DEF Slots

LEMMA BufferInitInvariant == BufferInit => BInv
BY DEF BufferInit, BInv, BufferTypes, PublisherInv, PollerInv, PublisherRecord,
       PollerRecord, Snapshot, Waiting, Polled, Slots

\* One record replaced by another of its type.
Publishes(p, rec) == publisher' = [publisher EXCEPT ![p] = rec]

Polls(r, rec) == poller' = [poller EXCEPT ![r] = rec]

LEMMA PublisherPut ==
  ASSUME BufferTypes, NEW p \in Publishers, NEW rec \in PublisherRecord, Publishes(p, rec)
  PROVE  /\ publisher' \in [Publishers -> PublisherRecord] /\ publisher'[p] = rec
         /\ \A q \in Publishers \ {p} : publisher'[q] = publisher[q]
BY DEF BufferTypes, Publishes

LEMMA PollerPut ==
  ASSUME BufferTypes, NEW r \in Pollers, NEW rec \in PollerRecord, Polls(r, rec)
  PROVE  /\ poller' \in [Pollers -> PollerRecord] /\ poller'[r] = rec
         /\ \A q \in Pollers \ {r} : poller'[q] = poller[q]
BY DEF BufferTypes, Polls

\* The parts of a record.
LEMMA PublisherParts ==
  ASSUME BufferTypes, NEW p \in Publishers
  PROVE  /\ publisher[p] \in PublisherRecord /\ publisher[p].terminal \in BOOLEAN
         /\ publisher[p].number \in Nat /\ publisher[p].into \in Slots
         /\ publisher[p].left \in SUBSET Fields
<1>1. publisher[p] \in PublisherRecord
  BY DEF BufferTypes
<1>. QED BY ONLY <1>1 DEF PublisherRecord

LEMMA PollerParts ==
  ASSUME BufferTypes, NEW r \in Pollers
  PROVE  /\ poller[r] \in PollerRecord /\ poller[r].from \in Slots
         /\ poller[r].left \in SUBSET Fields
         /\ poller[r].copy \in [Fields -> Nat] /\ poller[r].got \in [Fields -> Nat]
<1>1. poller[r] \in PollerRecord
  BY DEF BufferTypes
<1>. QED BY ONLY <1>1 DEF PollerRecord

\* A poller's step that leaves the buffer alone keeps the publisher's side,
\* and the poller's if its new record is no copy under a pin.
LEMMA PollerMoves ==
  ASSUME BInv, NEW r \in Pollers, NEW rec \in PollerRecord, Polls(r, rec),
         UNCHANGED <<active, slot, begun, current, publisher>>,
         pins' \in [Slots -> SUBSET Pollers],
         \A q \in Pollers \ {r}, i \in Slots : q \in pins[i] => q \in pins'[i],
         rec.step \notin {"recheck", "copy"}
  PROVE  BInv' /\ poller'[r] = rec
         /\ \A q \in Pollers \ {r} : poller'[q].got = poller[q].got
<1>1. /\ poller' \in [Pollers -> PollerRecord] /\ poller'[r] = rec
      /\ \A q \in Pollers \ {r} : poller'[q] = poller[q]
  BY PollerPut DEF BInv
<1>2. BufferTypes'
  BY <1>1 DEF BInv, BufferTypes
<1>3. PublisherInv'
  BY DEF BInv, PublisherInv
<1>4. PollerInv'
  <2>1. \A q \in Pollers : poller[q].from \in Slots
    BY PollerParts DEF BInv
  <2> SUFFICES ASSUME NEW q \in Pollers, poller'[q].step \in {"recheck", "copy"}
               PROVE  /\ q \in pins'[poller'[q].from]
                      /\ poller'[q].step = "copy" =>
                           /\ \A f \in Fields \ poller'[q].left :
                                poller'[q].copy[f] = slot'[poller'[q].from][f]
                           /\ \A p \in Publishers :
                                publisher'[p].step = "fill"
                                  => publisher'[p].into # poller'[q].from
    BY DEF PollerInv
  <2>2. q # r /\ poller'[q] = poller[q]
    BY <1>1
  <2>3. q \in pins'[poller[q].from]
    BY <2>1, <2>2 DEF BInv, PollerInv
  <2>. QED BY <2>2, <2>3 DEF BInv, PollerInv
<1>. QED BY <1>1, <1>2, <1>3, <1>4 DEF BInv

\* A step of the publisher: only the move of the index changes what a load
\* would return.
LEMMA PublishingInvariant ==
  ASSUME OnePublisher, BInv, NEW p \in Publishers,
         Publishing(p) \/ \E last \in BOOLEAN : BeginSnapshot(p, last)
  PROVE  BInv' /\ UNCHANGED poller
<1>1. BufferTypes /\ PublisherInv /\ PollerInv
  BY DEF BInv
<1>2. \A q \in Publishers : q = p
  BY DEF OnePublisher
<1>3. /\ publisher[p] \in PublisherRecord /\ publisher[p].number \in Nat
      /\ publisher[p].into \in Slots /\ publisher[p].left \in SUBSET Fields
  BY <1>1, PublisherParts
<1>4. /\ publisher[p].step \in {"chosen", "fill"} => publisher[p].into = 1 - active
      /\ publisher[p].step = "fill" =>
           \A f \in Fields \ publisher[p].left :
             slot[publisher[p].into][f] = publisher[p].number
  BY <1>1 DEF PublisherInv
<1>5. active \in Slots /\ 1 - active \in Slots /\ 1 - active # active
  BY <1>1, OtherSlot DEF BufferTypes
\* A record that is not filled is all there is to show.
<1>6. ASSUME NEW rec \in PublisherRecord, Publishes(p, rec), begun' \in Nat,
             UNCHANGED <<active, slot, pins, current, poller>>,
             rec.step \in {"chosen", "fill"} => rec.into = 1 - active,
             rec.step = "fill" =>
               /\ rec.left = Fields
               /\ \A r \in Pollers :
                    poller[r].step = "copy" => rec.into # poller[r].from
      PROVE  BInv' /\ UNCHANGED poller
  <2>1. /\ publisher' \in [Publishers -> PublisherRecord] /\ publisher'[p] = rec
    BY <1>1, <1>6, PublisherPut
  <2>2. BufferTypes'
    BY <1>1, <1>6, <2>1 DEF BufferTypes
  <2>3. PublisherInv'
    BY <1>1, <1>2, <1>6, <2>1 DEF PublisherInv, Snapshot
  <2>4. PollerInv'
    BY <1>1, <1>2, <1>6, <2>1 DEF PollerInv
  <2>. QED BY <1>6, <2>2, <2>3, <2>4 DEF BInv
<1>7. ASSUME NEW last \in BOOLEAN, BeginSnapshot(p, last)
      PROVE  BInv' /\ UNCHANGED poller
  <2>. DEFINE rec == [publisher[p] EXCEPT !.step = "due", !.number = begun + 1,
                                          !.terminal = last]
  <2>1. Publishes(p, rec) /\ begun' = begun + 1
        /\ UNCHANGED <<active, slot, pins, current, poller>>
    BY <1>7 DEF BeginSnapshot, Publishes
  <2>2. begun + 1 \in Nat
    BY <1>1 DEF BufferTypes
  <2>3. rec \in PublisherRecord /\ rec.step = "due"
    BY ONLY <1>3, <2>2 DEF PublisherRecord
  <2>. HIDE DEF rec
  <2>. QED BY <1>6, <2>1, <2>2, <2>3
<1>8. CASE ChooseSlot(p)
  <2>. DEFINE rec == [publisher[p] EXCEPT !.step = "chosen", !.into = 1 - active]
  <2>1. Publishes(p, rec) /\ UNCHANGED <<active, slot, pins, begun, current, poller>>
    BY <1>8 DEF ChooseSlot, Publishes
  <2>2. rec \in PublisherRecord /\ rec.step = "chosen" /\ rec.into = 1 - active
    BY ONLY <1>3, <1>5 DEF PublisherRecord
  <2>3. begun' \in Nat
    BY <1>1, <2>1 DEF BufferTypes
  <2>. HIDE DEF rec
  <2>. QED BY <1>6, <2>1, <2>2, <2>3
<1>9. CASE SlotIsFree(p)
  <2>. DEFINE rec == [publisher[p] EXCEPT !.step = "fill", !.left = Fields]
  <2>1. Publishes(p, rec) /\ UNCHANGED <<active, slot, pins, begun, current, poller>>
        /\ publisher[p].step = "chosen" /\ pins[publisher[p].into] = {}
    BY <1>9 DEF SlotIsFree, Publishes
  <2>2. /\ rec \in PublisherRecord /\ rec.step = "fill" /\ rec.left = Fields
        /\ rec.into = publisher[p].into
    BY ONLY <1>3 DEF PublisherRecord
  <2>3. begun' \in Nat
    BY <1>1, <2>1 DEF BufferTypes
  <2>. HIDE DEF rec
  <2>4. \A r \in Pollers : poller[r].step = "copy" => rec.into # poller[r].from
    BY <1>1, <2>1, <2>2 DEF PollerInv
  <2>. QED BY <1>4, <1>6, <2>1, <2>2, <2>3, <2>4
<1>10. CASE SlotIsHeld(p)
  <2>. DEFINE rec == [publisher[p] EXCEPT !.step =
                        IF publisher[p].terminal THEN "due" ELSE "idle"]
  <2>1. Publishes(p, rec) /\ UNCHANGED <<active, slot, pins, begun, current, poller>>
    BY <1>10 DEF SlotIsHeld, Publishes
  <2>2. rec \in PublisherRecord /\ rec.step \in {"due", "idle"}
    BY ONLY <1>3 DEF PublisherRecord
  <2>3. begun' \in Nat
    BY <1>1, <2>1 DEF BufferTypes
  <2>. HIDE DEF rec
  <2>. QED BY <1>6, <2>1, <2>2, <2>3
<1>11. ASSUME NEW f \in Fields, FillField(p, f)
       PROVE  BInv' /\ UNCHANGED poller
  <2>. DEFINE i == publisher[p].into
  <2>. DEFINE rec == [publisher[p] EXCEPT !.left = publisher[p].left \ {f}]
  <2>1. /\ slot' = [slot EXCEPT ![i] = [slot[i] EXCEPT ![f] = publisher[p].number]]
        /\ Publishes(p, rec) /\ publisher[p].step = "fill"
        /\ UNCHANGED <<active, pins, begun, current, poller>>
    BY <1>11 DEF FillField, Publishes
  <2>2. /\ rec \in PublisherRecord /\ rec.step = publisher[p].step /\ rec.into = i
        /\ rec.number = publisher[p].number /\ rec.left = publisher[p].left \ {f}
    BY ONLY <1>3 DEF PublisherRecord
  <2>. HIDE DEF rec
  <2>3. i \in Slots /\ i # active
    BY <1>3, <1>4, <1>5, <2>1
  <2>. HIDE DEF i
  <2>4. slot[i] \in [Fields -> Nat]
    BY <1>1, <2>3 DEF BufferTypes
  <2>5. /\ slot' \in [Slots -> [Fields -> Nat]]
        /\ \A j \in Slots \ {i} : slot'[j] = slot[j]
        /\ \A g \in Fields : slot'[i][g] = IF g = f THEN publisher[p].number ELSE slot[i][g]
    BY <1>1, <1>3, <2>1, <2>3, <2>4 DEF BufferTypes
  <2>6. /\ publisher' \in [Publishers -> PublisherRecord] /\ publisher'[p] = rec
    BY <1>1, <2>1, <2>2, PublisherPut
  <2>7. BufferTypes'
    BY <1>1, <2>1, <2>5, <2>6 DEF BufferTypes
  <2>8. slot'[active] = slot[active]
    BY <1>5, <2>3, <2>5
  <2>9. PublisherInv'
    <3>1. slot'[active'] = Snapshot(current')
      BY <1>1, <2>1, <2>8 DEF PublisherInv
    <3>2. rec.into = 1 - active'
      BY <1>4, <2>1, <2>2 DEF i
    <3>3. \A g \in Fields \ rec.left : slot'[i][g] = rec.number
      BY <1>4, <2>1, <2>2, <2>5 DEF i
    <3>. QED BY <1>2, <2>2, <2>6, <3>1, <3>2, <3>3 DEF PublisherInv
  <2>10. PollerInv'
    <3> SUFFICES ASSUME NEW r \in Pollers, poller[r].step = "copy"
                 PROVE  /\ \A g \in Fields \ poller[r].left :
                             poller[r].copy[g] = slot'[poller[r].from][g]
                        /\ rec.into # poller[r].from
      BY <1>1, <1>2, <2>1, <2>6 DEF PollerInv
    <3>1. poller[r].from \in Slots /\ poller[r].from # i
      BY <1>1, <2>1, PollerParts DEF PollerInv, i
    <3>. QED BY <1>1, <2>2, <2>5, <3>1 DEF PollerInv
  <2>. QED BY <2>1, <2>7, <2>9, <2>10 DEF BInv
<1>12. CASE MoveIndex(p)
  <2>. DEFINE rec == [publisher[p] EXCEPT !.step =
                        IF publisher[p].terminal THEN "closed" ELSE "idle"]
  <2>1. /\ active' = publisher[p].into /\ current' = publisher[p].number
        /\ Publishes(p, rec) /\ UNCHANGED <<slot, pins, begun, poller>>
        /\ publisher[p].step = "fill" /\ publisher[p].left = {}
    BY <1>12 DEF MoveIndex, Publishes
  <2>2. rec \in PublisherRecord /\ rec.step \in {"closed", "idle"}
    BY ONLY <1>3 DEF PublisherRecord
  <2>. HIDE DEF rec
  <2>3. publisher' \in [Publishers -> PublisherRecord] /\ publisher'[p] = rec
    BY <1>1, <2>1, <2>2, PublisherPut
  <2>4. slot[publisher[p].into] = Snapshot(publisher[p].number)
    <3>1. slot[publisher[p].into] \in [Fields -> Nat]
      BY <1>1, <1>3 DEF BufferTypes
    <3>2. \A f \in Fields : slot[publisher[p].into][f] = publisher[p].number
      BY <1>4, <2>1
    <3>. QED BY ONLY <3>1, <3>2 DEF Snapshot
  <2>5. BufferTypes'
    BY <1>1, <1>3, <2>1, <2>3 DEF BufferTypes
  <2>6. PublisherInv'
    BY <1>2, <2>1, <2>2, <2>3, <2>4 DEF PublisherInv
  <2>7. PollerInv'
    BY <1>1, <1>2, <2>1, <2>2, <2>3 DEF PollerInv
  <2>. QED BY <2>1, <2>5, <2>6, <2>7 DEF BInv
<1>. QED BY <1>7, <1>8, <1>9, <1>10, <1>11, <1>12 DEF Publishing

\* A step of a poller: its result changes only to the last publication.
LEMMA PollingInvariant ==
  ASSUME BInv, NEW r \in Pollers, StartPoll(r) \/ Polling(r)
  PROVE  /\ BInv' /\ UNCHANGED current
         /\ \/ \A q \in Pollers : poller'[q].got = poller[q].got
            \/ /\ poller'[r].got = Snapshot(current)
               /\ \A q \in Pollers \ {r} : poller'[q].got = poller[q].got
<1>1. BufferTypes /\ PublisherInv /\ PollerInv
  BY DEF BInv
<1>2. /\ poller[r] \in PollerRecord /\ poller[r].from \in Slots
      /\ poller[r].left \in SUBSET Fields
      /\ poller[r].copy \in [Fields -> Nat] /\ poller[r].got \in [Fields -> Nat]
  BY <1>1, PollerParts
<1>3. /\ active \in Slots /\ pins \in [Slots -> SUBSET Pollers]
      /\ slot[poller[r].from] \in [Fields -> Nat]
  BY <1>1, <1>2 DEF BufferTypes
<1>4. CASE StartPoll(r)
  <2>. DEFINE rec == [poller[r] EXCEPT !.step = "index"]
  <2>1. Polls(r, rec) /\ UNCHANGED <<active, slot, pins, begun, current, publisher>>
    BY <1>4 DEF StartPoll, Polls
  <2>2. rec \in PollerRecord /\ rec.step = "index" /\ rec.got = poller[r].got
    BY ONLY <1>2 DEF PollerRecord
  <2>. HIDE DEF rec
  <2>. QED BY <1>3, <2>1, <2>2, PollerMoves
<1>5. CASE ReadIndex(r)
  <2>. DEFINE rec == [poller[r] EXCEPT !.step = "pin", !.from = active]
  <2>1. Polls(r, rec) /\ UNCHANGED <<active, slot, pins, begun, current, publisher>>
    BY <1>5 DEF ReadIndex, Polls
  <2>2. rec \in PollerRecord /\ rec.step = "pin" /\ rec.got = poller[r].got
    BY ONLY <1>2, <1>3 DEF PollerRecord
  <2>. HIDE DEF rec
  <2>. QED BY <1>3, <2>1, <2>2, PollerMoves
<1>6. CASE Pin(r)
  <2>. DEFINE rec == [poller[r] EXCEPT !.step = "recheck"]
  <2>1. /\ Polls(r, rec)
        /\ pins' = [pins EXCEPT ![poller[r].from] = pins[poller[r].from] \union {r}]
        /\ UNCHANGED <<active, slot, begun, current, publisher>>
    BY <1>6 DEF Pin, Polls
  <2>2. /\ rec \in PollerRecord /\ rec.step = "recheck" /\ rec.got = poller[r].got
        /\ rec.from = poller[r].from
    BY ONLY <1>2 DEF PollerRecord
  <2>. HIDE DEF rec
  <2>3. /\ pins' \in [Slots -> SUBSET Pollers] /\ r \in pins'[rec.from]
        /\ \A i \in Slots : pins[i] \subseteq pins'[i]
    BY <1>2, <1>3, <2>1, <2>2
  <2>4. /\ poller' \in [Pollers -> PollerRecord] /\ poller'[r] = rec
        /\ \A q \in Pollers \ {r} : poller'[q] = poller[q]
    BY <1>1, <2>1, <2>2, PollerPut
  <2>5. BufferTypes'
    BY <1>1, <2>1, <2>3, <2>4 DEF BufferTypes
  <2>6. PollerInv'
    <3>1. \A q \in Pollers : poller[q].from \in Slots
      BY <1>1, PollerParts
    <3> SUFFICES ASSUME NEW q \in Pollers \ {r}
                 PROVE  /\ poller[q].step \in {"recheck", "copy"}
                             => q \in pins'[poller[q].from]
                        /\ poller[q].step = "copy" =>
                             /\ \A f \in Fields \ poller[q].left :
                                  poller[q].copy[f] = slot'[poller[q].from][f]
                             /\ \A p \in Publishers :
                                  publisher'[p].step = "fill"
                                    => publisher'[p].into # poller[q].from
      BY <2>2, <2>3, <2>4 DEF PollerInv
    <3>. QED BY <1>1, <2>1, <2>3, <3>1 DEF PollerInv
  <2>7. PublisherInv'
    BY <1>1, <2>1 DEF PublisherInv
  <2>. QED BY <2>1, <2>2, <2>4, <2>5, <2>6, <2>7 DEF BInv
<1>7. CASE Recheck(r) /\ active = poller[r].from
  <2>. DEFINE rec == [poller[r] EXCEPT !.step = "copy", !.left = Fields]
  <2>1. /\ Polls(r, rec) /\ poller[r].step = "recheck"
        /\ UNCHANGED <<active, slot, pins, begun, current, publisher>>
    BY <1>7 DEF Recheck, Polls
  <2>2. /\ rec \in PollerRecord /\ rec.step = "copy" /\ rec.left = Fields
        /\ rec.from = poller[r].from /\ rec.got = poller[r].got
    BY ONLY <1>2 DEF PollerRecord
  <2>. HIDE DEF rec
  <2>3. /\ poller' \in [Pollers -> PollerRecord] /\ poller'[r] = rec
        /\ \A q \in Pollers \ {r} : poller'[q] = poller[q]
    BY <1>1, <2>1, <2>2, PollerPut
  <2>4. BufferTypes' /\ PublisherInv'
    BY <1>1, <2>1, <2>3 DEF BufferTypes, PublisherInv
  <2>5. r \in pins[rec.from]
    BY <1>1, <2>1, <2>2 DEF PollerInv
  <2>6. \A p \in Publishers : publisher[p].step = "fill" => publisher[p].into # rec.from
    BY <1>1, <1>3, <1>7, <2>2, OtherSlot DEF PublisherInv
  <2>7. PollerInv'
    BY <1>1, <2>1, <2>2, <2>3, <2>5, <2>6 DEF PollerInv
  <2>. QED BY <2>1, <2>2, <2>3, <2>4, <2>7 DEF BInv
<1>8. ASSUME NEW f \in Fields, CopyField(r, f)
      PROVE  BInv' /\ UNCHANGED current
             /\ \A q \in Pollers : poller'[q].got = poller[q].got
  <2>. DEFINE word == slot[poller[r].from][f]
  <2>. DEFINE rec == [poller[r] EXCEPT !.copy = [poller[r].copy EXCEPT ![f] = word],
                                       !.left = poller[r].left \ {f}]
  <2>1. /\ Polls(r, rec) /\ poller[r].step = "copy"
        /\ UNCHANGED <<active, slot, pins, begun, current, publisher>>
    BY <1>8 DEF CopyField, Polls
  <2>2. word \in Nat
    BY <1>3
  <2>. HIDE DEF word
  <2>3. [poller[r].copy EXCEPT ![f] = word] \in [Fields -> Nat]
    BY ONLY <1>2, <2>2
  <2>4. /\ rec \in PollerRecord /\ rec.step = poller[r].step
        /\ rec.left = poller[r].left \ {f} /\ rec.from = poller[r].from
        /\ rec.got = poller[r].got
        /\ rec.copy = [poller[r].copy EXCEPT ![f] = word]
    BY ONLY <1>2, <2>3 DEF PollerRecord
  <2>. HIDE DEF rec
  <2>5. /\ poller' \in [Pollers -> PollerRecord] /\ poller'[r] = rec
        /\ \A q \in Pollers \ {r} : poller'[q] = poller[q]
    BY <1>1, <2>1, <2>4, PollerPut
  <2>6. BufferTypes' /\ PublisherInv'
    BY <1>1, <2>1, <2>5 DEF BufferTypes, PublisherInv
  <2>7. /\ r \in pins[rec.from]
        /\ \A p \in Publishers : publisher[p].step = "fill" => publisher[p].into # rec.from
    BY <1>1, <2>1, <2>4 DEF PollerInv
  <2>8. \A g \in Fields \ rec.left : rec.copy[g] = slot[rec.from][g]
    <3>1. \A g \in Fields : rec.copy[g] = IF g = f THEN word ELSE poller[r].copy[g]
      BY ONLY <1>2, <2>4
    <3>. QED BY <1>1, <2>1, <2>4, <3>1 DEF PollerInv, word
  <2>9. PollerInv'
    BY <1>1, <2>1, <2>5, <2>7, <2>8 DEF PollerInv
  <2>10. \A q \in Pollers : poller'[q].got = poller[q].got
    BY <2>4, <2>5
  <2>. QED BY <2>1, <2>6, <2>9, <2>10 DEF BInv
<1>9. CASE Verify(r) /\ active = poller[r].from
  <2>. DEFINE rec == [poller[r] EXCEPT !.step = "return", !.got = poller[r].copy]
  <2>1. /\ Polls(r, rec) /\ poller[r].step = "copy" /\ poller[r].left = {}
        /\ UNCHANGED <<active, slot, pins, begun, current, publisher>>
    BY <1>9 DEF Verify, Polls
  <2>2. rec \in PollerRecord /\ rec.step = "return" /\ rec.got = poller[r].copy
    BY ONLY <1>2 DEF PollerRecord
  <2>. HIDE DEF rec
  <2>3. \A f \in Fields : poller[r].copy[f] = slot[active][f]
    BY <1>1, <1>9, <2>1 DEF PollerInv
  <2>4. slot[active] = Snapshot(current)
    BY <1>1 DEF PublisherInv
  <2>5. poller[r].copy = Snapshot(current)
    BY <1>2, <2>3, <2>4 DEF Snapshot
  <2>. QED BY <1>3, <2>1, <2>2, <2>5, PollerMoves
<1>10. CASE (Recheck(r) \/ Verify(r)) /\ active # poller[r].from
  <2>. DEFINE rec == [poller[r] EXCEPT !.step = "retry"]
  <2>1. Polls(r, rec) /\ UNCHANGED <<active, slot, pins, begun, current, publisher>>
    BY <1>10 DEF Recheck, Verify, Polls
  <2>2. rec \in PollerRecord /\ rec.step = "retry" /\ rec.got = poller[r].got
    BY ONLY <1>2 DEF PollerRecord
  <2>. HIDE DEF rec
  <2>. QED BY <1>3, <2>1, <2>2, PollerMoves
<1>11. CASE Unpin(r)
  <2>. DEFINE rec == IF poller[r].step = "return" THEN Polled(poller[r].got)
                     ELSE [poller[r] EXCEPT !.step = "index"]
  <2>1. /\ Polls(r, rec)
        /\ pins' = [pins EXCEPT ![poller[r].from] = pins[poller[r].from] \ {r}]
        /\ UNCHANGED <<active, slot, begun, current, publisher>>
    BY <1>11 DEF Unpin, Polls
  <2>2. /\ rec \in PollerRecord /\ rec.step \in {"idle", "index"}
        /\ rec.got = poller[r].got
    <3>1. Polled(poller[r].got) \in PollerRecord
      BY <1>2 DEF Polled, PollerRecord, Snapshot, Slots
    <3>2. Polled(poller[r].got).step = "idle" /\ Polled(poller[r].got).got = poller[r].got
      BY DEF Polled
    <3>3. [poller[r] EXCEPT !.step = "index"] \in PollerRecord
          /\ [poller[r] EXCEPT !.step = "index"].step = "index"
          /\ [poller[r] EXCEPT !.step = "index"].got = poller[r].got
      BY ONLY <1>2 DEF PollerRecord
    <3>. QED BY ONLY <3>1, <3>2, <3>3
  <2>. HIDE DEF rec
  <2>3. /\ pins' \in [Slots -> SUBSET Pollers]
        /\ \A q \in Pollers \ {r}, i \in Slots : q \in pins[i] => q \in pins'[i]
    BY <1>2, <1>3, <2>1
  <2>. QED BY <2>1, <2>2, <2>3, PollerMoves
<1>. QED BY <1>4, <1>5, <1>6, <1>7, <1>8, <1>9, <1>10, <1>11 DEF Polling

\* Every step keeps the invariant and is a step of the atomic register.
LEMMA BufferNextInvariant ==
  ASSUME OnePublisher, BInv, [BufferNext]_bufferVars
  PROVE  BInv' /\ [Register!Next]_<<Snapshot(current), [r \in Pollers |-> poller[r].got]>>
<1>1. CASE UNCHANGED bufferVars
  BY <1>1 DEF bufferVars, BInv, BufferTypes, PublisherInv, PollerInv, Snapshot
<1>2. ASSUME NEW p \in Publishers,
             Publishing(p) \/ \E last \in BOOLEAN : BeginSnapshot(p, last)
      PROVE  BInv' /\ [Register!Next]_<<Snapshot(current), [r \in Pollers |-> poller[r].got]>>
  BY <1>2, PublishingInvariant DEF Register!Next, Register!Publish
<1>3. ASSUME NEW r \in Pollers, StartPoll(r) \/ Polling(r)
      PROVE  BInv' /\ [Register!Next]_<<Snapshot(current), [q \in Pollers |-> poller[q].got]>>
  <2>1. /\ BInv' /\ UNCHANGED current
        /\ \/ \A q \in Pollers : poller'[q].got = poller[q].got
           \/ /\ poller'[r].got = Snapshot(current)
              /\ \A q \in Pollers \ {r} : poller'[q].got = poller[q].got
    BY <1>3, PollingInvariant
  <2>2. UNCHANGED Snapshot(current)
    BY <2>1 DEF Snapshot
  <2>. QED BY <2>1, <2>2 DEF Register!Next, Register!Read
<1>. QED BY <1>1, <1>2, <1>3 DEF BufferNext

\* One publisher, whatever the pollers do: a load returns one whole publication
\* that was the last complete one during the load (metrics.rs:387).
THEOREM SnapshotsAreAtomicForOnePublisher ==
  ASSUME OnePublisher
  PROVE  BufferSpec => SnapshotsAreAtomic
<1>1. BufferInit => [r \in Pollers |-> poller[r].got] = [r \in Pollers |-> Snapshot(current)]
  BY DEF BufferInit, Polled
<1>2. BufferInit => BInv
  BY BufferInitInvariant
<1>3. BInv /\ [BufferNext]_bufferVars => BInv'
  BY BufferNextInvariant
<1>4. BInv /\ [BufferNext]_bufferVars
        => [Register!Next]_<<Snapshot(current), [r \in Pollers |-> poller[r].got]>>
  BY BufferNextInvariant
<1>. QED BY <1>1, <1>2, <1>3, <1>4, PTL DEF BufferSpec, SnapshotsAreAtomic, Register!Spec

-----------------------------------------------------------------------------
(***************************************************************************)
(* Boot.  Only a try at the event resets it, and a try that finds it set    *)
(* ends the wait.  So as long as the loop waits, whatever was signalled     *)
(* since the flags were read has left the event set; and a wait begins only *)
(* after the flags have been read, none being left over from the boot.      *)
(***************************************************************************)
Blocked ==
  {"take", "resample", "retake", "reobserve", "clock", "spin", "kernel", "timer", "sleep"}

WaitRecords ==
  [at : Blocked \cup {"idle", "classify", "done"}, observed : Nat, target : Int,
   threshold : Nat, due : Int,
   outcome : {"none", "deadline", "interrupted", "failed"}, late : SUBSET Commanders]

BootTypes ==
  /\ counter \in Nat /\ generation \in Nat /\ event \in BOOLEAN
  /\ timer \in BOOLEAN /\ events \in BOOLEAN
  /\ commands \in [Commanders -> {"idle", "stored", "set", "sent", "lost"}]
  /\ wait \in WaitRecords

\* Where no wait is in progress.
NoWaitInv ==
  boot \in {"admission", "publish", "planned"} \/ (boot = "probe" /\ probed = Samples)
    => wait.at = "idle"

SignalInv ==
  boot = "planned" \/ (boot = "loop" /\ wait.at \in Blocked) =>
    \A c \in Commanders \ heard : commands[c] \in {"set", "sent"} => event

BootInv == BootTypes /\ NoWaitInv /\ SignalInv

LEMMA IdleWait == Idle \in WaitRecords /\ Idle.at = "idle"
  BY DEF Idle, WaitRecords

LEMMA StartedWait ==
  ASSUME BootTypes, NEW target \in Int, NEW threshold \in Nat
  PROVE  /\ Started(target, threshold) \in WaitRecords
         /\ Started(target, threshold).at \in {"take", "clock"}
  BY DEF BootTypes, Started, WaitRecords, Blocked

LEMMA MovedWait ==
  ASSUME BootTypes, NEW at \in Blocked, NEW due \in Int
  PROVE  /\ [wait EXCEPT !.at = at, !.due = due] \in WaitRecords
         /\ [wait EXCEPT !.at = at, !.due = due].at = at
  BY DEF BootTypes, WaitRecords

LEMMA TimerFiresEffect ==
  ASSUME BootTypes, TimerFires
  PROVE  BootTypes' /\ wait.at \in {"kernel", "timer"} /\ UNCHANGED <<commands, event>>
<1>1. "clock" \in Blocked /\ 0 \in Int
  BY DEF Blocked
<1>2. wait' \in WaitRecords
  BY <1>1, MovedWait DEF TimerFires
<1>. QED
  BY <1>2 DEF TimerFires, BootTypes

LEMMA ApproachesEffect ==
  ASSUME BootTypes, Approaches
  PROVE  BootTypes' /\ wait.at = "clock" /\ UNCHANGED <<commands, event>>
<1>1. counter + Slept \in Int
  BY BootAssumption DEF Slept, Remaining, BootTypes, WaitRecords
<1>2. wait' \in WaitRecords
  <2>1. CASE wait' = [wait EXCEPT !.at = "spin"]
    BY <2>1 DEF BootTypes, WaitRecords, Blocked
  <2>2. CASE wait' = [wait EXCEPT !.at = IF ~timer THEN "sleep"
                                         ELSE IF events THEN "kernel" ELSE "timer",
                                  !.due = counter + Slept]
    <3>1. PICK at \in {"kernel", "timer", "sleep"} :
            wait' = [wait EXCEPT !.at = at, !.due = counter + Slept]
      BY <2>2
    <3>2. at \in Blocked
      BY DEF Blocked
    <3>. QED
      BY <1>1, <3>1, <3>2, MovedWait
  <2>. QED
    BY <2>1, <2>2 DEF Approaches
<1>. QED
  BY <1>2 DEF Approaches, BootTypes

LEMMA ReturnedWait ==
  ASSUME BootTypes, NEW outcome \in {"deadline", "interrupted", "failed"}, Returned(outcome)
  PROVE  BootTypes' /\ wait'.at = "done" /\ UNCHANGED commands
<1>. DEFINE w == [at |-> "done", observed |-> 0, target |-> 0, threshold |-> 0, due |-> 0,
                   outcome |-> outcome, late |-> {}]
<1>2. wait' = w
  BY DEF Returned, Idle
<1>3. w \in WaitRecords
  BY DEF WaitRecords
<1>. QED
  BY <1>2, <1>3 DEF Returned, BootTypes

LEMMA BootInvInit == BootInit => BootInv
<1>. SUFFICES ASSUME BootInit PROVE BootInv
  OBVIOUS
<1>1. wait = Idle /\ boot = "admission"
  BY DEF BootInit, WaitInit
<1>2. BootTypes
  BY <1>1, IdleWait DEF BootInit, WaitInit, BootTypes
<1>3. NoWaitInv /\ SignalInv
  BY <1>1, IdleWait DEF NoWaitInv, SignalInv
<1>. QED
  BY <1>2, <1>3 DEF BootInv

\* The commanders: whoever sets the event leaves it set.
LEMMA AroundKeepsBootInv ==
  ASSUME BootInv, Around
  PROVE  BootInv'
<1>. USE DEF BootInv, BootTypes, NoWaitInv, SignalInv, workerVars
<1>1. CASE CounterAdvances /\ UNCHANGED workerVars
  BY <1>1 DEF CounterAdvances
<1>2. ASSUME NEW c \in Commanders, StoreFlag(c), UNCHANGED workerVars PROVE BootInv'
  BY <1>2 DEF StoreFlag
<1>3. ASSUME NEW c \in Commanders, SetEvent(c), UNCHANGED workerVars PROVE BootInv'
  <2>1. wait' \in WaitRecords /\ wait'.at = wait.at
    BY <1>3 DEF SetEvent, WaitRecords
  <2>. QED
    BY <1>3, <2>1 DEF SetEvent
<1>4. ASSUME NEW c \in Commanders, Publish(c), UNCHANGED workerVars PROVE BootInv'
  BY <1>4 DEF Publish
<1>5. ASSUME NEW c \in Commanders, SignalFails(c), UNCHANGED workerVars PROVE BootInv'
  BY <1>5 DEF SignalFails
<1>. QED
  BY <1>1, <1>2, <1>3, <1>4, <1>5 DEF Around, Surroundings, Command

\* What a step of the wait does to it and to the event.
LEMMA WaitStepEffect ==
  ASSUME BootInv, WaitStep
  PROVE  /\ BootTypes'
         /\ wait.at # "idle" /\ UNCHANGED commands
         /\ wait'.at \in Blocked => wait.at \in Blocked /\ (event => event')
<1>. USE DEF BootInv, BootTypes, Blocked
<1>1. ASSUME NEW here \in Blocked, NEW otherwise \in Blocked, TryTake(here, otherwise)
      PROVE  /\ BootTypes' /\ wait.at = here /\ UNCHANGED commands
             /\ wait'.at \in Blocked => event' = event
  BY <1>1 DEF TryTake, WaitRecords
<1>2. CASE TryTake("take", "resample") \/ TryTake("retake", "reobserve") \/ EventFires
  BY <1>1, <1>2 DEF EventFires
<1>3. CASE Resample \/ Reobserve
  BY <1>3 DEF Resample, Reobserve, WaitRecords
<1>5. CASE ClassifyInterrupt
  BY ReturnedWait, <1>5 DEF ClassifyInterrupt
<1>6. CASE Reaches
  BY ReturnedWait, <1>6 DEF Reaches
<1>7. CASE Approaches \/ TimerFires
  BY <1>7, ApproachesEffect, TimerFiresEffect
<1>8. CASE SpinNotices
  BY <1>8 DEF SpinNotices, WaitRecords
<1>9. CASE WaitFails
  BY ReturnedWait, <1>9 DEF WaitFails
<1>10. CASE Wakes
  <2>1. CASE counter >= wait.target
    BY ReturnedWait, <1>10, <2>1 DEF Wakes
  <2>2. CASE ~(counter >= wait.target)
    BY <1>10, <2>2 DEF Wakes, WaitRecords
  <2>. QED
    BY <2>1, <2>2
<1>. QED
  BY <1>2, <1>3, <1>5, <1>6, <1>7, <1>8, <1>9, <1>10 DEF WaitStep

LEMMA WaitStepKeepsBootInv ==
  ASSUME BootInv, InWait
  PROVE  BootInv'
  BY WaitStepEffect DEF InWait, workerVars, BootInv, BootTypes, NoWaitInv, SignalInv

LEMMA BootStepKeepsBootInv ==
  ASSUME BootInv, BootStep
  PROVE  BootInv'
<1>. USE DEF BootInv, BootTypes, NoWaitInv, SignalInv, Blocked
<1>1. CASE Refuses \/ Admits
  BY <1>1 DEF Refuses, Admits, waitVars
<1>2. CASE ProbeStarts
  <2>1. Started(counter + Gap, 0) \in WaitRecords
    BY BootAssumption, StartedWait
  <2>2. probed # Samples
    BY <1>2, BootAssumption DEF ProbeStarts
  <2>. QED
    BY <1>2, <2>1, <2>2 DEF ProbeStarts, workerVars
<1>3. CASE ProbeGivesUp \/ ProbeCompletes
  BY <1>3 DEF ProbeGivesUp, ProbeCompletes, waitVars
<1>4. CASE ProbeEnds \/ WaitReturns
  BY <1>4, IdleWait DEF ProbeEnds, WaitReturns
<1>5. CASE PublishesResources
  BY <1>5 DEF PublishesResources, waitVars
<1>6. CASE Reads
  BY <1>6 DEF Reads, Asked, waitVars
<1>7. CASE Waits
  <2>1. PICK target \in counter .. MaxCounter, threshold \in {0, Spin} :
          wait' = IF target = counter THEN wait ELSE Started(target, threshold)
    BY <1>7 DEF Waits
  <2>2. target \in Int /\ threshold \in Nat
    BY <2>1, BootAssumption
  <2>3. wait' \in WaitRecords
    <3>1. CASE target = counter      BY <2>1, <3>1
    <3>2. CASE target # counter      BY <2>1, <2>2, <3>2, StartedWait
    <3>. QED  BY <3>1, <3>2
  <2>4. boot = "planned" /\ boot' = "loop" /\ heard' = heard
        /\ UNCHANGED <<counter, event, generation, commands, timer, events>>
    BY <1>7 DEF Waits
  <2>5. BootTypes'
    BY <2>3, <2>4
  <2>6. NoWaitInv' /\ SignalInv'
    BY <2>4
  <2>. QED
    BY <2>5, <2>6
<1>8. CASE LeavesLoop
  <2>1. boot' = "ended" /\ UNCHANGED waitVars
    BY <1>8 DEF LeavesLoop
  <2>2. BootTypes'
    BY <2>1 DEF waitVars
  <2>. QED
    BY <2>1, <2>2
<1>. HIDE DEF BootInv, BootTypes, NoWaitInv, SignalInv, Blocked
<1>. QED
  BY <1>1, <1>2, <1>3, <1>4, <1>5, <1>6, <1>7, <1>8 DEF BootStep

\* For any number of commanders, any spin, budget and waits: while the loop
\* sleeps in the kernel, a command that was completely sent and that the loop has
\* not read has left the event set (event.rs signal, hybrid.rs handoff).
THEOREM CommandsWakeTheLoop == BootSpec => []SentCommandWakes
<1>1. BootInv => SentCommandWakes
  BY DEF BootInv, SignalInv, SentCommandWakes, Blocked
<1>2. BootInv /\ [BootNext]_bootVars => BootInv'
  <2>1. BootInv /\ UNCHANGED bootVars => BootInv'
    BY DEF bootVars, waitVars, workerVars, BootInv, BootTypes, NoWaitInv, SignalInv
  <2>. QED
    BY <2>1, AroundKeepsBootInv, WaitStepKeepsBootInv, BootStepKeepsBootInv DEF BootNext
<1>. QED
  BY <1>1, <1>2, BootInvInit, PTL DEF BootSpec

-----------------------------------------------------------------------------
(***************************************************************************)
(* Observation.  The worker's own forensics follow the keys packet by      *)
(* packet.  The observer lags behind: what it measures, taken through the  *)
(* observations still in the queue, is what the worker holds, and every    *)
(* hold it has not recorded yet is one of the queue.                       *)
(***************************************************************************)
Observations ==
  [kind : {"down"}, number : Nat, late : Nat, ups : SUBSET Keys, downs : SUBSET Keys]
    \cup [kind : {"recovery_up"}, keys : SUBSET Keys] \cup {ResetAll, Notice}

\* What an observation does to a set of anchors, and the holds it completes.
Takes(set, o) ==
  IF o.kind = "down" THEN After(set, o)
  ELSE IF o.kind = "recovery_up" THEN Cleared(set, o.keys)
  ELSE IF o.kind = "reset_all" THEN Cleared(set, Keys) ELSE set

Yields(set, o) == IF o.kind = "down" THEN PairsOf(set, o) ELSE {}

\* It releases keys that are down and presses keys that are up.
Clean(set, o) ==
  o.kind = "down" =>
    /\ \A k \in o.ups : set[k] # NoAnchor
    /\ \A k \in o.downs \ o.ups : set[k] = NoAnchor

\* t[i] is what the observer will measure in front of the i-th observation.
Catches(t) ==
  /\ t[1] = measured /\ t[Len(queue) + 1] = held
  /\ \A i \in 1 .. Len(queue) : Clean(t[i], queue[i]) /\ t[i + 1] = Takes(t[i], queue[i])
  /\ real = recorded \cup UNION {Yields(t[i], queue[i]) : i \in 1 .. Len(queue)}

CatchesUp == \E t : Catches(t)

ObservationInv ==
  /\ queue \in Seq(Observations)
  /\ dropped \in Nat /\ retriggers \in Nat /\ sent \in Nat
  /\ observer = "work" => queue # <<>>
  /\ ForensicsMatchTheKeys
  /\ dropped = 0 => recorded \subseteq real /\ unmatched = 0
  /\ dropped = 0 /\ observer # "ended" => CatchesUp

LEMMA ObservationInvInit == ObservationInit => ObservationInv
<1>. SUFFICES ASSUME ObservationInit PROVE ObservationInv
  OBVIOUS
<1>1. Catches([i \in {1} |-> held])
  BY DEF ObservationInit, Catches
<1>. QED
  BY <1>1 DEF ObservationInit, ObservationInv, CatchesUp, ForensicsMatchTheKeys, Observations

\* A packet that releases held keys and presses keys that are up: the forensics
\* of production find the keys it releases and presses, and nothing else.
LEMMA PacketAnomalies ==
  ASSUME anchors = held, NEW packet, packet.ups \subseteq Held,
         packet.downs \cap Held \subseteq packet.ups, packet.downs \subseteq Keys
  PROVE  /\ Anomalies(packet) = 2 * Cardinality(packet.ups \cap packet.downs)
         /\ Cardinality(packet.ups \cap packet.downs) \in Nat
<1>. DEFINE matched == {k \in packet.ups : anchors[k] # NoAnchor}
<1>1. matched = packet.ups
  BY DEF Held
<1>2. packet.ups \ matched = {} /\ {k \in packet.downs \ packet.ups : anchors[k] # NoAnchor} = {}
  BY <1>1 DEF Held
<1>3. Cardinality(packet.ups \cap packet.downs) \in Nat
  <2>1. packet.ups \cap packet.downs \subseteq Keys
    OBVIOUS
  <2>. QED
    BY <2>1, FS_Subset, FS_CardinalityType, ObservationAssumption
<1>4. Cardinality({}) = 0
  BY FS_EmptySet
<1>5. Anomalies(packet) = Cardinality({}) + 2 * Cardinality(packet.ups \cap packet.downs)
                            + Cardinality({})
  BY <1>1, <1>2 DEF Anomalies
<1>. QED
  BY <1>3, <1>4, <1>5

\* Whatever the worker observes joins the end of what the observer will catch up with.
LEMMA PushCatchesUp ==
  ASSUME ObservationInv, NEW o \in Observations, Clean(held, o),
         held' = Takes(held, o), real' = real \cup Yields(held, o),
         Push(o), UNCHANGED <<observer, measured, recorded, unmatched>>
  PROVE  /\ queue' \in Seq(Observations) /\ dropped' \in Nat
         /\ observer' = "work" => queue' # <<>>
         /\ dropped' = 0 => recorded' \subseteq real' /\ unmatched' = 0
         /\ dropped' = 0 /\ observer' # "ended" => CatchesUp'
<1>1. CASE Len(queue) < Capacity
  <2>1. queue' = Append(queue, o) /\ dropped' = dropped
    BY <1>1 DEF Push
  <2>2. /\ queue' \in Seq(Observations) /\ Len(queue') = Len(queue) + 1 /\ queue' # <<>>
        /\ Len(queue) \in Nat /\ queue'[Len(queue) + 1] = o
        /\ \A i \in 1 .. Len(queue) : queue'[i] = queue[i]
    BY <2>1 DEF ObservationInv
  <2>3. ASSUME dropped' = 0, observer' # "ended" PROVE CatchesUp'
    <3>. DEFINE n == Len(queue)
    <3>1. PICK t : Catches(t)
      BY <2>1, <2>3 DEF ObservationInv, CatchesUp
    <3>. DEFINE u == [i \in 1 .. n + 2 |-> IF i = n + 2 THEN held' ELSE t[i]]
    <3>2. n \in Nat /\ u[n + 2] = held' /\ \A i \in 1 .. n + 1 : u[i] = t[i]
      BY <2>2
    <3>3. u[1] = measured' /\ u[Len(queue') + 1] = held'
      BY <2>2, <3>1, <3>2 DEF Catches
    <3>4. \A i \in 1 .. n : Clean(u[i], queue'[i]) /\ u[i + 1] = Takes(u[i], queue'[i])
      BY <2>2, <3>1, <3>2 DEF Catches
    <3>5. u[n + 1] = held /\ Clean(u[n + 1], queue'[n + 1])
            /\ u[n + 2] = Takes(u[n + 1], queue'[n + 1])
      BY <2>2, <3>1, <3>2 DEF Catches
    <3>6. \A i \in 1 .. Len(queue') : Clean(u[i], queue'[i]) /\ u[i + 1] = Takes(u[i], queue'[i])
      <4>1. \A i \in 1 .. Len(queue') : i \in 1 .. n \/ i = n + 1
        BY <2>2
      <4>2. n + 1 + 1 = n + 2
        BY <3>2
      <4>. HIDE DEF u, n
      <4>. QED
        BY <3>4, <3>5, <4>1, <4>2
    <3>. DEFINE old == {Yields(t[i], queue[i]) : i \in 1 .. n}
                new == {Yields(u[i], queue'[i]) : i \in 1 .. Len(queue')}
    <3>7. new = old \cup {Yields(held, o)}
      <4>1. \A i \in 1 .. n : Yields(u[i], queue'[i]) = Yields(t[i], queue[i])
        BY <2>2, <3>2
      <4>2. Yields(u[n + 1], queue'[n + 1]) = Yields(held, o)
        BY <2>2, <3>5
      <4>3. 1 .. Len(queue') = (1 .. n) \cup {n + 1}
        BY <2>2
      <4>. HIDE DEF u, n
      <4>. QED
        BY <4>1, <4>2, <4>3
    <3>8. real' = recorded' \cup UNION new
      <4>1. real = recorded \cup UNION old
        BY <3>1 DEF Catches
      <4>. HIDE DEF old, new
      <4>. QED
        BY <3>7, <4>1
    <3>. HIDE DEF u, n
    <3>9. PICK v : v = u
      OBVIOUS
    <3>10. Catches(v)'
      BY <3>3, <3>6, <3>8, <3>9 DEF Catches
    <3>. QED
      BY <3>10 DEF CatchesUp
  <2>. QED
    BY <2>1, <2>2, <2>3 DEF ObservationInv
<1>2. CASE ~(Len(queue) < Capacity)
  BY <1>2 DEF Push, ObservationInv
<1>. QED
  BY <1>1, <1>2

\* What the observer makes of a clean observation.
LEMMA MeasureTakes ==
  ASSUME NEW o \in Observations, Clean(measured, o), Measure(o), unmatched = 0
  PROVE  /\ measured' = Takes(measured, o) /\ recorded' = recorded \cup Yields(measured, o)
         /\ unmatched' = 0
<1>1. CASE o.kind = "down"
  <2>1. /\ {k \in o.ups : measured[k] = NoAnchor} = {}
        /\ {k \in o.downs \ o.ups : measured[k] # NoAnchor} = {}
    BY <1>1 DEF Clean
  <2>2. Cardinality({}) = 0
    BY FS_EmptySet
  <2>3. /\ measured' = After(measured, o) /\ recorded' = recorded \cup PairsOf(measured, o)
        /\ unmatched' = unmatched + Cardinality({}) + Cardinality({})
    BY <1>1, <2>1 DEF Measure
  <2>. QED
    BY <1>1, <2>2, <2>3 DEF Takes, Yields
<1>2. CASE o.kind = "recovery_up"
  BY <1>2 DEF Measure, Takes, Yields
<1>3. CASE o.kind = "reset_all"
  BY <1>3 DEF Measure, Takes, Yields
<1>4. CASE o.kind \notin {"down", "recovery_up", "reset_all"}
  BY <1>4 DEF Measure, Takes, Yields
<1>. QED
  BY <1>1, <1>2, <1>3, <1>4

\* The observer works on the first of the queue.
LEMMA DrainCatchesUp ==
  ASSUME ObservationInv, observer = "work", queue' = Tail(queue), Measure(Head(queue)),
         UNCHANGED <<dropped, held, real>>
  PROVE  /\ dropped' = 0 => recorded' \subseteq real' /\ unmatched' = 0
         /\ dropped' = 0 => CatchesUp'
<1>. SUFFICES ASSUME dropped' = 0
     PROVE  recorded' \subseteq real' /\ unmatched' = 0 /\ CatchesUp'
  OBVIOUS
<1>. DEFINE n == Len(queue)
            o == queue[1]
<1>1. PICK t : Catches(t)
  BY DEF ObservationInv, CatchesUp
<1>2. /\ n \in Nat /\ n >= 1 /\ Head(queue) = o /\ o \in Observations
      /\ Len(queue') = n - 1 /\ \A i \in 1 .. n - 1 : queue'[i] = queue[i + 1]
  BY DEF ObservationInv
<1>3. t[1] = measured /\ Clean(measured, o) /\ t[2] = Takes(measured, o) /\ unmatched = 0
  BY <1>1, <1>2 DEF Catches, ObservationInv
<1>4. measured' = t[2] /\ recorded' = recorded \cup Yields(t[1], o) /\ unmatched' = 0
  BY <1>2, <1>3, MeasureTakes
<1>. DEFINE u == [i \in 1 .. n |-> t[i + 1]]
<1>5. \A i \in 1 .. n : u[i] = t[i + 1]
  OBVIOUS
<1>6. u[1] = measured' /\ u[Len(queue') + 1] = held'
  BY <1>1, <1>2, <1>4, <1>5 DEF Catches
<1>7. \A i \in 1 .. Len(queue') : Clean(u[i], queue'[i]) /\ u[i + 1] = Takes(u[i], queue'[i])
  <2>. SUFFICES ASSUME NEW i \in 1 .. Len(queue')
       PROVE  Clean(u[i], queue'[i]) /\ u[i + 1] = Takes(u[i], queue'[i])
    OBVIOUS
  <2>1. i \in 1 .. n /\ i + 1 \in 1 .. n /\ queue'[i] = queue[i + 1]
    BY <1>2
  <2>2. u[i] = t[i + 1] /\ u[i + 1] = t[i + 1 + 1]
    BY <1>5, <2>1
  <2>3. Clean(t[i + 1], queue[i + 1]) /\ t[i + 1 + 1] = Takes(t[i + 1], queue[i + 1])
    BY <1>1, <2>1 DEF Catches
  <2>. QED
    BY <2>1, <2>2, <2>3
<1>8. UNION {Yields(t[i], queue[i]) : i \in 1 .. n}
        = Yields(t[1], o) \cup UNION {Yields(u[i], queue'[i]) : i \in 1 .. Len(queue')}
  <2>1. \A i \in 1 .. Len(queue') : i + 1 \in 1 .. n
                                     /\ Yields(u[i], queue'[i]) = Yields(t[i + 1], queue[i + 1])
    BY <1>2, <1>5
  <2>2. \A i \in 1 .. n : i = 1 \/ (i - 1 \in 1 .. Len(queue') /\ (i - 1) + 1 = i)
    BY <1>2
  <2>3. 1 \in 1 .. n
    BY <1>2
  <2>. HIDE DEF u, n
  <2>4. \A i \in 1 .. n : i # 1 =>
          \E j \in 1 .. Len(queue') : Yields(t[i], queue[i]) = Yields(u[j], queue'[j])
    BY <2>1, <2>2
  <2>. QED
    BY <2>1, <2>3, <2>4
<1>9. real' = recorded' \cup UNION {Yields(u[i], queue'[i]) : i \in 1 .. Len(queue')}
  <2>1. real = recorded \cup UNION {Yields(t[i], queue[i]) : i \in 1 .. n}
    BY <1>1 DEF Catches
  <2>. QED
    BY <1>4, <1>8, <2>1
<1>. HIDE DEF u, n
<1>10. PICK v : v = u
  OBVIOUS
<1>11. Catches(v)'
  BY <1>6, <1>7, <1>9, <1>10 DEF Catches
<1>. QED
  BY <1>4, <1>9, <1>11 DEF CatchesUp

LEMMA WorkerKeepsObservationInv ==
  ASSUME ObservationInv, NEW o \in Observations, Clean(held, o),
         held' = Takes(held, o), real' = real \cup Yields(held, o), Push(o),
         ForensicsMatchTheKeys', retriggers' \in Nat, sent' \in Nat,
         UNCHANGED observerVars
  PROVE  ObservationInv'
  BY PushCatchesUp DEF ObservationInv, observerVars

LEMMA SendKeepsObservationInv ==
  ASSUME ObservationInv, NEW ups \in SUBSET Keys, NEW downs \in SUBSET Keys,
         NEW late \in 0 .. MaxLate, SendPacket(ups, downs, late)
  PROVE  ObservationInv'
<1>. DEFINE packet == Packet(sent + 1, late, ups, downs)
<1>1. /\ packet.kind = "down" /\ packet.ups = ups /\ packet.downs = downs
      /\ packet \in Observations
  BY ObservationAssumption DEF Packet, Observations, ObservationInv
<1>2. /\ held' = After(held, packet) /\ real' = real \cup PairsOf(held, packet)
      /\ retriggers' = retriggers + Cardinality(ups \cap downs)
      /\ ObservePacketResult(packet) /\ Push(packet) /\ UNCHANGED observerVars
      /\ ups \subseteq Held /\ downs \cap Held \subseteq ups /\ sent' = sent + 1
  BY DEF SendPacket
<1>3. anchors = held /\ pairs = real /\ structural = 2 * retriggers /\ retriggers \in Nat
  BY DEF ObservationInv, ForensicsMatchTheKeys
<1>. HIDE DEF packet
<1>4. /\ Anomalies(packet) = 2 * Cardinality(ups \cap downs)
      /\ Cardinality(ups \cap downs) \in Nat
  BY <1>1, <1>2, <1>3, PacketAnomalies
<1>5. ForensicsMatchTheKeys' /\ retriggers' \in Nat
  BY <1>2, <1>3, <1>4 DEF ForensicsMatchTheKeys, ObservePacketResult
<1>6. Clean(held, packet)
  BY <1>1, <1>2 DEF Clean, Held
<1>7. held' = Takes(held, packet) /\ real' = real \cup Yields(held, packet)
  BY <1>1, <1>2 DEF Takes, Yields
<1>8. sent' \in Nat
  BY <1>2 DEF ObservationInv
<1>. QED
  BY <1>1, <1>2, <1>5, <1>6, <1>7, <1>8, WorkerKeepsObservationInv

LEMMA LifecycleKeepsObservationInv ==
  ASSUME ObservationInv, NEW keys \in SUBSET Keys,
         NEW o \in {RecoveryUp(keys), ResetAll}, o = ResetAll => keys = Keys, Lifecycle(keys, o)
  PROVE  ObservationInv'
<1>1. o \in Observations /\ o.kind \in {"recovery_up", "reset_all"}
  BY DEF RecoveryUp, ResetAll, Observations
<1>2. o.kind = "recovery_up" => o.keys = keys
  BY DEF RecoveryUp, ResetAll
<1>3. o.kind = "reset_all" => keys = Keys
  BY DEF RecoveryUp, ResetAll
<1>4. Clean(held, o) /\ Takes(held, o) = Cleared(held, keys) /\ Yields(held, o) = {}
  BY <1>1, <1>2, <1>3 DEF Clean, Takes, Yields
<1>5. ForensicsMatchTheKeys' /\ retriggers' \in Nat /\ sent' \in Nat
  BY DEF ForensicsMatchTheKeys, Lifecycle, Forget, ObservationInv
<1>6. held' = Takes(held, o) /\ real' = real \cup Yields(held, o) /\ Push(o)
        /\ UNCHANGED observerVars
  BY <1>4 DEF Lifecycle
<1>. QED
  BY <1>1, <1>4, <1>5, <1>6, WorkerKeepsObservationInv

LEMMA NoticeKeepsObservationInv ==
  ASSUME ObservationInv, OtherObservation
  PROVE  ObservationInv'
<1>1. Notice \in Observations /\ Notice.kind = "notice"
  BY DEF Notice, Observations
<1>2. Clean(held, Notice) /\ Takes(held, Notice) = held /\ Yields(held, Notice) = {}
  BY <1>1 DEF Clean, Takes, Yields
<1>3. ForensicsMatchTheKeys' /\ retriggers' \in Nat /\ sent' \in Nat
  BY DEF ForensicsMatchTheKeys, OtherObservation, productionVars, ObservationInv
<1>4. held' = Takes(held, Notice) /\ real' = real \cup Yields(held, Notice) /\ Push(Notice)
        /\ UNCHANGED observerVars
  BY <1>2 DEF OtherObservation
<1>. QED
  BY <1>1, <1>2, <1>3, <1>4, WorkerKeepsObservationInv

\* Where neither the queue, nor what is measured, nor what was played changes.
LEMMA IdleKeepsObservationInv ==
  ASSUME ObservationInv,
         UNCHANGED <<worldVars, productionVars, queue, dropped, measured, recorded, unmatched>>,
         observer' = "work" => queue # <<>>,
         observer = "ended" => observer' = "ended"
  PROVE  ObservationInv'
<1>1. CatchesUp' <=> CatchesUp
  BY DEF CatchesUp, Catches, worldVars
<1>. QED
  BY <1>1 DEF ObservationInv, ForensicsMatchTheKeys, worldVars, productionVars

LEMMA ObserverKeepsObservationInv ==
  ASSUME ObservationInv, Observing \/ DrainFails
  PROVE  ObservationInv'
<1>1. CASE Look
  BY <1>1, IdleKeepsObservationInv DEF Look
<1>2. CASE LoadStop
  BY <1>2, IdleKeepsObservationInv DEF LoadStop
<1>3. CASE (Drain \/ DrainFails) /\ queue' = Tail(queue) /\ Measure(Head(queue))
  <2>1. observer = "work" /\ UNCHANGED <<worldVars, productionVars, dropped>>
          /\ observer' \in {"look", "ended"}
    BY <1>3 DEF Drain, DrainFails
  <2>2. /\ dropped' = 0 => recorded' \subseteq real' /\ unmatched' = 0
        /\ dropped' = 0 => CatchesUp'
    BY <1>3, <2>1, DrainCatchesUp DEF worldVars
  <2>3. queue' \in Seq(Observations)
    BY <1>3, <2>1 DEF ObservationInv
  <2>. QED
    BY <2>1, <2>2, <2>3
    DEF ObservationInv, ForensicsMatchTheKeys, worldVars, productionVars
<1>4. CASE DrainFails /\ UNCHANGED <<measured, recorded, unmatched>>
  <2>1. queue' \in Seq(Observations)
    BY <1>4 DEF DrainFails, ObservationInv
  <2>. QED
    BY <1>4, <2>1
    DEF DrainFails, ObservationInv, ForensicsMatchTheKeys, worldVars, productionVars
<1>. QED
  BY <1>1, <1>2, <1>3, <1>4 DEF Observing, Drain, DrainFails

LEMMA ObservationStepKeepsInv == ObservationInv /\ [ObservationNext]_observationVars => ObservationInv'
<1>. SUFFICES ASSUME ObservationInv, [ObservationNext]_observationVars PROVE ObservationInv'
  OBVIOUS
<1>1. ASSUME NEW ups \in SUBSET Keys, NEW downs \in SUBSET Keys, NEW late \in 0 .. MaxLate,
             SendPacket(ups, downs, late)
      PROVE  ObservationInv'
  BY <1>1, SendKeepsObservationInv
<1>2. ASSUME NEW ups \in SUBSET Keys, MissedDown(ups) PROVE ObservationInv'
  <2>1. RecoveryUp(ups) # ResetAll
    <3>1. RecoveryUp(ups).kind = "recovery_up" /\ ResetAll.kind = "reset_all"
      BY DEF RecoveryUp, ResetAll
    <3>. QED
      BY <3>1
  <2>. QED
    BY <1>2, <2>1, LifecycleKeepsObservationInv DEF MissedDown
<1>3. CASE Suspend
  BY <1>3, LifecycleKeepsObservationInv DEF Suspend
<1>4. CASE OtherObservation
  BY <1>4, NoticeKeepsObservationInv
<1>5. CASE LoopEnds \/ Finalizing \/ UNCHANGED observationVars
  <2>1. UNCHANGED <<worldVars, productionVars, queue, dropped, observerVars>>
    BY <1>5 DEF LoopEnds, Finalizing, StopObserver, JoinObserver, observationVars
  <2>. QED
    BY <2>1, IdleKeepsObservationInv DEF observerVars, ObservationInv
<1>6. CASE Observing \/ DrainFails
  BY <1>6, ObserverKeepsObservationInv
<1>. QED
  BY <1>1, <1>2, <1>3, <1>4, <1>5, <1>6 DEF ObservationNext

\* For any keys, queue and lateness: the worker's forensics are those of the keys
\* it holds, and while nothing was dropped the observer has paired only holds
\* that were played, all of them once it has caught up (engine/worker/dispatch).
THEOREM WhatIsMeasuredWasPlayed == ObservationSpec => []ObservationIsTrue
<1>1. ObservationInv => ObservationIsTrue
  <2>. SUFFICES ASSUME ObservationInv PROVE ObservationIsTrue
    OBVIOUS
  <2>1. ASSUME dropped = 0, queue = <<>>, observer # "ended"
        PROVE  recorded = real /\ measured = held
    <3>1. PICK t : Catches(t)
      BY <2>1 DEF ObservationInv, CatchesUp
    <3>2. Len(queue) = 0
      BY <2>1
    <3>3. t[1] = measured /\ t[0 + 1] = held
            /\ real = recorded \cup UNION {Yields(t[i], queue[i]) : i \in 1 .. 0}
      BY <3>1, <3>2 DEF Catches
    <3>4. 1 .. 0 = {}
      OBVIOUS
    <3>. QED
      BY <3>3, <3>4
  <2>. QED
    BY <2>1 DEF ObservationInv, ObservationIsTrue, EvidenceIsQualified
<1>. QED
  BY <1>1, ObservationInvInit, ObservationStepKeepsInv, PTL DEF ObservationSpec

=============================================================================
