---------------------------- MODULE WorkerProofs ----------------------------
(***************************************************************************)
(* Proofs about Worker for every song, every number of target windows and  *)
(* every number of outside events: no key and no command is forgotten, and *)
(* no key is pressed that was not probed since the last pause.             *)
(*                                                                         *)
(* What the worker read at the top of the loop may be stale by the time it *)
(* waits; the invariant says that whoever made it stale has signalled, or  *)
(* is about to.  A preflight proof may be older than the last pause only   *)
(* while the gate's focus pause lasts, whose end throws it away.           *)
(***************************************************************************)
EXTENDS Worker, SequenceTheorems, TLAPS

(* After the commands and the hint were read, up to the end of the wait. *)
Reading ==
  {"readPause", "focus", "restoreRelease", "restorePreflight", "refocus",
   "manual", "pauseRelease", "resumePreflight", "resume", "gate",
   "planPreflight", "proof", "wait"}

(* A packet was planned and is on its way to SendInput. *)
Planned == {"planPreflight", "proof", "wait", "admit", "final", "send"}

(* Where a proof that is there is newer than the last pause. *)
Sure ==
  {"restoreRelease", "restorePreflight", "refocus", "pauseRelease",
   "resumePreflight", "resume", "gateRelease"} \cup Planned

Woken == interrupt \/ signals > 0

(* A command that this iteration has not seen wakes its wait. *)
WakeInv ==
  /\ signals <= events
  /\ pc \in Reading =>
       /\ requests # {} => Woken
       /\ frame.hint /\ ~ hint => Woken
  /\ pc \in Reading \ {"readPause"} => (wantPause /\ ~ frame.pause => Woken)

(* What the edges have made of the hint and the pause they saw. *)
EdgeInv ==
  /\ pc \in {"restoreRelease", "restorePreflight", "refocus"} => frame.hint
  /\ pc \in {"manual", "pauseRelease", "resumePreflight", "resume", "gate"} =>
       (~ frame.hint => "Focus" \in reasons)
  /\ pc = "gate" => (frame.pause => "Manual" \in reasons)
  /\ pc \in {"resumePreflight", "resume"} => ~ frame.pause
  /\ pc \in {"planPreflight", "proof", "wait"} => frame.hint /\ ~ frame.pause
  /\ pc \in Planned => reasons = {}
  /\ pc \in Planned \cup {"gateRelease", "recover"} => AtPacket

ProbeInv ==
  /\ pc = "pauseRelease" => verified = 0 /\ reasons = {}
  /\ pc \in {"restoreRelease", "restorePreflight"} => verified = 0
  /\ pc \in {"restoreRelease", "restorePreflight", "resumePreflight",
             "planPreflight"} => frame.stamp # 0
  /\ verified # 0 /\ ~ probed => "Focus" \in reasons /\ pc \notin Sure
  /\ pc \in Planned \ {"planPreflight"} => (PressesNow => probed)

(* What the clean-up has established when it decides the outcome. *)
EndInv ==
  /\ pc \in {"verdict", "publish", "done"} => (error = "none" => ~ keys)
  /\ pc \in {"publish", "done"} =>
       (error = "none" /\ requests \cap {"quit", "skip"} = {} =>
          ~ AtPacket /\ ~ cancelled)
  /\ outcome # "none" => pc = "done"
  /\ outcome \notin {"none", "error"} => error = "none"

(* The types once more, one variable at a time. *)
Flags ==
  /\ wantPause \in BOOLEAN /\ hint \in BOOLEAN /\ lease \in BOOLEAN
  /\ user \in BOOLEAN /\ interrupt \in BOOLEAN /\ started \in BOOLEAN
  /\ live \in BOOLEAN /\ missed \in BOOLEAN /\ cancelled \in BOOLEAN
  /\ keys \in BOOLEAN /\ tracked \in BOOLEAN /\ full \in BOOLEAN
  /\ probed \in BOOLEAN

Frames ==
  [hint : BOOLEAN, pause : BOOLEAN, stamp : 0..target,
   up : BOOLEAN, late : BOOLEAN, refused : BOOLEAN]

Numbers ==
  /\ fore \in 0..MaxTarget /\ target \in 1..MaxTarget
  /\ verified \in 0..target
  /\ signals \in 0..MaxEvents /\ events \in 0..MaxEvents
  /\ cursor \in 1..(Len(Song) + 1)

Names ==
  /\ requests \subseteq {"quit", "skip", "panic"}
  /\ pc \in Labels
  /\ reasons \subseteq {"Manual", "Focus"}
  /\ grace \in {"off", "running", "over"}
  /\ error \in Errors
  /\ outcome \in {"none", "error", "skipped", "quit", "finished"}

Values == Numbers /\ Names

Types == Flags /\ frame \in Frames /\ Values

KeysInv == KeysAreTracked /\ LedgerMatchesKeys /\ FinishedIsComplete

WInv ==
  /\ Types
  /\ KeysInv
  /\ WakeInv
  /\ EdgeInv
  /\ ProbeInv
  /\ EndInv
-----------------------------------------------------------------------------
LEMMA LenSong == Len(Song) \in Nat
BY WorkerAssumption

LEMMA TypesAreTypeOK == Types => TypeOK
<1>. SUFFICES ASSUME Types PROVE TypeOK
  OBVIOUS
<1>1. {wantPause, hint, lease, user, interrupt, started, live, missed,
       cancelled, keys, tracked, full, probed} \subseteq BOOLEAN
  BY DEF Types, Flags
<1>2. {signals, events} \subseteq 0..MaxEvents
  BY DEF Types, Values, Numbers, Names
<1>. QED BY <1>1, <1>2 DEF TypeOK, Types, Frames, Values, Numbers, Names

(* What the worker writes into its locals keeps their shape. *)
LEMMA FrameEdits ==
  ASSUME Types
  PROVE  /\ NoFrame \in Frames
         /\ [frame EXCEPT !.stamp = target] \in Frames
         /\ \A b \in BOOLEAN :
              /\ [frame EXCEPT !.hint = b] \in Frames
              /\ [frame EXCEPT !.pause = b] \in Frames
              /\ [frame EXCEPT !.late = b] \in Frames
              /\ [frame EXCEPT !.refused = b] \in Frames
              /\ [frame EXCEPT !.up = b, !.stamp = target] \in Frames
<1>1. frame \in Frames /\ target \in 1..MaxTarget /\ MaxTarget \in Nat
  BY WorkerAssumption DEF Types, Values, Numbers, Names
<1>2. ASSUME NEW b \in BOOLEAN
      PROVE  [frame EXCEPT !.up = b, !.stamp = target] \in Frames
  <2>. DEFINE f == [frame EXCEPT !.up = b]
  <2>1. f \in Frames
    BY <1>1 DEF Frames
  <2>. HIDE DEF f
  <2>2. [f EXCEPT !.stamp = target] \in Frames
    BY <1>1, <2>1 DEF Frames
  <2>3. [f EXCEPT !.stamp = target]
          = [frame EXCEPT !.up = b, !.stamp = target]
    BY Zenon DEF f
  <2>. QED BY <2>2, <2>3
<1>3. ASSUME NEW b \in BOOLEAN
      PROVE  /\ [frame EXCEPT !.hint = b] \in Frames
             /\ [frame EXCEPT !.pause = b] \in Frames
             /\ [frame EXCEPT !.late = b] \in Frames
             /\ [frame EXCEPT !.refused = b] \in Frames
  BY <1>1 DEF Frames
<1>4. [frame EXCEPT !.stamp = target] \in Frames
  BY <1>1 DEF Frames
<1>5. NoFrame \in Frames
  BY <1>1 DEF Frames, NoFrame
<1>. QED BY <1>2, <1>3, <1>4, <1>5

LEMMA NoFrameFits ==
  ASSUME Types
  PROVE  frame \in Frames /\ NoFrame \in Frames
BY FrameEdits DEF Types

LEMMA NumbersKept ==
  ASSUME Numbers,
         fore' = fore /\ target' = target,
         signals' = signals /\ events' = events,
         verified' \in {verified, 0},
         cursor' = cursor \/ (AtPacket /\ cursor' = cursor + 1)
  PROVE  Numbers'
BY LenSong DEF Numbers, AtPacket

LEMMA SameFrames ==
  ASSUME target' = target
  PROVE  Frames' = Frames
BY DEF Frames

(* What the world around the worker does. *)
LEMMA OutsideKeeps ==
  ASSUME WInv,
         RequestStop \/ PauseOrResume \/ SetFocusHint \/ SetTarget
           \/ ForegroundChanges \/ LeaseChanges \/ UserKey \/ Signal
           \/ GraceElapses
  PROVE  WInv'
<1>. USE DEF WInv, Types, World, Clock, Ledger, Input, End
<1>1. CASE RequestStop
  <2>1. frame' \in Frames /\ Frames' = Frames
    BY <1>1, FrameEdits, Zenon DEF Frames, RequestStop, Event
  <2>2. Flags'
    BY <1>1 DEF Flags, RequestStop, Event, Stored
  <2>3. Numbers'
    BY <1>1, WorkerAssumption, LenSong DEF Flags, Values, Numbers,
        AtPacket, PressesNow, WakeInv, RequestStop, Event, Stored
  <2>4. Names'
    BY <1>1 DEF Flags, Values, Names, Labels, Errors, RequestStop, Event,
        Stored
  <2>5. KeysInv'
    BY <1>1 DEF KeysInv, KeysAreTracked, LedgerMatchesKeys,
        FinishedIsComplete, EndInv, Stopping, AtPacket, PressesNow, Flags,
        RequestStop, Event, Stored
  <2>6. WakeInv'
    BY <1>1 DEF WakeInv, EdgeInv, Reading, Woken, Flags, Values, Numbers,
        Names, NoFrame, RequestStop, Event, Stored
  <2>7. EdgeInv'
    BY <1>1 DEF EdgeInv, Planned, AtPacket, PressesNow, Flags, Values,
        Numbers, Names, NoFrame, RequestStop, Event, Stored
  <2>8. ProbeInv'
    BY <1>1 DEF ProbeInv, EdgeInv, Planned, Sure, AtPacket, PressesNow,
        Flags, Values, Numbers, Names, NoFrame, RequestStop, Event, Stored
  <2>9. EndInv'
    BY <1>1 DEF EndInv, KeysInv, KeysAreTracked, AtPacket, Flags, Values,
        Names, RequestStop, Event, Stored
  <2>. QED
    BY <2>1, <2>2, <2>3, <2>4, <2>5, <2>6, <2>7, <2>8, <2>9 DEF Values
<1>2. CASE PauseOrResume
  <2>1. frame' \in Frames /\ Frames' = Frames
    BY <1>2, FrameEdits, Zenon DEF Frames, PauseOrResume, Event
  <2>2. Flags'
    BY <1>2 DEF Flags, PauseOrResume, Event, Stored
  <2>3. Numbers'
    BY <1>2, WorkerAssumption, LenSong DEF Flags, Values, Numbers,
        AtPacket, PressesNow, WakeInv, PauseOrResume, Event, Stored
  <2>4. Names'
    BY <1>2 DEF Flags, Values, Names, Labels, Errors, PauseOrResume, Event,
        Stored
  <2>5. KeysInv'
    BY <1>2 DEF KeysInv, KeysAreTracked, LedgerMatchesKeys,
        FinishedIsComplete, EndInv, Stopping, AtPacket, PressesNow, Flags,
        PauseOrResume, Event, Stored
  <2>6. WakeInv'
    BY <1>2 DEF WakeInv, EdgeInv, Reading, Woken, Flags, Values, Numbers,
        Names, NoFrame, PauseOrResume, Event, Stored
  <2>7. EdgeInv'
    BY <1>2 DEF EdgeInv, Planned, AtPacket, PressesNow, Flags, Values,
        Numbers, Names, NoFrame, PauseOrResume, Event, Stored
  <2>8. ProbeInv'
    BY <1>2 DEF ProbeInv, EdgeInv, Planned, Sure, AtPacket, PressesNow,
        Flags, Values, Numbers, Names, NoFrame, PauseOrResume, Event,
        Stored
  <2>9. EndInv'
    BY <1>2 DEF EndInv, KeysInv, KeysAreTracked, AtPacket, Flags, Values,
        Names, PauseOrResume, Event, Stored
  <2>. QED
    BY <2>1, <2>2, <2>3, <2>4, <2>5, <2>6, <2>7, <2>8, <2>9 DEF Values
<1>3. CASE SetFocusHint
  <2>1. frame' \in Frames /\ Frames' = Frames
    BY <1>3, FrameEdits, Zenon DEF Frames, SetFocusHint, Event
  <2>2. Flags'
    BY <1>3 DEF Flags, SetFocusHint, Event, Stored
  <2>3. Numbers'
    BY <1>3, WorkerAssumption, LenSong DEF Flags, Values, Numbers,
        AtPacket, PressesNow, WakeInv, SetFocusHint, Event, Stored
  <2>4. Names'
    BY <1>3 DEF Flags, Values, Names, Labels, Errors, SetFocusHint, Event,
        Stored
  <2>5. KeysInv'
    BY <1>3 DEF KeysInv, KeysAreTracked, LedgerMatchesKeys,
        FinishedIsComplete, EndInv, Stopping, AtPacket, PressesNow, Flags,
        SetFocusHint, Event, Stored
  <2>6. WakeInv'
    BY <1>3 DEF WakeInv, EdgeInv, Reading, Woken, Flags, Values, Numbers,
        Names, NoFrame, SetFocusHint, Event, Stored
  <2>7. EdgeInv'
    BY <1>3 DEF EdgeInv, Planned, AtPacket, PressesNow, Flags, Values,
        Numbers, Names, NoFrame, SetFocusHint, Event, Stored
  <2>8. ProbeInv'
    BY <1>3 DEF ProbeInv, EdgeInv, Planned, Sure, AtPacket, PressesNow,
        Flags, Values, Numbers, Names, NoFrame, SetFocusHint, Event, Stored
  <2>9. EndInv'
    BY <1>3 DEF EndInv, KeysInv, KeysAreTracked, AtPacket, Flags, Values,
        Names, SetFocusHint, Event, Stored
  <2>. QED
    BY <2>1, <2>2, <2>3, <2>4, <2>5, <2>6, <2>7, <2>8, <2>9 DEF Values
<1>4. CASE SetTarget
  <2>1. frame' \in Frames'
    <3>1. frame' = frame /\ target' = target + 1 /\ target \in Nat
      BY <1>4, WorkerAssumption DEF SetTarget, Event, Values, Numbers
    <3>2. 0..target \subseteq 0..target'
      BY <3>1
    <3>. QED BY <3>1, <3>2 DEF Frames
  <2>2. Flags'
    BY <1>4 DEF Flags, SetTarget, Event, Stored
  <2>3. Numbers'
    BY <1>4, WorkerAssumption, LenSong DEF Flags, Values, Numbers,
        AtPacket, PressesNow, WakeInv, SetTarget, Event, Stored
  <2>4. Names'
    BY <1>4 DEF Flags, Values, Names, Labels, Errors, SetTarget, Event,
        Stored
  <2>5. KeysInv'
    BY <1>4 DEF KeysInv, KeysAreTracked, LedgerMatchesKeys,
        FinishedIsComplete, EndInv, Stopping, AtPacket, PressesNow, Flags,
        SetTarget, Event, Stored
  <2>6. WakeInv'
    BY <1>4 DEF WakeInv, EdgeInv, Reading, Woken, Flags, Values, Numbers,
        Names, NoFrame, SetTarget, Event, Stored
  <2>7. EdgeInv'
    BY <1>4 DEF EdgeInv, Planned, AtPacket, PressesNow, Flags, Values,
        Numbers, Names, NoFrame, SetTarget, Event, Stored
  <2>8. ProbeInv'
    BY <1>4 DEF ProbeInv, EdgeInv, Planned, Sure, AtPacket, PressesNow,
        Flags, Values, Numbers, Names, NoFrame, SetTarget, Event, Stored
  <2>9. EndInv'
    BY <1>4 DEF EndInv, KeysInv, KeysAreTracked, AtPacket, Flags, Values,
        Names, SetTarget, Event, Stored
  <2>. QED
    BY <2>1, <2>2, <2>3, <2>4, <2>5, <2>6, <2>7, <2>8, <2>9 DEF Values
<1>5. CASE ForegroundChanges
  <2>1. frame' \in Frames /\ Frames' = Frames
    BY <1>5, FrameEdits, Zenon DEF Frames, ForegroundChanges, Event
  <2>2. Flags'
    BY <1>5 DEF Flags, ForegroundChanges, Event, Unsignalled
  <2>3. Numbers'
    BY <1>5, WorkerAssumption, LenSong DEF Flags, Values, Numbers,
        AtPacket, PressesNow, WakeInv, ForegroundChanges, Event,
        Unsignalled
  <2>4. Names'
    BY <1>5 DEF Flags, Values, Names, Labels, Errors, ForegroundChanges,
        Event, Unsignalled
  <2>5. KeysInv'
    BY <1>5 DEF KeysInv, KeysAreTracked, LedgerMatchesKeys,
        FinishedIsComplete, EndInv, Stopping, AtPacket, PressesNow, Flags,
        ForegroundChanges, Event, Unsignalled
  <2>6. WakeInv'
    BY <1>5 DEF WakeInv, EdgeInv, Reading, Woken, Flags, Values, Numbers,
        Names, NoFrame, ForegroundChanges, Event, Unsignalled
  <2>7. EdgeInv'
    BY <1>5 DEF EdgeInv, Planned, AtPacket, PressesNow, Flags, Values,
        Numbers, Names, NoFrame, ForegroundChanges, Event, Unsignalled
  <2>8. ProbeInv'
    BY <1>5 DEF ProbeInv, EdgeInv, Planned, Sure, AtPacket, PressesNow,
        Flags, Values, Numbers, Names, NoFrame, ForegroundChanges, Event,
        Unsignalled
  <2>9. EndInv'
    BY <1>5 DEF EndInv, KeysInv, KeysAreTracked, AtPacket, Flags, Values,
        Names, ForegroundChanges, Event, Unsignalled
  <2>. QED
    BY <2>1, <2>2, <2>3, <2>4, <2>5, <2>6, <2>7, <2>8, <2>9 DEF Values
<1>6. CASE LeaseChanges
  <2>1. frame' \in Frames /\ Frames' = Frames
    BY <1>6, FrameEdits, Zenon DEF Frames, LeaseChanges, Event
  <2>2. Flags'
    BY <1>6 DEF Flags, LeaseChanges, Event, Unsignalled
  <2>3. Numbers'
    BY <1>6, WorkerAssumption, LenSong DEF Flags, Values, Numbers,
        AtPacket, PressesNow, WakeInv, LeaseChanges, Event, Unsignalled
  <2>4. Names'
    BY <1>6 DEF Flags, Values, Names, Labels, Errors, LeaseChanges, Event,
        Unsignalled
  <2>5. KeysInv'
    BY <1>6 DEF KeysInv, KeysAreTracked, LedgerMatchesKeys,
        FinishedIsComplete, EndInv, Stopping, AtPacket, PressesNow, Flags,
        LeaseChanges, Event, Unsignalled
  <2>6. WakeInv'
    BY <1>6 DEF WakeInv, EdgeInv, Reading, Woken, Flags, Values, Numbers,
        Names, NoFrame, LeaseChanges, Event, Unsignalled
  <2>7. EdgeInv'
    BY <1>6 DEF EdgeInv, Planned, AtPacket, PressesNow, Flags, Values,
        Numbers, Names, NoFrame, LeaseChanges, Event, Unsignalled
  <2>8. ProbeInv'
    BY <1>6 DEF ProbeInv, EdgeInv, Planned, Sure, AtPacket, PressesNow,
        Flags, Values, Numbers, Names, NoFrame, LeaseChanges, Event,
        Unsignalled
  <2>9. EndInv'
    BY <1>6 DEF EndInv, KeysInv, KeysAreTracked, AtPacket, Flags, Values,
        Names, LeaseChanges, Event, Unsignalled
  <2>. QED
    BY <2>1, <2>2, <2>3, <2>4, <2>5, <2>6, <2>7, <2>8, <2>9 DEF Values
<1>7. CASE UserKey
  <2>1. frame' \in Frames /\ Frames' = Frames
    BY <1>7, FrameEdits, Zenon DEF Frames, UserKey, Event
  <2>2. Flags'
    BY <1>7 DEF Flags, UserKey, Event, Unsignalled
  <2>3. Numbers'
    BY <1>7, WorkerAssumption, LenSong DEF Flags, Values, Numbers,
        AtPacket, PressesNow, WakeInv, UserKey, Event, Unsignalled
  <2>4. Names'
    BY <1>7 DEF Flags, Values, Names, Labels, Errors, UserKey, Event,
        Unsignalled
  <2>5. KeysInv'
    BY <1>7 DEF KeysInv, KeysAreTracked, LedgerMatchesKeys,
        FinishedIsComplete, EndInv, Stopping, AtPacket, PressesNow, Flags,
        UserKey, Event, Unsignalled
  <2>6. WakeInv'
    BY <1>7 DEF WakeInv, EdgeInv, Reading, Woken, Flags, Values, Numbers,
        Names, NoFrame, UserKey, Event, Unsignalled
  <2>7. EdgeInv'
    BY <1>7 DEF EdgeInv, Planned, AtPacket, PressesNow, Flags, Values,
        Numbers, Names, NoFrame, UserKey, Event, Unsignalled
  <2>8. ProbeInv'
    BY <1>7 DEF ProbeInv, EdgeInv, Planned, Sure, AtPacket, PressesNow,
        Flags, Values, Numbers, Names, NoFrame, UserKey, Event, Unsignalled
  <2>9. EndInv'
    BY <1>7 DEF EndInv, KeysInv, KeysAreTracked, AtPacket, Flags, Values,
        Names, UserKey, Event, Unsignalled
  <2>. QED
    BY <2>1, <2>2, <2>3, <2>4, <2>5, <2>6, <2>7, <2>8, <2>9 DEF Values
<1>8. CASE Signal
  <2>1. frame' \in Frames /\ Frames' = Frames
    BY <1>8, FrameEdits, Zenon DEF Frames, Signal
  <2>2. Flags'
    BY <1>8 DEF Flags, Signal
  <2>3. Numbers'
    BY <1>8, WorkerAssumption, LenSong DEF Flags, Values, Numbers,
        AtPacket, PressesNow, Signal
  <2>4. Names'
    BY <1>8 DEF Flags, Values, Names, Labels, Errors, Signal
  <2>5. KeysInv'
    BY <1>8 DEF KeysInv, KeysAreTracked, LedgerMatchesKeys,
        FinishedIsComplete, EndInv, Stopping, AtPacket, PressesNow, Flags,
        Signal
  <2>6. WakeInv'
    BY <1>8 DEF WakeInv, EdgeInv, Reading, Woken, Flags, Values, Numbers,
        Names, NoFrame, Signal
  <2>7. EdgeInv'
    BY <1>8 DEF EdgeInv, Planned, AtPacket, PressesNow, Flags, Values,
        Numbers, Names, NoFrame, Signal
  <2>8. ProbeInv'
    BY <1>8 DEF ProbeInv, EdgeInv, Planned, Sure, AtPacket, PressesNow,
        Flags, Values, Numbers, Names, NoFrame, Signal
  <2>9. EndInv'
    BY <1>8 DEF EndInv, KeysInv, KeysAreTracked, AtPacket, Flags, Values,
        Names, Signal
  <2>. QED
    BY <2>1, <2>2, <2>3, <2>4, <2>5, <2>6, <2>7, <2>8, <2>9 DEF Values
<1>9. CASE GraceElapses
  <2>1. frame' \in Frames /\ Frames' = Frames
    BY <1>9, FrameEdits, Zenon DEF Frames, GraceElapses
  <2>2. Flags'
    BY <1>9 DEF Flags, GraceElapses
  <2>3. Numbers'
    BY <1>9, WorkerAssumption, LenSong DEF Flags, Values, Numbers,
        AtPacket, PressesNow, GraceElapses
  <2>4. Names'
    BY <1>9 DEF Flags, Values, Names, Labels, Errors, GraceElapses
  <2>5. KeysInv'
    BY <1>9 DEF KeysInv, KeysAreTracked, LedgerMatchesKeys,
        FinishedIsComplete, EndInv, Stopping, AtPacket, PressesNow, Flags,
        GraceElapses
  <2>6. WakeInv'
    BY <1>9 DEF WakeInv, EdgeInv, Reading, Woken, Flags, Values, Numbers,
        Names, NoFrame, GraceElapses
  <2>7. EdgeInv'
    BY <1>9 DEF EdgeInv, Planned, AtPacket, PressesNow, Flags, Values,
        Numbers, Names, NoFrame, GraceElapses
  <2>8. ProbeInv'
    BY <1>9 DEF ProbeInv, EdgeInv, Planned, Sure, AtPacket, PressesNow,
        Flags, Values, Numbers, Names, NoFrame, GraceElapses
  <2>9. EndInv'
    BY <1>9 DEF EndInv, KeysInv, KeysAreTracked, AtPacket, Flags, Values,
        Names, GraceElapses
  <2>. QED
    BY <2>1, <2>2, <2>3, <2>4, <2>5, <2>6, <2>7, <2>8, <2>9 DEF Values
<1>. QED BY <1>1, <1>2, <1>3, <1>4, <1>5, <1>6, <1>7, <1>8, <1>9

(* The loop is left, by its end, a request or an error. *)
LEMMA LeavingKeeps ==
  ASSUME WInv,
         LoopEnds \/ LeaseExpires \/ StopSeen \/ PanicSeen \/ NothingToPlan
           \/ QpcFails \/ PreflightFails \/ SuspendFails \/ SendFails
           \/ RecoverFails
  PROVE  WInv'
<1>. USE DEF WInv, Types, World, Clock, Ledger, Input, End
<1>1. CASE LoopEnds
  <2>1. frame' \in Frames /\ Frames' = Frames
    BY <1>1, FrameEdits, Zenon DEF Frames, LoopEnds, Leave
  <2>2. Flags'
    BY <1>1 DEF Flags, LoopEnds, Leave
  <2>3. Numbers'
    BY <1>1, WorkerAssumption, LenSong DEF Flags, Values, Numbers,
        AtPacket, PressesNow, LoopEnds, Leave
  <2>4. Names'
    BY <1>1 DEF Flags, Values, Names, Labels, Errors, LoopEnds, Leave
  <2>5. KeysInv'
    BY <1>1 DEF KeysInv, KeysAreTracked, LedgerMatchesKeys,
        FinishedIsComplete, EndInv, Stopping, AtPacket, PressesNow, Flags,
        LoopEnds, Leave
  <2>6. WakeInv'
    BY <1>1 DEF WakeInv, EdgeInv, Reading, Woken, Flags, Values, Numbers,
        Names, NoFrame, LoopEnds, Leave
  <2>7. EdgeInv'
    BY <1>1 DEF EdgeInv, Planned, AtPacket, PressesNow, Flags, Values,
        Numbers, Names, NoFrame, LoopEnds, Leave
  <2>8. ProbeInv'
    BY <1>1 DEF ProbeInv, EdgeInv, Planned, Sure, AtPacket, PressesNow,
        Flags, Values, Numbers, Names, NoFrame, LoopEnds, Leave
  <2>9. EndInv'
    BY <1>1 DEF EndInv, KeysInv, KeysAreTracked, AtPacket, Flags, Values,
        Names, LoopEnds, Leave
  <2>. QED
    BY <2>1, <2>2, <2>3, <2>4, <2>5, <2>6, <2>7, <2>8, <2>9 DEF Values
<1>2. CASE LeaseExpires
  <2>1. frame' \in Frames /\ Frames' = Frames
    BY <1>2, FrameEdits, Zenon DEF Frames, LeaseExpires, Fail
  <2>2. Flags'
    BY <1>2 DEF Flags, LeaseExpires, InLoop, Fail
  <2>3. Numbers'
    BY <1>2, WorkerAssumption, LenSong DEF Flags, Values, Numbers,
        AtPacket, PressesNow, LeaseExpires, InLoop, Fail
  <2>4. Names'
    BY <1>2 DEF Flags, Values, Names, Labels, Errors, LeaseExpires, InLoop,
        Fail
  <2>5. KeysInv'
    BY <1>2 DEF KeysInv, KeysAreTracked, LedgerMatchesKeys,
        FinishedIsComplete, EndInv, Stopping, AtPacket, PressesNow, Flags,
        LeaseExpires, InLoop, Fail
  <2>6. WakeInv'
    BY <1>2 DEF WakeInv, EdgeInv, Reading, Woken, Flags, Values, Numbers,
        Names, NoFrame, LeaseExpires, InLoop, Fail
  <2>7. EdgeInv'
    BY <1>2 DEF EdgeInv, Planned, AtPacket, PressesNow, Flags, Values,
        Numbers, Names, NoFrame, LeaseExpires, InLoop, Fail
  <2>8. ProbeInv'
    BY <1>2 DEF ProbeInv, EdgeInv, Planned, Sure, AtPacket, PressesNow,
        Flags, Values, Numbers, Names, NoFrame, LeaseExpires, InLoop, Fail
  <2>9. EndInv'
    BY <1>2 DEF EndInv, KeysInv, KeysAreTracked, AtPacket, Flags, Values,
        Names, LeaseExpires, InLoop, Fail
  <2>. QED
    BY <2>1, <2>2, <2>3, <2>4, <2>5, <2>6, <2>7, <2>8, <2>9 DEF Values
<1>3. CASE StopSeen
  <2>1. frame' \in Frames /\ Frames' = Frames
    BY <1>3, FrameEdits, Zenon DEF Frames, StopSeen, Leave
  <2>2. Flags'
    BY <1>3 DEF Flags, StopSeen, InLoop, Leave
  <2>3. Numbers'
    BY <1>3, WorkerAssumption, LenSong DEF Flags, Values, Numbers,
        AtPacket, PressesNow, StopSeen, InLoop, Leave
  <2>4. Names'
    BY <1>3 DEF Flags, Values, Names, Labels, Errors, StopSeen, InLoop,
        Leave
  <2>5. KeysInv'
    BY <1>3 DEF KeysInv, KeysAreTracked, LedgerMatchesKeys,
        FinishedIsComplete, EndInv, Stopping, AtPacket, PressesNow, Flags,
        StopSeen, InLoop, Leave
  <2>6. WakeInv'
    BY <1>3 DEF WakeInv, EdgeInv, Reading, Woken, Flags, Values, Numbers,
        Names, NoFrame, StopSeen, InLoop, Leave
  <2>7. EdgeInv'
    BY <1>3 DEF EdgeInv, Planned, AtPacket, PressesNow, Flags, Values,
        Numbers, Names, NoFrame, StopSeen, InLoop, Leave
  <2>8. ProbeInv'
    BY <1>3 DEF ProbeInv, EdgeInv, Planned, Sure, AtPacket, PressesNow,
        Flags, Values, Numbers, Names, NoFrame, StopSeen, InLoop, Leave
  <2>9. EndInv'
    BY <1>3 DEF EndInv, KeysInv, KeysAreTracked, AtPacket, Flags, Values,
        Names, StopSeen, InLoop, Leave
  <2>. QED
    BY <2>1, <2>2, <2>3, <2>4, <2>5, <2>6, <2>7, <2>8, <2>9 DEF Values
<1>4. CASE PanicSeen
  <2>1. frame' \in Frames /\ Frames' = Frames
    BY <1>4, FrameEdits, Zenon DEF Frames, PanicSeen, Leave
  <2>2. Flags'
    BY <1>4 DEF Flags, PanicSeen, InLoop, Release, Leave
  <2>3. Numbers'
    BY <1>4, WorkerAssumption, LenSong DEF Flags, Values, Numbers,
        AtPacket, PressesNow, PanicSeen, InLoop, Release, Leave
  <2>4. Names'
    BY <1>4 DEF Flags, Values, Names, Labels, Errors, PanicSeen, InLoop,
        Release, Leave
  <2>5. KeysInv'
    BY <1>4 DEF KeysInv, KeysAreTracked, LedgerMatchesKeys,
        FinishedIsComplete, EndInv, Stopping, AtPacket, PressesNow, Flags,
        PanicSeen, InLoop, Release, Leave
  <2>6. WakeInv'
    BY <1>4 DEF WakeInv, EdgeInv, Reading, Woken, Flags, Values, Numbers,
        Names, NoFrame, PanicSeen, InLoop, Release, Leave
  <2>7. EdgeInv'
    BY <1>4 DEF EdgeInv, Planned, AtPacket, PressesNow, Flags, Values,
        Numbers, Names, NoFrame, PanicSeen, InLoop, Release, Leave
  <2>8. ProbeInv'
    BY <1>4 DEF ProbeInv, EdgeInv, Planned, Sure, AtPacket, PressesNow,
        Flags, Values, Numbers, Names, NoFrame, PanicSeen, InLoop, Release,
        Leave
  <2>9. EndInv'
    BY <1>4 DEF EndInv, KeysInv, KeysAreTracked, AtPacket, Flags, Values,
        Names, PanicSeen, InLoop, Release, Leave
  <2>. QED
    BY <2>1, <2>2, <2>3, <2>4, <2>5, <2>6, <2>7, <2>8, <2>9 DEF Values
<1>5. CASE NothingToPlan
  <2>1. frame' \in Frames /\ Frames' = Frames
    BY <1>5, FrameEdits, Zenon DEF Frames, NothingToPlan, Leave
  <2>2. Flags'
    BY <1>5 DEF Flags, NothingToPlan, Playing, Leave
  <2>3. Numbers'
    BY <1>5, WorkerAssumption, LenSong DEF Flags, Values, Numbers,
        AtPacket, PressesNow, NothingToPlan, Playing, Leave
  <2>4. Names'
    BY <1>5 DEF Flags, Values, Names, Labels, Errors, NothingToPlan,
        Playing, Leave
  <2>5. KeysInv'
    BY <1>5 DEF KeysInv, KeysAreTracked, LedgerMatchesKeys,
        FinishedIsComplete, EndInv, Stopping, AtPacket, PressesNow, Flags,
        NothingToPlan, Playing, Leave
  <2>6. WakeInv'
    BY <1>5 DEF WakeInv, EdgeInv, Reading, Woken, Flags, Values, Numbers,
        Names, NoFrame, NothingToPlan, Playing, Leave
  <2>7. EdgeInv'
    BY <1>5 DEF EdgeInv, Planned, AtPacket, PressesNow, Flags, Values,
        Numbers, Names, NoFrame, NothingToPlan, Playing, Leave
  <2>8. ProbeInv'
    BY <1>5 DEF ProbeInv, EdgeInv, Planned, Sure, AtPacket, PressesNow,
        Flags, Values, Numbers, Names, NoFrame, NothingToPlan, Playing,
        Leave
  <2>9. EndInv'
    BY <1>5 DEF EndInv, KeysInv, KeysAreTracked, AtPacket, Flags, Values,
        Names, NothingToPlan, Playing, Leave
  <2>. QED
    BY <2>1, <2>2, <2>3, <2>4, <2>5, <2>6, <2>7, <2>8, <2>9 DEF Values
<1>6. CASE QpcFails
  <2>1. frame' \in Frames /\ Frames' = Frames
    BY <1>6, FrameEdits, Zenon DEF Frames, QpcFails, Fail
  <2>2. Flags'
    BY <1>6 DEF Flags, QpcFails, Fail
  <2>3. Numbers'
    BY <1>6, WorkerAssumption, LenSong DEF Flags, Values, Numbers,
        AtPacket, PressesNow, QpcFails, Fail
  <2>4. Names'
    BY <1>6 DEF Flags, Values, Names, Labels, Errors, QpcFails, Fail
  <2>5. KeysInv'
    BY <1>6 DEF KeysInv, KeysAreTracked, LedgerMatchesKeys,
        FinishedIsComplete, EndInv, Stopping, AtPacket, PressesNow, Flags,
        QpcFails, Fail
  <2>6. WakeInv'
    BY <1>6 DEF WakeInv, EdgeInv, Reading, Woken, Flags, Values, Numbers,
        Names, NoFrame, QpcFails, Fail
  <2>7. EdgeInv'
    BY <1>6 DEF EdgeInv, Planned, AtPacket, PressesNow, Flags, Values,
        Numbers, Names, NoFrame, QpcFails, Fail
  <2>8. ProbeInv'
    BY <1>6 DEF ProbeInv, EdgeInv, Planned, Sure, AtPacket, PressesNow,
        Flags, Values, Numbers, Names, NoFrame, QpcFails, Fail
  <2>9. EndInv'
    BY <1>6 DEF EndInv, KeysInv, KeysAreTracked, AtPacket, Flags, Values,
        Names, QpcFails, Fail, Stopping
  <2>. QED
    BY <2>1, <2>2, <2>3, <2>4, <2>5, <2>6, <2>7, <2>8, <2>9 DEF Values
<1>7. CASE PreflightFails
  <2>1. frame' \in Frames /\ Frames' = Frames
    BY <1>7, FrameEdits, Zenon DEF Frames, PreflightFails, Fail
  <2>2. Flags'
    BY <1>7 DEF Flags, PreflightFails, AtPreflight, AfterPreflight,
        ProbeFindsAllUp, Fail
  <2>3. Numbers'
    BY <1>7, WorkerAssumption, LenSong DEF Flags, Values, Numbers,
        AtPacket, PressesNow, PreflightFails, AtPreflight, AfterPreflight,
        ProbeFindsAllUp, Fail
  <2>4. Names'
    BY <1>7 DEF Flags, Values, Names, Labels, Errors, PreflightFails,
        AtPreflight, AfterPreflight, ProbeFindsAllUp, Fail
  <2>5. KeysInv'
    BY <1>7 DEF KeysInv, KeysAreTracked, LedgerMatchesKeys,
        FinishedIsComplete, EndInv, Stopping, AtPacket, PressesNow, Flags,
        PreflightFails, AtPreflight, AfterPreflight, ProbeFindsAllUp, Fail
  <2>6. WakeInv'
    BY <1>7 DEF WakeInv, EdgeInv, Reading, Woken, Flags, Values, Numbers,
        Names, NoFrame, PreflightFails, AtPreflight, AfterPreflight,
        ProbeFindsAllUp, Fail
  <2>7. EdgeInv'
    BY <1>7 DEF EdgeInv, Planned, AtPacket, PressesNow, Flags, Values,
        Numbers, Names, NoFrame, PreflightFails, AtPreflight,
        AfterPreflight, ProbeFindsAllUp, Fail
  <2>8. ProbeInv'
    BY <1>7 DEF ProbeInv, EdgeInv, Planned, Sure, AtPacket, PressesNow,
        Flags, Values, Numbers, Names, NoFrame, PreflightFails,
        AtPreflight, AfterPreflight, ProbeFindsAllUp, Fail
  <2>9. EndInv'
    BY <1>7 DEF EndInv, KeysInv, KeysAreTracked, AtPacket, Flags, Values,
        Names, PreflightFails, AtPreflight, AfterPreflight,
        ProbeFindsAllUp, Fail
  <2>. QED
    BY <2>1, <2>2, <2>3, <2>4, <2>5, <2>6, <2>7, <2>8, <2>9 DEF Values
<1>8. CASE SuspendFails
  <2>1. frame' \in Frames /\ Frames' = Frames
    BY <1>8, FrameEdits, Zenon DEF Frames, SuspendFails, Fail
  <2>2. Flags'
    BY <1>8 DEF Flags, SuspendFails, Release, ReleaseVerified, Fail
  <2>3. Numbers'
    BY <1>8, WorkerAssumption, LenSong DEF Flags, Values, Numbers,
        AtPacket, PressesNow, SuspendFails, Release, ReleaseVerified, Fail
  <2>4. Names'
    BY <1>8 DEF Flags, Values, Names, Labels, Errors, SuspendFails,
        Release, ReleaseVerified, Fail
  <2>5. KeysInv'
    BY <1>8 DEF KeysInv, KeysAreTracked, LedgerMatchesKeys,
        FinishedIsComplete, EndInv, Stopping, AtPacket, PressesNow, Flags,
        SuspendFails, Release, ReleaseVerified, Fail
  <2>6. WakeInv'
    BY <1>8 DEF WakeInv, EdgeInv, Reading, Woken, Flags, Values, Numbers,
        Names, NoFrame, SuspendFails, Release, ReleaseVerified, Fail
  <2>7. EdgeInv'
    BY <1>8 DEF EdgeInv, Planned, AtPacket, PressesNow, Flags, Values,
        Numbers, Names, NoFrame, SuspendFails, Release, ReleaseVerified,
        Fail
  <2>8. ProbeInv'
    BY <1>8 DEF ProbeInv, EdgeInv, Planned, Sure, AtPacket, PressesNow,
        Flags, Values, Numbers, Names, NoFrame, SuspendFails, Release,
        ReleaseVerified, Fail
  <2>9. EndInv'
    BY <1>8 DEF EndInv, KeysInv, KeysAreTracked, AtPacket, Flags, Values,
        Names, SuspendFails, Release, ReleaseVerified, Fail
  <2>. QED
    BY <2>1, <2>2, <2>3, <2>4, <2>5, <2>6, <2>7, <2>8, <2>9 DEF Values
<1>9. CASE SendFails
  <2>1. frame' \in Frames /\ Frames' = Frames
    BY <1>9, FrameEdits, Zenon DEF Frames, SendFails, Fail
  <2>2. Flags'
    <3>1. UNCHANGED <<wantPause, hint, lease, user, interrupt, started, live,
                       missed, cancelled, probed>>
      BY <1>9 DEF SendFails, KeysAfter, Fail
    <3>2. keys' \in BOOLEAN /\ tracked' \in BOOLEAN /\ full' \in BOOLEAN
      BY <1>9 DEF Flags, SendFails, KeysAfter, Fail
    <3>. QED BY <3>1, <3>2 DEF Flags
  <2>3. Numbers'
    BY <1>9, WorkerAssumption, LenSong DEF Flags, Values, Numbers,
        AtPacket, PressesNow, SendFails, KeysAfter, Fail
  <2>4. Names'
    BY <1>9 DEF Flags, Values, Names, Labels, Errors, SendFails, KeysAfter,
        Fail
  <2>5. KeysInv'
    BY <1>9 DEF KeysInv, KeysAreTracked, LedgerMatchesKeys,
        FinishedIsComplete, EndInv, Stopping, AtPacket, PressesNow, Flags,
        SendFails, KeysAfter, Fail
  <2>6. WakeInv'
    BY <1>9 DEF WakeInv, EdgeInv, Reading, Woken, Flags, Values, Numbers,
        Names, NoFrame, SendFails, KeysAfter, Fail
  <2>7. EdgeInv'
    BY <1>9 DEF EdgeInv, Planned, AtPacket, PressesNow, Flags, Values,
        Numbers, Names, NoFrame, SendFails, KeysAfter, Fail
  <2>8. ProbeInv'
    BY <1>9 DEF ProbeInv, EdgeInv, Planned, Sure, AtPacket, PressesNow,
        Flags, Values, Numbers, Names, NoFrame, SendFails, KeysAfter, Fail
  <2>9. EndInv'
    BY <1>9 DEF EndInv, KeysInv, KeysAreTracked, AtPacket, Flags, Values,
        Names, SendFails, KeysAfter, Fail
  <2>. QED
    BY <2>1, <2>2, <2>3, <2>4, <2>5, <2>6, <2>7, <2>8, <2>9 DEF Values
<1>10. CASE RecoverFails
  <2>1. frame' \in Frames /\ Frames' = Frames
    BY <1>10, FrameEdits, Zenon DEF Frames, RecoverFails, Fail
  <2>2. Flags'
    <3>1. UNCHANGED <<wantPause, hint, lease, user, interrupt, started, live,
                       missed, cancelled, probed>>
      BY <1>10 DEF RecoverFails, Fail
    <3>2. keys' \in BOOLEAN /\ tracked' \in BOOLEAN /\ full' \in BOOLEAN
      BY <1>10 DEF Flags, RecoverFails, Fail
    <3>. QED BY <3>1, <3>2 DEF Flags
  <2>3. Numbers'
    BY <1>10, WorkerAssumption, LenSong DEF Flags, Values, Numbers,
        AtPacket, PressesNow, RecoverFails, Fail
  <2>4. Names'
    BY <1>10 DEF Flags, Values, Names, Labels, Errors, RecoverFails, Fail
  <2>5. KeysInv'
    BY <1>10 DEF KeysInv, KeysAreTracked, LedgerMatchesKeys,
        FinishedIsComplete, EndInv, Stopping, AtPacket, PressesNow, Flags,
        RecoverFails, Fail
  <2>6. WakeInv'
    BY <1>10 DEF WakeInv, EdgeInv, Reading, Woken, Flags, Values, Numbers,
        Names, NoFrame, RecoverFails, Fail
  <2>7. EdgeInv'
    BY <1>10 DEF EdgeInv, Planned, AtPacket, PressesNow, Flags, Values,
        Numbers, Names, NoFrame, RecoverFails, Fail
  <2>8. ProbeInv'
    BY <1>10 DEF ProbeInv, EdgeInv, Planned, Sure, AtPacket, PressesNow,
        Flags, Values, Numbers, Names, NoFrame, RecoverFails, Fail
  <2>9. EndInv'
    BY <1>10 DEF EndInv, KeysInv, KeysAreTracked, AtPacket, Flags, Values,
        Names, RecoverFails, Fail
  <2>. QED
    BY <2>1, <2>2, <2>3, <2>4, <2>5, <2>6, <2>7, <2>8, <2>9 DEF Values
<1>. QED BY <1>1, <1>2, <1>3, <1>4, <1>5, <1>6, <1>7, <1>8, <1>9, <1>10

(* The controls are read. *)
LEMMA ReadingKeeps ==
  ASSUME WInv,
         ReadHint \/ ReadPause
  PROVE  WInv'
<1>. USE DEF WInv, Types, World, Clock, Ledger, Input, End
<1>1. CASE ReadHint
  <2>1. frame' \in Frames /\ Frames' = Frames
    <3>1. frame' \in {[frame EXCEPT !.hint = hint], NoFrame}
      BY <1>1, Zenon DEF ReadHint, Fail
    <3>2. Frames' = Frames
      BY <1>1, Zenon DEF Frames, ReadHint
    <3>3. hint \in BOOLEAN
      BY DEF Flags
    <3>. QED BY <3>1, <3>2, <3>3, FrameEdits
  <2>2. Flags'
    <3>1. UNCHANGED <<wantPause, hint, lease, user, interrupt, started, live,
                       missed, cancelled, keys, tracked, probed>>
      BY <1>1 DEF ReadHint, InLoop, Fail
    <3>2. full' \in BOOLEAN
      BY <1>1 DEF Flags, ReadHint, InLoop, Fail
    <3>. QED BY <3>1, <3>2 DEF Flags
  <2>3. Numbers'
    BY <1>1, WorkerAssumption, LenSong DEF Flags, Values, Numbers,
        AtPacket, PressesNow, ReadHint, InLoop, Fail
  <2>4. Names'
    BY <1>1 DEF Flags, Values, Names, Labels, Errors, ReadHint, InLoop,
        Fail
  <2>5. KeysInv'
    BY <1>1 DEF KeysInv, KeysAreTracked, LedgerMatchesKeys,
        FinishedIsComplete, EndInv, Stopping, AtPacket, PressesNow, Flags,
        ReadHint, InLoop, Fail
  <2>6. WakeInv'
    BY <1>1 DEF WakeInv, EdgeInv, Reading, Woken, Flags, Values, Numbers,
        Names, NoFrame, ReadHint, InLoop, Fail, Frames
  <2>7. EdgeInv'
    BY <1>1 DEF EdgeInv, Planned, AtPacket, PressesNow, Flags, Values,
        Numbers, Names, NoFrame, ReadHint, InLoop, Fail
  <2>8. ProbeInv'
    BY <1>1 DEF ProbeInv, EdgeInv, Planned, Sure, AtPacket, PressesNow,
        Flags, Values, Numbers, Names, NoFrame, ReadHint, InLoop, Fail
  <2>9. EndInv'
    BY <1>1 DEF EndInv, KeysInv, KeysAreTracked, AtPacket, Flags, Values,
        Names, ReadHint, InLoop, Fail
  <2>. QED
    BY <2>1, <2>2, <2>3, <2>4, <2>5, <2>6, <2>7, <2>8, <2>9 DEF Values
<1>2. CASE ReadPause
  <2>1. frame' \in Frames /\ Frames' = Frames
    <3>1. frame' \in {[frame EXCEPT !.pause = wantPause], NoFrame}
      BY <1>2, Zenon DEF ReadPause, Fail
    <3>2. Frames' = Frames
      BY <1>2, Zenon DEF Frames, ReadPause
    <3>3. wantPause \in BOOLEAN
      BY DEF Flags
    <3>. QED BY <3>1, <3>2, <3>3, FrameEdits
  <2>2. Flags'
    <3>1. UNCHANGED <<wantPause, hint, lease, user, interrupt, started, live,
                       missed, cancelled, keys, tracked, probed>>
      BY <1>2 DEF ReadPause, Fail
    <3>2. full' \in BOOLEAN
      BY <1>2 DEF Flags, ReadPause, Fail
    <3>. QED BY <3>1, <3>2 DEF Flags
  <2>3. Numbers'
    BY <1>2, WorkerAssumption, LenSong DEF Flags, Values, Numbers,
        AtPacket, PressesNow, ReadPause, Fail
  <2>4. Names'
    BY <1>2 DEF Flags, Values, Names, Labels, Errors, ReadPause, Fail
  <2>5. KeysInv'
    BY <1>2 DEF KeysInv, KeysAreTracked, LedgerMatchesKeys,
        FinishedIsComplete, EndInv, Stopping, AtPacket, PressesNow, Flags,
        ReadPause, Fail
  <2>6. WakeInv'
    BY <1>2 DEF WakeInv, EdgeInv, Reading, Woken, Flags, Values, Numbers,
        Names, NoFrame, ReadPause, Fail, Frames
  <2>7. EdgeInv'
    BY <1>2 DEF EdgeInv, Planned, AtPacket, PressesNow, Flags, Values,
        Numbers, Names, NoFrame, ReadPause, Fail
  <2>8. ProbeInv'
    BY <1>2 DEF ProbeInv, EdgeInv, Planned, Sure, AtPacket, PressesNow,
        Flags, Values, Numbers, Names, NoFrame, ReadPause, Fail
  <2>9. EndInv'
    BY <1>2 DEF EndInv, KeysInv, KeysAreTracked, AtPacket, Flags, Values,
        Names, ReadPause, Fail
  <2>. QED
    BY <2>1, <2>2, <2>3, <2>4, <2>5, <2>6, <2>7, <2>8, <2>9 DEF Values
<1>. QED BY <1>1, <1>2

(* The focus edge. *)
LEMMA FocusKeeps ==
  ASSUME WInv,
         LoseFocus \/ KeepFocus \/ GraceRuns \/ RestoreBegins \/ Refocus
  PROVE  WInv'
<1>. USE DEF WInv, Types, World, Clock, Ledger, Input, End
<1>1. CASE LoseFocus
  <2>1. frame' \in Frames /\ Frames' = Frames
    BY <1>1, FrameEdits, Zenon DEF Frames, LoseFocus, Go
  <2>2. Flags'
    BY <1>1 DEF Flags, LoseFocus, Enter, Go
  <2>3. Numbers'
    BY <1>1, WorkerAssumption, LenSong DEF Flags, Values, Numbers,
        AtPacket, PressesNow, LoseFocus, Enter, Go
  <2>4. Names'
    BY <1>1 DEF Flags, Values, Names, Labels, Errors, LoseFocus, Enter, Go
  <2>5. KeysInv'
    BY <1>1 DEF KeysInv, KeysAreTracked, LedgerMatchesKeys,
        FinishedIsComplete, EndInv, Stopping, AtPacket, PressesNow, Flags,
        LoseFocus, Enter, Go
  <2>6. WakeInv'
    BY <1>1 DEF WakeInv, EdgeInv, Reading, Woken, Flags, Values, Numbers,
        Names, NoFrame, LoseFocus, Enter, Go
  <2>7. EdgeInv'
    BY <1>1 DEF EdgeInv, Planned, AtPacket, PressesNow, Flags, Values,
        Numbers, Names, NoFrame, LoseFocus, Enter, Go
  <2>8. ProbeInv'
    BY <1>1 DEF ProbeInv, EdgeInv, Planned, Sure, AtPacket, PressesNow,
        Flags, Values, Numbers, Names, NoFrame, LoseFocus, Enter, Go
  <2>9. EndInv'
    BY <1>1 DEF EndInv, KeysInv, KeysAreTracked, AtPacket, Flags, Values,
        Names, LoseFocus, Enter, Go
  <2>. QED
    BY <2>1, <2>2, <2>3, <2>4, <2>5, <2>6, <2>7, <2>8, <2>9 DEF Values
<1>2. CASE KeepFocus
  <2>1. frame' \in Frames /\ Frames' = Frames
    BY <1>2, FrameEdits, Zenon DEF Frames, KeepFocus, Go
  <2>2. Flags'
    BY <1>2 DEF Flags, KeepFocus, Go
  <2>3. Numbers'
    BY <1>2, WorkerAssumption, LenSong DEF Flags, Values, Numbers,
        AtPacket, PressesNow, KeepFocus, Go
  <2>4. Names'
    BY <1>2 DEF Flags, Values, Names, Labels, Errors, KeepFocus, Go
  <2>5. KeysInv'
    BY <1>2 DEF KeysInv, KeysAreTracked, LedgerMatchesKeys,
        FinishedIsComplete, EndInv, Stopping, AtPacket, PressesNow, Flags,
        KeepFocus, Go
  <2>6. WakeInv'
    BY <1>2 DEF WakeInv, EdgeInv, Reading, Woken, Flags, Values, Numbers,
        Names, NoFrame, KeepFocus, Go
  <2>7. EdgeInv'
    BY <1>2 DEF EdgeInv, Planned, AtPacket, PressesNow, Flags, Values,
        Numbers, Names, NoFrame, KeepFocus, Go
  <2>8. ProbeInv'
    BY <1>2 DEF ProbeInv, EdgeInv, Planned, Sure, AtPacket, PressesNow,
        Flags, Values, Numbers, Names, NoFrame, KeepFocus, Go
  <2>9. EndInv'
    BY <1>2 DEF EndInv, KeysInv, KeysAreTracked, AtPacket, Flags, Values,
        Names, KeepFocus, Go
  <2>. QED
    BY <2>1, <2>2, <2>3, <2>4, <2>5, <2>6, <2>7, <2>8, <2>9 DEF Values
<1>3. CASE GraceRuns
  <2>1. frame' \in Frames /\ Frames' = Frames
    BY <1>3, FrameEdits, Zenon DEF Frames, GraceRuns, Go
  <2>2. Flags'
    BY <1>3 DEF Flags, GraceRuns, Go
  <2>3. Numbers'
    BY <1>3, WorkerAssumption, LenSong DEF Flags, Values, Numbers,
        AtPacket, PressesNow, GraceRuns, Go
  <2>4. Names'
    BY <1>3 DEF Flags, Values, Names, Labels, Errors, GraceRuns, Go
  <2>5. KeysInv'
    BY <1>3 DEF KeysInv, KeysAreTracked, LedgerMatchesKeys,
        FinishedIsComplete, EndInv, Stopping, AtPacket, PressesNow, Flags,
        GraceRuns, Go
  <2>6. WakeInv'
    BY <1>3 DEF WakeInv, EdgeInv, Reading, Woken, Flags, Values, Numbers,
        Names, NoFrame, GraceRuns, Go
  <2>7. EdgeInv'
    BY <1>3 DEF EdgeInv, Planned, AtPacket, PressesNow, Flags, Values,
        Numbers, Names, NoFrame, GraceRuns, Go
  <2>8. ProbeInv'
    BY <1>3 DEF ProbeInv, EdgeInv, Planned, Sure, AtPacket, PressesNow,
        Flags, Values, Numbers, Names, NoFrame, GraceRuns, Go
  <2>9. EndInv'
    BY <1>3 DEF EndInv, KeysInv, KeysAreTracked, AtPacket, Flags, Values,
        Names, GraceRuns, Go
  <2>. QED
    BY <2>1, <2>2, <2>3, <2>4, <2>5, <2>6, <2>7, <2>8, <2>9 DEF Values
<1>4. CASE RestoreBegins
  <2>1. frame' \in Frames /\ Frames' = Frames
    BY <1>4, FrameEdits, Zenon DEF Frames, RestoreBegins
  <2>2. Flags'
    BY <1>4 DEF Flags, RestoreBegins, ManualActive
  <2>3. Numbers'
    BY <1>4, WorkerAssumption, LenSong DEF Flags, Values, Numbers,
        AtPacket, PressesNow, RestoreBegins, ManualActive
  <2>4. Names'
    BY <1>4 DEF Flags, Values, Names, Labels, Errors, RestoreBegins,
        ManualActive
  <2>5. KeysInv'
    BY <1>4 DEF KeysInv, KeysAreTracked, LedgerMatchesKeys,
        FinishedIsComplete, EndInv, Stopping, AtPacket, PressesNow, Flags,
        RestoreBegins, ManualActive
  <2>6. WakeInv'
    BY <1>4 DEF WakeInv, EdgeInv, Reading, Woken, Flags, Values, Numbers,
        Names, NoFrame, RestoreBegins, ManualActive
  <2>7. EdgeInv'
    BY <1>4 DEF EdgeInv, Planned, AtPacket, PressesNow, Flags, Values,
        Numbers, Names, NoFrame, RestoreBegins, ManualActive
  <2>8. ProbeInv'
    BY <1>4 DEF ProbeInv, EdgeInv, Planned, Sure, AtPacket, PressesNow,
        Flags, Values, Numbers, Names, NoFrame, RestoreBegins, ManualActive
  <2>9. EndInv'
    BY <1>4 DEF EndInv, KeysInv, KeysAreTracked, AtPacket, Flags, Values,
        Names, RestoreBegins, ManualActive
  <2>. QED
    BY <2>1, <2>2, <2>3, <2>4, <2>5, <2>6, <2>7, <2>8, <2>9 DEF Values
<1>5. CASE Refocus
  <2>1. frame' \in Frames'
    <3>1. frame' \in {frame, NoFrame}
      BY <1>5, Zenon DEF Refocus, Focused, Go, Top
    <3>2. target' = target
      BY <1>5 DEF Refocus
    <3>. QED BY <3>1, <3>2, NoFrameFits, SameFrames
  <2>2. Flags'
    BY <1>5 DEF Flags, Refocus, Focused, Go, Top
  <2>3. Numbers'
    BY <1>5, WorkerAssumption, LenSong DEF Flags, Values, Numbers,
        AtPacket, PressesNow, Refocus, Focused, Go, Top
  <2>4. Names'
    BY <1>5 DEF Flags, Values, Names, Labels, Errors, Refocus, Focused, Go,
        Top
  <2>5. KeysInv'
    BY <1>5 DEF KeysInv, KeysAreTracked, LedgerMatchesKeys,
        FinishedIsComplete, EndInv, Stopping, AtPacket, PressesNow, Flags,
        Refocus, Focused, Go, Top
  <2>6. WakeInv'
    BY <1>5 DEF WakeInv, EdgeInv, Reading, Woken, Flags, Values, Numbers,
        Names, NoFrame, Refocus, Focused, Go, Top
  <2>7. EdgeInv'
    BY <1>5 DEF EdgeInv, Planned, AtPacket, PressesNow, Flags, Values,
        Numbers, Names, NoFrame, Refocus, Focused, Go, Top
  <2>8. ProbeInv'
    BY <1>5 DEF ProbeInv, EdgeInv, Planned, Sure, AtPacket, PressesNow,
        Flags, Values, Numbers, Names, NoFrame, Refocus, Focused, Go, Top
  <2>9. EndInv'
    BY <1>5 DEF EndInv, KeysInv, KeysAreTracked, AtPacket, Flags, Values,
        Names, Refocus, Focused, Go, Top
  <2>. QED
    BY <2>1, <2>2, <2>3, <2>4, <2>5, <2>6, <2>7, <2>8, <2>9 DEF Values
<1>. QED BY <1>1, <1>2, <1>3, <1>4, <1>5

(* The manual edge. *)
LEMMA ManualKeeps ==
  ASSUME WInv,
         PauseManually \/ KeepManual \/ ResumeManually \/ Resume
  PROVE  WInv'
<1>. USE DEF WInv, Types, World, Clock, Ledger, Input, End
<1>1. CASE PauseManually
  <2>1. frame' \in Frames /\ Frames' = Frames
    <3>1. frame' \in {frame}
      BY <1>1, Zenon DEF PauseManually, Go
    <3>2. Frames' = Frames
      BY <1>1, Zenon DEF Frames, PauseManually
    <3>. QED BY <3>1, <3>2, FrameEdits
  <2>2. Flags'
    BY <1>1 DEF Flags, PauseManually, Go, Enter
  <2>3. Numbers'
    BY <1>1, WorkerAssumption, LenSong DEF Flags, Values, Numbers,
        AtPacket, PressesNow, PauseManually, Go, Enter
  <2>4. Names'
    BY <1>1 DEF Flags, Values, Names, Labels, Errors, PauseManually, Go,
        Enter
  <2>5. KeysInv'
    BY <1>1 DEF KeysInv, KeysAreTracked, LedgerMatchesKeys,
        FinishedIsComplete, EndInv, Stopping, AtPacket, PressesNow, Flags,
        PauseManually, Go, Enter
  <2>6. WakeInv'
    BY <1>1 DEF WakeInv, EdgeInv, Reading, Woken, Flags, Values, Numbers,
        Names, NoFrame, PauseManually, Go, Enter
  <2>7. EdgeInv'
    BY <1>1 DEF EdgeInv, Planned, AtPacket, PressesNow, Flags, Values,
        Numbers, Names, NoFrame, PauseManually, Go, Enter
  <2>8. ProbeInv'
    BY <1>1 DEF ProbeInv, EdgeInv, Planned, Sure, AtPacket, PressesNow,
        Flags, Values, Numbers, Names, NoFrame, PauseManually, Go, Enter
  <2>9. EndInv'
    BY <1>1 DEF EndInv, KeysInv, KeysAreTracked, AtPacket, Flags, Values,
        Names, PauseManually, Go, Enter
  <2>. QED
    BY <2>1, <2>2, <2>3, <2>4, <2>5, <2>6, <2>7, <2>8, <2>9 DEF Values
<1>2. CASE KeepManual
  <2>1. frame' \in Frames /\ Frames' = Frames
    BY <1>2, FrameEdits, Zenon DEF Frames, KeepManual, Go
  <2>2. Flags'
    BY <1>2 DEF Flags, KeepManual, Go
  <2>3. Numbers'
    BY <1>2, WorkerAssumption, LenSong DEF Flags, Values, Numbers,
        AtPacket, PressesNow, KeepManual, Go
  <2>4. Names'
    BY <1>2 DEF Flags, Values, Names, Labels, Errors, KeepManual, Go
  <2>5. KeysInv'
    BY <1>2 DEF KeysInv, KeysAreTracked, LedgerMatchesKeys,
        FinishedIsComplete, EndInv, Stopping, AtPacket, PressesNow, Flags,
        KeepManual, Go
  <2>6. WakeInv'
    BY <1>2 DEF WakeInv, EdgeInv, Reading, Woken, Flags, Values, Numbers,
        Names, NoFrame, KeepManual, Go
  <2>7. EdgeInv'
    BY <1>2 DEF EdgeInv, Planned, AtPacket, PressesNow, Flags, Values,
        Numbers, Names, NoFrame, KeepManual, Go
  <2>8. ProbeInv'
    BY <1>2 DEF ProbeInv, EdgeInv, Planned, Sure, AtPacket, PressesNow,
        Flags, Values, Numbers, Names, NoFrame, KeepManual, Go
  <2>9. EndInv'
    BY <1>2 DEF EndInv, KeysInv, KeysAreTracked, AtPacket, Flags, Values,
        Names, KeepManual, Go
  <2>. QED
    BY <2>1, <2>2, <2>3, <2>4, <2>5, <2>6, <2>7, <2>8, <2>9 DEF Values
<1>3. CASE ResumeManually
  <2>1. frame' \in Frames /\ Frames' = Frames
    <3>1. frame' \in {frame, [frame EXCEPT !.stamp = target]}
      BY <1>3, Zenon DEF ResumeManually, Go
    <3>2. Frames' = Frames
      BY <1>3, Zenon DEF Frames, ResumeManually
    <3>. QED BY <3>1, <3>2, FrameEdits
  <2>2. Flags'
    BY <1>3 DEF Flags, ResumeManually, Go
  <2>3. Numbers'
    BY <1>3, WorkerAssumption, LenSong DEF Flags, Values, Numbers,
        AtPacket, PressesNow, ResumeManually, Go
  <2>4. Names'
    BY <1>3 DEF Flags, Values, Names, Labels, Errors, ResumeManually, Go
  <2>5. KeysInv'
    BY <1>3 DEF KeysInv, KeysAreTracked, LedgerMatchesKeys,
        FinishedIsComplete, EndInv, Stopping, AtPacket, PressesNow, Flags,
        ResumeManually, Go
  <2>6. WakeInv'
    BY <1>3 DEF WakeInv, EdgeInv, Reading, Woken, Flags, Values, Numbers,
        Names, NoFrame, ResumeManually, Go
  <2>7. EdgeInv'
    BY <1>3 DEF EdgeInv, Planned, AtPacket, PressesNow, Flags, Values,
        Numbers, Names, NoFrame, ResumeManually, Go, Frames
  <2>8. ProbeInv'
    BY <1>3 DEF ProbeInv, EdgeInv, Planned, Sure, AtPacket, PressesNow,
        Flags, Values, Numbers, Names, NoFrame, ResumeManually, Go, Frames
  <2>9. EndInv'
    BY <1>3 DEF EndInv, KeysInv, KeysAreTracked, AtPacket, Flags, Values,
        Names, ResumeManually, Go
  <2>. QED
    BY <2>1, <2>2, <2>3, <2>4, <2>5, <2>6, <2>7, <2>8, <2>9 DEF Values
<1>4. CASE Resume
  <2>1. frame' \in Frames'
    <3>1. frame' \in {frame, NoFrame}
      BY <1>4, Zenon DEF Resume, Focused, Go, Top
    <3>2. target' = target
      BY <1>4 DEF Resume
    <3>. QED BY <3>1, <3>2, NoFrameFits, SameFrames
  <2>2. Flags'
    BY <1>4 DEF Flags, Resume, Focused, Go, Top
  <2>3. Numbers'
    BY <1>4, WorkerAssumption, LenSong DEF Flags, Values, Numbers,
        AtPacket, PressesNow, Resume, Focused, Go, Top
  <2>4. Names'
    BY <1>4 DEF Flags, Values, Names, Labels, Errors, Resume, Focused, Go,
        Top
  <2>5. KeysInv'
    BY <1>4 DEF KeysInv, KeysAreTracked, LedgerMatchesKeys,
        FinishedIsComplete, EndInv, Stopping, AtPacket, PressesNow, Flags,
        Resume, Focused, Go, Top
  <2>6. WakeInv'
    BY <1>4 DEF WakeInv, EdgeInv, Reading, Woken, Flags, Values, Numbers,
        Names, NoFrame, Resume, Focused, Go, Top
  <2>7. EdgeInv'
    BY <1>4 DEF EdgeInv, Planned, AtPacket, PressesNow, Flags, Values,
        Numbers, Names, NoFrame, Resume, Focused, Go, Top
  <2>8. ProbeInv'
    BY <1>4 DEF ProbeInv, EdgeInv, Planned, Sure, AtPacket, PressesNow,
        Flags, Values, Numbers, Names, NoFrame, Resume, Focused, Go, Top
  <2>9. EndInv'
    BY <1>4 DEF EndInv, KeysInv, KeysAreTracked, AtPacket, Flags, Values,
        Names, Resume, Focused, Go, Top
  <2>. QED
    BY <2>1, <2>2, <2>3, <2>4, <2>5, <2>6, <2>7, <2>8, <2>9 DEF Values
<1>. QED BY <1>1, <1>2, <1>3, <1>4

(* The releases and probes the edges ask for. *)
LEMMA SuspendKeeps ==
  ASSUME WInv,
         RestoreReleased \/ PauseReleased \/ GateReleased \/ PreflightPasses
  PROVE  WInv'
<1>. USE DEF WInv, Types, World, Clock, Ledger, Input, End
<1>1. CASE RestoreReleased
  <2>1. frame' \in Frames /\ Frames' = Frames
    BY <1>1, FrameEdits, Zenon DEF Frames, RestoreReleased, Go
  <2>2. Flags'
    BY <1>1 DEF Flags, RestoreReleased, Suspended, Release,
        ReleaseVerified, Go
  <2>3. Numbers'
    BY <1>1, WorkerAssumption, LenSong DEF Flags, Values, Numbers,
        AtPacket, PressesNow, RestoreReleased, Suspended, Release,
        ReleaseVerified, Go
  <2>4. Names'
    BY <1>1 DEF Flags, Values, Names, Labels, Errors, RestoreReleased,
        Suspended, Release, ReleaseVerified, Go
  <2>5. KeysInv'
    BY <1>1 DEF KeysInv, KeysAreTracked, LedgerMatchesKeys,
        FinishedIsComplete, EndInv, Stopping, AtPacket, PressesNow, Flags,
        RestoreReleased, Suspended, Release, ReleaseVerified, Go
  <2>6. WakeInv'
    BY <1>1 DEF WakeInv, EdgeInv, Reading, Woken, Flags, Values, Numbers,
        Names, NoFrame, RestoreReleased, Suspended, Release,
        ReleaseVerified, Go
  <2>7. EdgeInv'
    BY <1>1 DEF EdgeInv, Planned, AtPacket, PressesNow, Flags, Values,
        Numbers, Names, NoFrame, RestoreReleased, Suspended, Release,
        ReleaseVerified, Go
  <2>8. ProbeInv'
    BY <1>1 DEF ProbeInv, EdgeInv, Planned, Sure, AtPacket, PressesNow,
        Flags, Values, Numbers, Names, NoFrame, RestoreReleased, Suspended,
        Release, ReleaseVerified, Go
  <2>9. EndInv'
    BY <1>1 DEF EndInv, KeysInv, KeysAreTracked, AtPacket, Flags, Values,
        Names, RestoreReleased, Suspended, Release, ReleaseVerified, Go
  <2>. QED
    BY <2>1, <2>2, <2>3, <2>4, <2>5, <2>6, <2>7, <2>8, <2>9 DEF Values
<1>2. CASE PauseReleased
  <2>1. frame' \in Frames /\ Frames' = Frames
    BY <1>2, FrameEdits, Zenon DEF Frames, PauseReleased, Go
  <2>2. Flags'
    BY <1>2 DEF Flags, PauseReleased, Suspended, Release, ReleaseVerified,
        Enter, Go
  <2>3. Numbers'
    BY <1>2, WorkerAssumption, LenSong DEF Flags, Values, Numbers,
        AtPacket, PressesNow, PauseReleased, Suspended, Release,
        ReleaseVerified, Enter, Go
  <2>4. Names'
    BY <1>2 DEF Flags, Values, Names, Labels, Errors, PauseReleased,
        Suspended, Release, ReleaseVerified, Enter, Go
  <2>5. KeysInv'
    BY <1>2 DEF KeysInv, KeysAreTracked, LedgerMatchesKeys,
        FinishedIsComplete, EndInv, Stopping, AtPacket, PressesNow, Flags,
        PauseReleased, Suspended, Release, ReleaseVerified, Enter, Go
  <2>6. WakeInv'
    BY <1>2 DEF WakeInv, EdgeInv, Reading, Woken, Flags, Values, Numbers,
        Names, NoFrame, PauseReleased, Suspended, Release, ReleaseVerified,
        Enter, Go
  <2>7. EdgeInv'
    BY <1>2 DEF EdgeInv, Planned, AtPacket, PressesNow, Flags, Values,
        Numbers, Names, NoFrame, PauseReleased, Suspended, Release,
        ReleaseVerified, Enter, Go
  <2>8. ProbeInv'
    BY <1>2 DEF ProbeInv, EdgeInv, Planned, Sure, AtPacket, PressesNow,
        Flags, Values, Numbers, Names, NoFrame, PauseReleased, Suspended,
        Release, ReleaseVerified, Enter, Go
  <2>9. EndInv'
    BY <1>2 DEF EndInv, KeysInv, KeysAreTracked, AtPacket, Flags, Values,
        Names, PauseReleased, Suspended, Release, ReleaseVerified, Enter,
        Go
  <2>. QED
    BY <2>1, <2>2, <2>3, <2>4, <2>5, <2>6, <2>7, <2>8, <2>9 DEF Values
<1>3. CASE GateReleased
  <2>1. frame' \in Frames'
    <3>1. frame' \in {frame, NoFrame}
      BY <1>3, Zenon DEF GateReleased, Suspended, Release,
          ReleaseVerified, Enter, AfterGate, Go, Top
    <3>2. target' = target
      BY <1>3 DEF GateReleased
    <3>. QED BY <3>1, <3>2, NoFrameFits, SameFrames
  <2>2. Flags'
    BY <1>3 DEF Flags, GateReleased, Suspended, Release, ReleaseVerified,
        Enter, AfterGate, Go, Top
  <2>3. Numbers'
    BY <1>3, WorkerAssumption, LenSong DEF Flags, Values, Numbers,
        AtPacket, PressesNow, GateReleased, Suspended, Release,
        ReleaseVerified, Enter, AfterGate, Go, Top
  <2>4. Names'
    BY <1>3 DEF Flags, Values, Names, Labels, Errors, GateReleased,
        Suspended, Release, ReleaseVerified, Enter, AfterGate, Go, Top
  <2>5. KeysInv'
    BY <1>3 DEF KeysInv, KeysAreTracked, LedgerMatchesKeys,
        FinishedIsComplete, EndInv, Stopping, AtPacket, PressesNow, Flags,
        GateReleased, Suspended, Release, ReleaseVerified, Enter,
        AfterGate, Go, Top
  <2>6. WakeInv'
    BY <1>3 DEF WakeInv, EdgeInv, Reading, Woken, Flags, Values, Numbers,
        Names, NoFrame, GateReleased, Suspended, Release, ReleaseVerified,
        Enter, AfterGate, Go, Top
  <2>7. EdgeInv'
    BY <1>3 DEF EdgeInv, Planned, AtPacket, PressesNow, Flags, Values,
        Numbers, Names, NoFrame, GateReleased, Suspended, Release,
        ReleaseVerified, Enter, AfterGate, Go, Top
  <2>8. ProbeInv'
    BY <1>3 DEF ProbeInv, EdgeInv, Planned, Sure, AtPacket, PressesNow,
        Flags, Values, Numbers, Names, NoFrame, GateReleased, Suspended,
        Release, ReleaseVerified, Enter, AfterGate, Go, Top
  <2>9. EndInv'
    BY <1>3 DEF EndInv, KeysInv, KeysAreTracked, AtPacket, Flags, Values,
        Names, GateReleased, Suspended, Release, ReleaseVerified, Enter,
        AfterGate, Go, Top
  <2>. QED
    BY <2>1, <2>2, <2>3, <2>4, <2>5, <2>6, <2>7, <2>8, <2>9 DEF Values
<1>4. CASE PreflightPasses
  <2>1. frame' \in Frames /\ Frames' = Frames
    BY <1>4, FrameEdits, Zenon DEF Frames, PreflightPasses, Go
  <2>2. Flags'
    BY <1>4 DEF Flags, PreflightPasses, Go
  <2>3. Numbers'
    BY <1>4, WorkerAssumption, LenSong DEF Flags, Values, Numbers,
        AtPacket, PressesNow, Frames, PreflightPasses, Go
  <2>4. \/ pc = "restorePreflight" /\ pc' = "refocus"
        \/ pc = "resumePreflight" /\ pc' = "resume"
        \/ pc = "planPreflight" /\ pc' = "proof"
    BY <1>4 DEF PreflightPasses, AtPreflight, AfterPreflight, Go
  <2>5. frame' = frame
    BY <1>4 DEF PreflightPasses, Go
  <2>6. Names'
    BY <1>4, <2>4 DEF Flags, Values, Names, Labels, Errors,
        PreflightPasses, Go
  <2>7. KeysInv'
    BY <1>4, <2>4, <2>5 DEF KeysInv, KeysAreTracked, LedgerMatchesKeys,
        FinishedIsComplete, EndInv, Stopping, AtPacket, PressesNow, Flags,
        PreflightPasses, Go
  <2>8. WakeInv'
    BY <1>4, <2>4, <2>5 DEF WakeInv, EdgeInv, Reading, Woken, Flags,
        Values, Numbers, Names, NoFrame, PreflightPasses, Go
  <2>9. EdgeInv'
    BY <1>4, <2>4, <2>5 DEF EdgeInv, Planned, AtPacket, PressesNow,
        Flags, Values, Numbers, Names, NoFrame, PreflightPasses, Go
  <2>10. ProbeInv'
    BY <1>4, <2>4, <2>5 DEF ProbeInv, EdgeInv, Planned, Sure, AtPacket,
        PressesNow, Flags, Values, Numbers, Names, NoFrame,
        PreflightPasses, Go
  <2>11. EndInv'
    BY <1>4, <2>4, <2>5 DEF EndInv, KeysInv, KeysAreTracked, AtPacket,
        Flags, Values, Names, PreflightPasses, Go
  <2>. QED
    BY <2>1, <2>2, <2>3, <2>6, <2>7, <2>8, <2>9, <2>10, <2>11 DEF Values
<1>. QED BY <1>1, <1>2, <1>3, <1>4

(* Planning and waiting. *)
LEMMA WaitKeeps ==
  ASSUME WInv,
         Poll \/ SkipStale \/ Plan \/ Prove \/ Due \/ WakeEarly \/ Drain
  PROVE  WInv'
<1>. USE DEF WInv, Types, World, Clock, Ledger, Input, End
<1>1. CASE Poll
  <2>1. frame' \in Frames /\ Frames' = Frames
    BY <1>1, FrameEdits, Zenon DEF Frames, Poll, Top
  <2>2. Flags'
    <3>1. UNCHANGED <<wantPause, hint, lease, user, started, live, missed,
                       cancelled, keys, tracked, full, probed>>
      BY <1>1 DEF Poll, Top
    <3>2. interrupt' \in BOOLEAN
      BY <1>1 DEF Flags, Poll, Top
    <3>. QED BY <3>1, <3>2 DEF Flags
  <2>3. Numbers'
    BY <1>1, WorkerAssumption, LenSong DEF Flags, Values, Numbers,
        AtPacket, PressesNow, Poll, Top
  <2>4. Names'
    BY <1>1 DEF Flags, Values, Names, Labels, Errors, Poll, Top
  <2>5. KeysInv'
    BY <1>1 DEF KeysInv, KeysAreTracked, LedgerMatchesKeys,
        FinishedIsComplete, EndInv, Stopping, AtPacket, PressesNow, Flags,
        Poll, Top
  <2>6. WakeInv'
    BY <1>1 DEF WakeInv, EdgeInv, Reading, Woken, Flags, Values, Numbers,
        Names, NoFrame, Poll, Top
  <2>7. EdgeInv'
    BY <1>1 DEF EdgeInv, Planned, AtPacket, PressesNow, Flags, Values,
        Numbers, Names, NoFrame, Poll, Top
  <2>8. ProbeInv'
    BY <1>1 DEF ProbeInv, EdgeInv, Planned, Sure, AtPacket, PressesNow,
        Flags, Values, Numbers, Names, NoFrame, Poll, Top
  <2>9. EndInv'
    BY <1>1 DEF EndInv, KeysInv, KeysAreTracked, AtPacket, Flags, Values,
        Names, Poll, Top
  <2>. QED
    BY <2>1, <2>2, <2>3, <2>4, <2>5, <2>6, <2>7, <2>8, <2>9 DEF Values
<1>2. CASE SkipStale
  <2>1. frame' \in Frames /\ Frames' = Frames
    BY <1>2, FrameEdits, Zenon DEF Frames, SkipStale, Top
  <2>2. Flags'
    BY <1>2 DEF Flags, SkipStale, Playing, LiftsNow, Top
  <2>3. Numbers'
    BY <1>2, WorkerAssumption, LenSong DEF Flags, Values, Numbers,
        AtPacket, PressesNow, SkipStale, Playing, LiftsNow, Top
  <2>4. Names'
    BY <1>2 DEF Flags, Values, Names, Labels, Errors, SkipStale, Playing,
        LiftsNow, Top
  <2>5. KeysInv'
    BY <1>2 DEF KeysInv, KeysAreTracked, LedgerMatchesKeys,
        FinishedIsComplete, EndInv, Stopping, AtPacket, PressesNow, Flags,
        SkipStale, Playing, LiftsNow, Top
  <2>6. WakeInv'
    BY <1>2 DEF WakeInv, EdgeInv, Reading, Woken, Flags, Values, Numbers,
        Names, NoFrame, SkipStale, Playing, LiftsNow, Top
  <2>7. EdgeInv'
    BY <1>2 DEF EdgeInv, Planned, AtPacket, PressesNow, Flags, Values,
        Numbers, Names, NoFrame, SkipStale, Playing, LiftsNow, Top
  <2>8. ProbeInv'
    BY <1>2 DEF ProbeInv, EdgeInv, Planned, Sure, AtPacket, PressesNow,
        Flags, Values, Numbers, Names, NoFrame, SkipStale, Playing,
        LiftsNow, Top
  <2>9. EndInv'
    BY <1>2 DEF EndInv, KeysInv, KeysAreTracked, AtPacket, Flags, Values,
        Names, SkipStale, Playing, LiftsNow, Top
  <2>. QED
    BY <2>1, <2>2, <2>3, <2>4, <2>5, <2>6, <2>7, <2>8, <2>9 DEF Values
<1>3. CASE Plan
  <2>1. frame' \in Frames /\ Frames' = Frames
    <3>1. frame' \in {[frame EXCEPT !.up = LiftsNow, !.stamp = target]}
      BY <1>3, Zenon DEF Plan
    <3>2. Frames' = Frames
      BY <1>3, Zenon DEF Frames, Plan
    <3>3. LiftsNow \in BOOLEAN
      BY DEF LiftsNow
    <3>. QED BY <3>1, <3>2, <3>3, FrameEdits
  <2>2. Flags'
    BY <1>3 DEF Flags, Plan, Playing, LiftsNow
  <2>3. Numbers'
    BY <1>3, WorkerAssumption, LenSong DEF Flags, Values, Numbers,
        AtPacket, PressesNow, Frames, Plan, Playing, LiftsNow
  <2>4. Names'
    BY <1>3 DEF Flags, Values, Names, Labels, Errors, Plan, Playing,
        LiftsNow
  <2>5. KeysInv'
    BY <1>3 DEF KeysInv, KeysAreTracked, LedgerMatchesKeys,
        FinishedIsComplete, EndInv, Stopping, AtPacket, PressesNow, Flags,
        Plan, Playing, LiftsNow
  <2>6. WakeInv'
    BY <1>3 DEF WakeInv, EdgeInv, Reading, Woken, Flags, Values, Numbers,
        Names, NoFrame, Plan, Playing, LiftsNow
  <2>7. EdgeInv'
    BY <1>3 DEF EdgeInv, Planned, AtPacket, PressesNow, Flags, Values,
        Numbers, Names, NoFrame, Plan, Playing, LiftsNow
  <2>8. ProbeInv'
    BY <1>3 DEF ProbeInv, EdgeInv, Planned, Sure, AtPacket, PressesNow,
        Flags, Values, Numbers, Names, NoFrame, Plan, Playing, LiftsNow
  <2>9. EndInv'
    BY <1>3 DEF EndInv, KeysInv, KeysAreTracked, AtPacket, Flags, Values,
        Names, Plan, Playing, LiftsNow
  <2>. QED
    BY <2>1, <2>2, <2>3, <2>4, <2>5, <2>6, <2>7, <2>8, <2>9 DEF Values
<1>4. CASE Prove
  <2>1. frame' \in Frames /\ Frames' = Frames
    <3>1. frame' \in {frame, NoFrame}
      BY <1>4, Zenon DEF Prove, Go, Top
    <3>2. Frames' = Frames
      BY <1>4, Zenon DEF Frames, Prove
    <3>. QED BY <3>1, <3>2, FrameEdits
  <2>2. Flags'
    BY <1>4 DEF Flags, Prove, Go, Top
  <2>3. Numbers'
    BY <1>4, WorkerAssumption, LenSong DEF Flags, Values, Numbers,
        AtPacket, PressesNow, Prove, Go, Top
  <2>4. Names'
    BY <1>4 DEF Flags, Values, Names, Labels, Errors, Prove, Go, Top
  <2>5. KeysInv'
    BY <1>4 DEF KeysInv, KeysAreTracked, LedgerMatchesKeys,
        FinishedIsComplete, EndInv, Stopping, AtPacket, PressesNow, Flags,
        Prove, Go, Top
  <2>6. WakeInv'
    BY <1>4 DEF WakeInv, EdgeInv, Reading, Woken, Flags, Values, Numbers,
        Names, NoFrame, Prove, Go, Top
  <2>7. EdgeInv'
    BY <1>4 DEF EdgeInv, Planned, AtPacket, PressesNow, Flags, Values,
        Numbers, Names, NoFrame, Prove, Go, Top
  <2>8. ProbeInv'
    BY <1>4 DEF ProbeInv, EdgeInv, Planned, Sure, AtPacket, PressesNow,
        Flags, Values, Numbers, Names, NoFrame, Prove, Go, Top
  <2>9. EndInv'
    BY <1>4 DEF EndInv, KeysInv, KeysAreTracked, AtPacket, Flags, Values,
        Names, Prove, Go, Top
  <2>. QED
    BY <2>1, <2>2, <2>3, <2>4, <2>5, <2>6, <2>7, <2>8, <2>9 DEF Values
<1>5. CASE Due
  <2>1. frame' \in Frames /\ Frames' = Frames
    BY <1>5, FrameEdits, Zenon DEF Frames, Due
  <2>2. Flags'
    BY <1>5 DEF Flags, Due
  <2>3. Numbers'
    BY <1>5, WorkerAssumption, LenSong DEF Flags, Values, Numbers,
        AtPacket, PressesNow, Due
  <2>4. Names'
    BY <1>5 DEF Flags, Values, Names, Labels, Errors, Due
  <2>5. KeysInv'
    BY <1>5 DEF KeysInv, KeysAreTracked, LedgerMatchesKeys,
        FinishedIsComplete, EndInv, Stopping, AtPacket, PressesNow, Flags,
        Due
  <2>6. WakeInv'
    BY <1>5 DEF WakeInv, EdgeInv, Reading, Woken, Flags, Values, Numbers,
        Names, NoFrame, Due
  <2>7. EdgeInv'
    BY <1>5 DEF EdgeInv, Planned, AtPacket, PressesNow, Flags, Values,
        Numbers, Names, NoFrame, Due
  <2>8. ProbeInv'
    BY <1>5 DEF ProbeInv, EdgeInv, Planned, Sure, AtPacket, PressesNow,
        Flags, Values, Numbers, Names, NoFrame, Due
  <2>9. EndInv'
    BY <1>5 DEF EndInv, KeysInv, KeysAreTracked, AtPacket, Flags, Values,
        Names, Due
  <2>. QED
    BY <2>1, <2>2, <2>3, <2>4, <2>5, <2>6, <2>7, <2>8, <2>9 DEF Values
<1>6. CASE WakeEarly
  <2>1. frame' \in Frames /\ Frames' = Frames
    BY <1>6, FrameEdits, Zenon DEF Frames, WakeEarly, Go
  <2>2. Flags'
    <3>1. UNCHANGED <<wantPause, hint, lease, user, started, live, missed,
                       cancelled, keys, tracked, full, probed>>
      BY <1>6 DEF WakeEarly, Go
    <3>2. interrupt' \in BOOLEAN
      BY <1>6 DEF Flags, WakeEarly, Go
    <3>. QED BY <3>1, <3>2 DEF Flags
  <2>3. Numbers'
    BY <1>6, WorkerAssumption, LenSong DEF Flags, Values, Numbers,
        AtPacket, PressesNow, WakeEarly, Go
  <2>4. Names'
    BY <1>6 DEF Flags, Values, Names, Labels, Errors, WakeEarly, Go
  <2>5. KeysInv'
    BY <1>6 DEF KeysInv, KeysAreTracked, LedgerMatchesKeys,
        FinishedIsComplete, EndInv, Stopping, AtPacket, PressesNow, Flags,
        WakeEarly, Go
  <2>6. WakeInv'
    BY <1>6 DEF WakeInv, EdgeInv, Reading, Woken, Flags, Values, Numbers,
        Names, NoFrame, WakeEarly, Go
  <2>7. EdgeInv'
    BY <1>6 DEF EdgeInv, Planned, AtPacket, PressesNow, Flags, Values,
        Numbers, Names, NoFrame, WakeEarly, Go
  <2>8. ProbeInv'
    BY <1>6 DEF ProbeInv, EdgeInv, Planned, Sure, AtPacket, PressesNow,
        Flags, Values, Numbers, Names, NoFrame, WakeEarly, Go
  <2>9. EndInv'
    BY <1>6 DEF EndInv, KeysInv, KeysAreTracked, AtPacket, Flags, Values,
        Names, WakeEarly, Go
  <2>. QED
    BY <2>1, <2>2, <2>3, <2>4, <2>5, <2>6, <2>7, <2>8, <2>9 DEF Values
<1>7. CASE Drain
  <2>1. frame' \in Frames /\ Frames' = Frames
    BY <1>7, FrameEdits, Zenon DEF Frames, Drain, Top
  <2>2. Flags'
    <3>1. UNCHANGED <<wantPause, hint, lease, user, started, live, missed,
                       cancelled, keys, tracked, full, probed>>
      BY <1>7 DEF Drain, Top
    <3>2. interrupt' \in BOOLEAN
      BY <1>7 DEF Flags, Drain, Top
    <3>. QED BY <3>1, <3>2 DEF Flags
  <2>3. Numbers'
    BY <1>7, WorkerAssumption, LenSong DEF Flags, Values, Numbers,
        AtPacket, PressesNow, Drain, Top
  <2>4. Names'
    BY <1>7 DEF Flags, Values, Names, Labels, Errors, Drain, Top
  <2>5. KeysInv'
    BY <1>7 DEF KeysInv, KeysAreTracked, LedgerMatchesKeys,
        FinishedIsComplete, EndInv, Stopping, AtPacket, PressesNow, Flags,
        Drain, Top
  <2>6. WakeInv'
    BY <1>7 DEF WakeInv, EdgeInv, Reading, Woken, Flags, Values, Numbers,
        Names, NoFrame, Drain, Top
  <2>7. EdgeInv'
    BY <1>7 DEF EdgeInv, Planned, AtPacket, PressesNow, Flags, Values,
        Numbers, Names, NoFrame, Drain, Top
  <2>8. ProbeInv'
    BY <1>7 DEF ProbeInv, EdgeInv, Planned, Sure, AtPacket, PressesNow,
        Flags, Values, Numbers, Names, NoFrame, Drain, Top
  <2>9. EndInv'
    BY <1>7 DEF EndInv, KeysInv, KeysAreTracked, AtPacket, Flags, Values,
        Names, Drain, Top
  <2>. QED
    BY <2>1, <2>2, <2>3, <2>4, <2>5, <2>6, <2>7, <2>8, <2>9 DEF Values
<1>. QED BY <1>1, <1>2, <1>3, <1>4, <1>5, <1>6, <1>7

(* The two gates. *)
LEMMA GateKeeps ==
  ASSUME WInv,
         Admit \/ Final
  PROVE  WInv'
<1>. USE DEF WInv, Types, World, Clock, Ledger, Input, End
<1>1. CASE Admit
  <2>1. frame' \in Frames /\ Frames' = Frames
    <3>1. frame' \in {frame, NoFrame, [frame EXCEPT !.refused = TRUE]}
      BY <1>1, Zenon DEF Admit, GateLosesFocus, Go, Fail, Rejected, Top
    <3>2. Frames' = Frames
      BY <1>1, Zenon DEF Frames, Admit
    <3>. QED BY <3>1, <3>2, FrameEdits
  <2>2. Flags'
    <3>1. probed' \in BOOLEAN /\ full' \in BOOLEAN
      BY <1>1 DEF Flags, Frames, Rejected, GateLosesFocus, Fail, Admit
    <3>. QED BY <3>1, <1>1 DEF Flags, Admit
  <2>3. Numbers'
    BY <1>1, WorkerAssumption, LenSong DEF Flags, Values, Numbers,
        AtPacket, PressesNow, Admit, GateLosesFocus, Go, Fail,
        StopRequested, Rejected, Top
  <2>4. Names'
    BY <1>1 DEF Flags, Values, Names, Labels, Errors, Admit,
        GateLosesFocus, Go, Fail, StopRequested, Rejected, Top
  <2>5. KeysInv'
    BY <1>1 DEF KeysInv, KeysAreTracked, LedgerMatchesKeys,
        FinishedIsComplete, EndInv, Stopping, AtPacket, PressesNow, Flags,
        Admit, GateLosesFocus, Go, Fail, StopRequested, Rejected, Top
  <2>6. WakeInv'
    BY <1>1 DEF WakeInv, EdgeInv, Reading, Woken, Flags, Values, Numbers,
        Names, NoFrame, Admit, GateLosesFocus, Go, Fail, StopRequested,
        Rejected, Top
  <2>7. EdgeInv'
    BY <1>1 DEF EdgeInv, Planned, AtPacket, PressesNow, Flags, Values,
        Numbers, Names, NoFrame, Admit, GateLosesFocus, Go, Fail,
        StopRequested, Rejected, Top
  <2>8. ProbeInv'
    BY <1>1 DEF ProbeInv, EdgeInv, Planned, Sure, AtPacket, PressesNow,
        Flags, Values, Numbers, Names, NoFrame, Admit, GateLosesFocus, Go,
        Fail, StopRequested, Rejected, Top
  <2>9. EndInv'
    BY <1>1 DEF EndInv, KeysInv, KeysAreTracked, AtPacket, Flags, Values,
        Names, Admit, GateLosesFocus, Go, Fail, StopRequested, Rejected,
        Top
  <2>. QED
    BY <2>1, <2>2, <2>3, <2>4, <2>5, <2>6, <2>7, <2>8, <2>9 DEF Values
<1>2. CASE Final
  <2>1. frame' \in Frames /\ Frames' = Frames
    <3>1. frame' \in {frame, NoFrame, [frame EXCEPT !.refused = TRUE]}
      BY <1>2, Zenon DEF Final, Rejected, Top, GateLosesFocus, Go, Fail
    <3>2. Frames' = Frames
      BY <1>2, Zenon DEF Frames, Final
    <3>. QED BY <3>1, <3>2, FrameEdits
  <2>2. Flags'
    <3>1. probed' \in BOOLEAN /\ full' \in BOOLEAN
      BY <1>2 DEF Flags, Frames, Rejected, GateLosesFocus, Fail, Final
    <3>. QED BY <3>1, <1>2 DEF Flags, Final
  <2>3. Numbers'
    BY <1>2, WorkerAssumption, LenSong DEF Flags, Values, Numbers,
        AtPacket, PressesNow, Final, StopRequested, Rejected, Top, Focused,
        GateLosesFocus, Go, Fail
  <2>4. Names'
    BY <1>2 DEF Flags, Values, Names, Labels, Errors, Final, StopRequested,
        Rejected, Top, Focused, GateLosesFocus, Go, Fail
  <2>5. KeysInv'
    BY <1>2 DEF KeysInv, KeysAreTracked, LedgerMatchesKeys,
        FinishedIsComplete, EndInv, Stopping, AtPacket, PressesNow, Flags,
        Final, StopRequested, Rejected, Top, Focused, GateLosesFocus, Go,
        Fail
  <2>6. WakeInv'
    BY <1>2 DEF WakeInv, EdgeInv, Reading, Woken, Flags, Values, Numbers,
        Names, NoFrame, Final, StopRequested, Rejected, Top, Focused,
        GateLosesFocus, Go, Fail
  <2>7. EdgeInv'
    BY <1>2 DEF EdgeInv, Planned, AtPacket, PressesNow, Flags, Values,
        Numbers, Names, NoFrame, Final, StopRequested, Rejected, Top,
        Focused, GateLosesFocus, Go, Fail
  <2>8. ProbeInv'
    BY <1>2 DEF ProbeInv, EdgeInv, Planned, Sure, AtPacket, PressesNow,
        Flags, Values, Numbers, Names, NoFrame, Final, StopRequested,
        Rejected, Top, Focused, GateLosesFocus, Go, Fail
  <2>9. EndInv'
    BY <1>2 DEF EndInv, KeysInv, KeysAreTracked, AtPacket, Flags, Values,
        Names, Final, StopRequested, Rejected, Top, Focused,
        GateLosesFocus, Go, Fail
  <2>. QED
    BY <2>1, <2>2, <2>3, <2>4, <2>5, <2>6, <2>7, <2>8, <2>9 DEF Values
<1>. QED BY <1>1, <1>2

(* The transaction. *)
LEMMA SendKeeps ==
  ASSUME WInv,
         Send \/ SendTooLate \/ Recover
  PROVE  WInv'
<1>. USE DEF WInv, Types, World, Clock, Ledger, Input, End
<1>1. CASE Send
  <2>1. frame' \in Frames'
    <3>1. frame' \in {frame, NoFrame}
      BY <1>1, Zenon DEF Send, KeysAfter, CommitRefused, Fail, Top
    <3>2. target' = target
      BY <1>1 DEF Send
    <3>. QED BY <3>1, <3>2, NoFrameFits, SameFrames
  <2>2. Flags'
    BY <1>1 DEF Flags, Send, KeysAfter, CommitRefused, Fail, Top
  <2>3. Numbers'
    <3>1. /\ fore' = fore /\ target' = target
          /\ signals' = signals /\ events' = events
          /\ verified' \in {verified, 0}
      BY <1>1 DEF Send, KeysAfter, CommitRefused, Fail, Top
    <3>2. AtPacket
      BY <1>1 DEF Send, EdgeInv, Planned
    <3>3. cursor' = cursor \/ cursor' = cursor + 1
      BY <1>1 DEF Send, KeysAfter, CommitRefused, Fail, Top
    <3>. QED BY <3>1, <3>2, <3>3, NumbersKept DEF Values
  <2>4. Names'
    BY <1>1 DEF Flags, Values, Names, Labels, Errors, Send, KeysAfter,
        CommitRefused, Fail, Top
  <2>5. KeysInv'
    BY <1>1 DEF KeysInv, KeysAreTracked, LedgerMatchesKeys,
        FinishedIsComplete, EndInv, Stopping, AtPacket, PressesNow, Flags,
        Send, KeysAfter, CommitRefused, Fail, Top
  <2>6. WakeInv'
    BY <1>1 DEF WakeInv, EdgeInv, Reading, Woken, Flags, Values, Numbers,
        Names, NoFrame, Send, KeysAfter, CommitRefused, Fail, Top
  <2>7. EdgeInv'
    BY <1>1 DEF EdgeInv, Planned, AtPacket, PressesNow, Flags, Values,
        Numbers, Names, NoFrame, Send, KeysAfter, CommitRefused, Fail, Top
  <2>8. ProbeInv'
    BY <1>1 DEF ProbeInv, EdgeInv, Planned, Sure, AtPacket, PressesNow,
        Flags, Values, Numbers, Names, NoFrame, Send, KeysAfter,
        CommitRefused, Fail, Top
  <2>9. EndInv'
    BY <1>1 DEF EndInv, KeysInv, KeysAreTracked, AtPacket, Flags, Values,
        Names, Send, KeysAfter, CommitRefused, Fail, Top
  <2>. QED
    BY <2>1, <2>2, <2>3, <2>4, <2>5, <2>6, <2>7, <2>8, <2>9 DEF Values
<1>2. CASE SendTooLate
  <2>1. frame' \in Frames'
    <3>1. frame' \in {frame, NoFrame}
      BY <1>2, Zenon DEF SendTooLate, Go, Fail
    <3>2. target' = target
      BY <1>2 DEF SendTooLate
    <3>. QED BY <3>1, <3>2, NoFrameFits, SameFrames
  <2>2. Flags'
    <3>1. UNCHANGED <<wantPause, hint, lease, user, interrupt, started, live,
                       missed, cancelled, keys, tracked, probed>>
      BY <1>2 DEF SendTooLate, Go, Fail
    <3>2. full' \in BOOLEAN
      BY <1>2 DEF Flags, SendTooLate, Go, Fail
    <3>. QED BY <3>1, <3>2 DEF Flags
  <2>3. Numbers'
    <3>1. /\ fore' = fore /\ target' = target
          /\ signals' = signals /\ events' = events
          /\ verified' \in {verified, 0}
      BY <1>2 DEF SendTooLate, Go, Fail
    <3>2. AtPacket
      BY <1>2 DEF SendTooLate, EdgeInv, Planned
    <3>3. cursor' = cursor \/ cursor' = cursor + 1
      BY <1>2 DEF SendTooLate, Go, Fail
    <3>. QED BY <3>1, <3>2, <3>3, NumbersKept DEF Values
  <2>4. Names'
    BY <1>2 DEF Flags, Values, Names, Labels, Errors, SendTooLate, Go, Fail
  <2>5. KeysInv'
    BY <1>2 DEF KeysInv, KeysAreTracked, LedgerMatchesKeys,
        FinishedIsComplete, EndInv, Stopping, AtPacket, PressesNow, Flags,
        SendTooLate, Go, Fail
  <2>6. WakeInv'
    BY <1>2 DEF WakeInv, EdgeInv, Reading, Woken, Flags, Values, Numbers,
        Names, NoFrame, SendTooLate, Go, Fail
  <2>7. EdgeInv'
    BY <1>2 DEF EdgeInv, Planned, AtPacket, PressesNow, Flags, Values,
        Numbers, Names, NoFrame, SendTooLate, Go, Fail
  <2>8. ProbeInv'
    BY <1>2 DEF ProbeInv, EdgeInv, Planned, Sure, AtPacket, PressesNow,
        Flags, Values, Numbers, Names, NoFrame, SendTooLate, Go, Fail
  <2>9. EndInv'
    BY <1>2 DEF EndInv, KeysInv, KeysAreTracked, AtPacket, Flags, Values,
        Names, SendTooLate, Go, Fail
  <2>. QED
    BY <2>1, <2>2, <2>3, <2>4, <2>5, <2>6, <2>7, <2>8, <2>9 DEF Values
<1>3. CASE Recover
  <2>1. frame' \in Frames'
    <3>1. frame' \in {frame, NoFrame}
      BY <1>3, Zenon DEF Recover, CommitRefused, Fail, Top
    <3>2. target' = target
      BY <1>3 DEF Recover
    <3>. QED BY <3>1, <3>2, NoFrameFits, SameFrames
  <2>2. Flags'
    BY <1>3 DEF Flags, Recover, CommitRefused, Fail, Top
  <2>3. Numbers'
    <3>1. /\ fore' = fore /\ target' = target
          /\ signals' = signals /\ events' = events
          /\ verified' \in {verified, 0}
      BY <1>3 DEF Recover, CommitRefused, Fail, Top
    <3>2. AtPacket
      BY <1>3 DEF Recover, EdgeInv, Planned
    <3>3. cursor' = cursor \/ cursor' = cursor + 1
      BY <1>3 DEF Recover, CommitRefused, Fail, Top
    <3>. QED BY <3>1, <3>2, <3>3, NumbersKept DEF Values
  <2>4. Names'
    BY <1>3 DEF Flags, Values, Names, Labels, Errors, Recover,
        CommitRefused, Fail, Top
  <2>5. KeysInv'
    BY <1>3 DEF KeysInv, KeysAreTracked, LedgerMatchesKeys,
        FinishedIsComplete, EndInv, Stopping, AtPacket, PressesNow, Flags,
        Recover, CommitRefused, Fail, Top
  <2>6. WakeInv'
    BY <1>3 DEF WakeInv, EdgeInv, Reading, Woken, Flags, Values, Numbers,
        Names, NoFrame, Recover, CommitRefused, Fail, Top
  <2>7. EdgeInv'
    BY <1>3 DEF EdgeInv, Planned, AtPacket, PressesNow, Flags, Values,
        Numbers, Names, NoFrame, Recover, CommitRefused, Fail, Top
  <2>8. ProbeInv'
    BY <1>3 DEF ProbeInv, EdgeInv, Planned, Sure, AtPacket, PressesNow,
        Flags, Values, Numbers, Names, NoFrame, Recover, CommitRefused,
        Fail, Top
  <2>9. EndInv'
    BY <1>3 DEF EndInv, KeysInv, KeysAreTracked, AtPacket, Flags, Values,
        Names, Recover, CommitRefused, Fail, Top
  <2>. QED
    BY <2>1, <2>2, <2>3, <2>4, <2>5, <2>6, <2>7, <2>8, <2>9 DEF Values
<1>. QED BY <1>1, <1>2, <1>3

(* The clean-up. *)
LEMMA EndKeeps ==
  ASSUME WInv,
         FinalRelease \/ Verdict \/ Publish
  PROVE  WInv'
<1>. USE DEF WInv, Types, World, Clock, Ledger, Input, End
<1>1. CASE FinalRelease
  <2>1. frame' \in Frames /\ Frames' = Frames
    BY <1>1, FrameEdits, Zenon DEF Frames, FinalRelease, Go
  <2>2. Flags'
    <3>1. UNCHANGED <<wantPause, hint, lease, user, interrupt, started, live,
                       missed, cancelled, full, probed>>
      BY <1>1 DEF FinalRelease, NothingToRelease, Release,
          ReleaseVerified, Blame, Go
    <3>2. keys' \in BOOLEAN /\ tracked' \in BOOLEAN
      BY <1>1 DEF Flags, FinalRelease, NothingToRelease, Release,
          ReleaseVerified, Blame, Go
    <3>. QED BY <3>1, <3>2 DEF Flags
  <2>3. Numbers'
    BY <1>1, WorkerAssumption, LenSong DEF Flags, Values, Numbers,
        AtPacket, PressesNow, FinalRelease, NothingToRelease, Release,
        ReleaseVerified, Blame, Go
  <2>4. Names'
    BY <1>1 DEF Flags, Values, Names, Labels, Errors, FinalRelease,
        NothingToRelease, Release, ReleaseVerified, Blame, Go
  <2>5. KeysInv'
    BY <1>1 DEF KeysInv, KeysAreTracked, LedgerMatchesKeys,
        FinishedIsComplete, EndInv, Stopping, AtPacket, PressesNow, Flags,
        FinalRelease, NothingToRelease, Release, ReleaseVerified, Blame, Go
  <2>6. WakeInv'
    BY <1>1 DEF WakeInv, EdgeInv, Reading, Woken, Flags, Values, Numbers,
        Names, NoFrame, FinalRelease, NothingToRelease, Release,
        ReleaseVerified, Blame, Go
  <2>7. EdgeInv'
    BY <1>1 DEF EdgeInv, Planned, AtPacket, PressesNow, Flags, Values,
        Numbers, Names, NoFrame, FinalRelease, NothingToRelease, Release,
        ReleaseVerified, Blame, Go
  <2>8. ProbeInv'
    BY <1>1 DEF ProbeInv, EdgeInv, Planned, Sure, AtPacket, PressesNow,
        Flags, Values, Numbers, Names, NoFrame, FinalRelease,
        NothingToRelease, Release, ReleaseVerified, Blame, Go
  <2>9. EndInv'
    BY <1>1 DEF EndInv, KeysInv, KeysAreTracked, AtPacket, Flags, Values,
        Names, FinalRelease, NothingToRelease, Release, ReleaseVerified,
        Blame, Go
  <2>. QED
    BY <2>1, <2>2, <2>3, <2>4, <2>5, <2>6, <2>7, <2>8, <2>9 DEF Values
<1>2. CASE Verdict
  <2>1. frame' \in Frames /\ Frames' = Frames
    BY <1>2, FrameEdits, Zenon DEF Frames, Verdict, Go
  <2>2. Flags'
    BY <1>2 DEF Flags, Verdict, CleanCompletion, Blame, Go
  <2>3. Numbers'
    BY <1>2, WorkerAssumption, LenSong DEF Flags, Values, Numbers,
        AtPacket, PressesNow, Verdict, CleanCompletion, Blame, Go
  <2>4. Names'
    BY <1>2 DEF Flags, Values, Names, Labels, Errors, Verdict,
        CleanCompletion, Blame, Go
  <2>5. KeysInv'
    BY <1>2 DEF KeysInv, KeysAreTracked, LedgerMatchesKeys,
        FinishedIsComplete, EndInv, Stopping, AtPacket, PressesNow, Flags,
        Verdict, CleanCompletion, Blame, Go
  <2>6. WakeInv'
    BY <1>2 DEF WakeInv, EdgeInv, Reading, Woken, Flags, Values, Numbers,
        Names, NoFrame, Verdict, CleanCompletion, Blame, Go
  <2>7. EdgeInv'
    BY <1>2 DEF EdgeInv, Planned, AtPacket, PressesNow, Flags, Values,
        Numbers, Names, NoFrame, Verdict, CleanCompletion, Blame, Go
  <2>8. ProbeInv'
    BY <1>2 DEF ProbeInv, EdgeInv, Planned, Sure, AtPacket, PressesNow,
        Flags, Values, Numbers, Names, NoFrame, Verdict, CleanCompletion,
        Blame, Go
  <2>9. EndInv'
    BY <1>2 DEF EndInv, KeysInv, KeysAreTracked, AtPacket, Flags, Values,
        Names, Verdict, CleanCompletion, Blame, Go
  <2>. QED
    BY <2>1, <2>2, <2>3, <2>4, <2>5, <2>6, <2>7, <2>8, <2>9 DEF Values
<1>3. CASE Publish
  <2>1. frame' \in Frames /\ Frames' = Frames
    BY <1>3, FrameEdits, Zenon DEF Frames, Publish, Go
  <2>2. Flags'
    BY <1>3 DEF Flags, Publish, Go
  <2>3. Numbers'
    BY <1>3, WorkerAssumption, LenSong DEF Flags, Values, Numbers,
        AtPacket, PressesNow, Publish, Go
  <2>4. Names'
    BY <1>3 DEF Flags, Values, Names, Labels, Errors, Publish, Go
  <2>5. KeysInv'
    BY <1>3 DEF KeysInv, KeysAreTracked, LedgerMatchesKeys,
        FinishedIsComplete, EndInv, Stopping, AtPacket, PressesNow, Flags,
        Publish, Go
  <2>6. WakeInv'
    BY <1>3 DEF WakeInv, EdgeInv, Reading, Woken, Flags, Values, Numbers,
        Names, NoFrame, Publish, Go
  <2>7. EdgeInv'
    BY <1>3 DEF EdgeInv, Planned, AtPacket, PressesNow, Flags, Values,
        Numbers, Names, NoFrame, Publish, Go
  <2>8. ProbeInv'
    BY <1>3 DEF ProbeInv, EdgeInv, Planned, Sure, AtPacket, PressesNow,
        Flags, Values, Numbers, Names, NoFrame, Publish, Go
  <2>9. EndInv'
    BY <1>3 DEF EndInv, KeysInv, KeysAreTracked, AtPacket, Flags, Values,
        Names, Publish, Go
  <2>. QED
    BY <2>1, <2>2, <2>3, <2>4, <2>5, <2>6, <2>7, <2>8, <2>9 DEF Values
<1>. QED BY <1>1, <1>2, <1>3

-----------------------------------------------------------------------------
LEMMA InitInvariant == Init => WInv
<1>. SUFFICES ASSUME Init PROVE WInv
  OBVIOUS
<1>1. Flags
  BY DEF Init, Flags
<1>2. frame \in Frames
  <2>1. 0 \in 0..target
    BY DEF Init
  <2>. QED BY <2>1, Zenon DEF Init, Frames, NoFrame
<1>3. Values
  BY WorkerAssumption, LenSong DEF Init, Values, Numbers, Names, Labels, Errors
<1>4. KeysInv /\ WakeInv /\ EdgeInv
  BY WorkerAssumption
     DEF Init, KeysInv, KeysAreTracked, LedgerMatchesKeys, FinishedIsComplete,
         WakeInv, EdgeInv, Reading, Planned, Stopping
<1>5. ProbeInv /\ EndInv
  BY DEF Init, ProbeInv, EndInv, Sure, Planned
<1>. QED BY <1>1, <1>2, <1>3, <1>4, <1>5 DEF WInv, Types

LEMMA StutterKeeps ==
  ASSUME WInv, UNCHANGED vars
  PROVE  WInv'
BY DEF WInv, Types, Flags, Frames, Values, Numbers, Names, KeysInv, KeysAreTracked,
       LedgerMatchesKeys, FinishedIsComplete, WakeInv, EdgeInv, ProbeInv,
       EndInv, Stopping, Woken, AtPacket, PressesNow, vars, World, Clock,
       Ledger, Input, End

LEMMA StepKeeps ==
  ASSUME WInv, [Next]_vars
  PROVE  WInv'
<1>1. CASE Outside \/ Signal \/ GraceElapses
  BY <1>1, OutsideKeeps DEF Outside
<1>2. CASE Worker
  BY <1>2, LeavingKeeps, ReadingKeeps, FocusKeeps, ManualKeeps, SuspendKeeps,
     WaitKeeps, GateKeeps, SendKeeps, EndKeeps DEF Worker
<1>3. CASE QpcFails
  BY <1>3, LeavingKeeps
<1>4. CASE Over \/ UNCHANGED vars
  BY <1>4, StutterKeeps DEF Over
<1>. QED BY <1>1, <1>2, <1>3, <1>4 DEF Next

LEMMA Invariance == Spec => []WInv
<1>. QED BY InitInvariant, StepKeeps, PTL DEF Spec

(***************************************************************************)
(* The variables of the worker keep their types; in particular the signals *)
(* that are still to come never outnumber the events (control.rs).         *)
(***************************************************************************)
THEOREM TypeCorrect == Spec => []TypeOK
<1>1. WInv => TypeOK
  BY TypesAreTypeOK DEF WInv
<1>. QED BY <1>1, Invariance, PTL

(***************************************************************************)
(* The masks cover every key that is down, the ledger knows it while the   *)
(* loop runs, a session without an error has lifted it, a finished one has *)
(* left no press over, and no wait sleeps through a command, for every     *)
(* song (dispatch_loop.rs, wait.rs, cleanup.rs).                           *)
(***************************************************************************)
THEOREM NothingForgotten == Spec => []NothingIsForgotten
<1>1. WInv => KeysAreTracked /\ LedgerMatchesKeys /\ FinishedIsComplete
  BY DEF WInv, KeysInv
<1>2. WInv => StoppedMeansReleased
  BY DEF WInv, EndInv, StoppedMeansReleased
<1>3. WInv => NoLostWakeup
  <2>. SUFFICES ASSUME WInv, pc = "wait", requests # {} \/ wantPause \/ ~ hint
                PROVE  interrupt \/ signals > 0
    BY DEF NoLostWakeup
  <2>1. frame.hint /\ ~ frame.pause
    BY DEF WInv, EdgeInv
  <2>. QED BY <2>1 DEF WInv, WakeInv, Reading, Woken
<1>4. WInv => NothingIsForgotten
  BY <1>1, <1>2, <1>3 DEF NothingIsForgotten
<1>. QED BY <1>4, Invariance, PTL

(***************************************************************************)
(* No key is pressed while a pause reason stands, nor on a preflight from  *)
(* before the last pause, whatever windows, fingers and commands did while *)
(* the packet was planned, waited for and admitted (physical.rs).          *)
(***************************************************************************)
THEOREM PressesAreProbed == Spec => PressIsProbed
<1>1. WInv /\ Presses => reasons = {} /\ probed
  BY DEF WInv, EdgeInv, ProbeInv, Presses, Planned
<1>2. WInv /\ [Next]_vars => [Presses => reasons = {} /\ probed]_vars
  BY <1>1
<1>. QED BY <1>2, Invariance, PTL DEF Spec, PressIsProbed
=============================================================================
