------------------------- MODULE CalibrationSession -------------------------
(***************************************************************************)
(* One calibration session of sky_dispatch_win32/src/calibration.rs: the   *)
(* calling thread that sends packets, and the window pump thread that      *)
(* shares SharedCalibState with it under one mutex and condition variable. *)
(*                                                                         *)
(* A session is opened in one of two modes.  With the Raw Input observer   *)
(* every packet carries a sequence tag, the pump turns the WM_INPUT        *)
(* messages into receipts of the active packet, and the session ends by a  *)
(* seal that the pump performs.  Without it (the sender mode that produces *)
(* the published calibration) the pump only owns the window.               *)
(*                                                                         *)
(* A message is an input [tag, key]; tag 0 stands for every input whose    *)
(* extra information is not a calibration tag.  Timestamps, diagnostics    *)
(* and statistics are left out; a deadline may pass at any moment.         *)
(***************************************************************************)
EXTENDS Integers, Sequences, FiniteSets, SequencesExt

CONSTANTS Chord,       \* the scan codes of every packet, in insertion order
          MaxPackets,  \* bound: packets of one session
          MaxStrays    \* bound: inputs that are not the session's own

ASSUME SessionAssumption ==
  /\ Chord \in Seq(STRING) /\ Len(Chord) > 0 /\ IsInjective(Chord)
  /\ MaxPackets \in Nat /\ MaxStrays \in Nat

VARIABLES
  raw,         \* raw_input_enabled
  st,          \* SharedCalibState
  posted,      \* messages posted to the pump thread
  input,       \* WM_INPUT messages in its queue
  flying,      \* inputs the system has not queued yet
  quitting,    \* WM_QUIT is pending
  registered,  \* Raw Input is registered for the calibration window
  pump,        \* where the pump thread is, and the input it is matching
  at,          \* where the calling thread is
  goal,        \* what the calling thread does once the barrier is through
  sequence,    \* next_sequence
  barrier,     \* next_barrier_generation
  mask,        \* possibly_active_mask
  down,        \* the instrument keys that really are down
  cleanup,     \* CleanupOutcome of the close
  result,      \* what the close returned
  strays,      \* strays so far
  samples,     \* ghost: the accepted samples
  sent,        \* ghost: the inputs of all packets handed to SendInput
  queued,      \* ghost: the inputs that have reached the queue of the pump
  alien,       \* ghost: one of them was not the session's own
  refused      \* ghost: every attempt of the clean-up was refused

callerVars == <<at, goal, sequence, barrier, mask, down, cleanup, result,
                samples, sent, refused>>
pumpVars   == <<input, quitting, registered, pump>>
sessionVars == <<raw, st, posted, flying, strays, queued, alien, callerVars,
                 pumpVars>>

KeySet == ToSet(Chord)
NoSequence == 0                        \* active_sequence is None
Nothing == [tag |-> 0, key |-> ""]

(* The packets of a pair are a Down and an Up; the sender mode starts with *)
(* the All-Up packet of sender_preflight, which MaxPackets does not count. *)
LastPacket == IF raw THEN MaxPackets ELSE MaxPackets + 1

KeyUp(n) == IF raw THEN n % 2 = 0 ELSE n % 2 = 1

-----------------------------------------------------------------------------
(* Operations on the shared state, each under one lock acquisition.        *)

LoseBoundary(s) == [s EXCEPT !.active = NoSequence, !.lost = TRUE]

CanArm(s) == s.active = NoSequence /\ ~s.lost

SealFails(s) == LoseBoundary([s EXCEPT !.life = "Failed"])

IntegrityFailure(s) == LoseBoundary([s EXCEPT !.failure = TRUE])

Closable(s) == ~s.failure /\ ~s.lost /\ s.active = NoSequence /\ s.pending = {}

CanSeal(s) == /\ s.life = "Active" /\ Closable(s)
              /\ ~s.pumpFailed /\ ~s.closed /\ ~s.exit

(* check_publishable_close_boundary, before and after the pump has stopped *)
BoundaryBefore(s) == Closable(s) /\ ~s.pumpFailed /\ ~s.closed /\ ~s.exit
BoundaryAfter(s)  == Closable(s) /\ ~s.pumpFailed /\ s.life = "Sealed"

(* observe_incompatible_receipt: another key, or one that is here already. *)
Incompatible(s, i) == i.key \notin KeySet \/ i \in s.pending

(* mutant: the tag of the receipt is not compared with the active packet. *)
BugMatched(s, i) ==
  IF s.active = NoSequence \/ Incompatible(s, i)
    THEN LoseBoundary(s)
    ELSE [s EXCEPT !.pending = @ \cup {i}]

Matched(s, i) ==
  IF s.active = NoSequence \/ i.tag # s.active \/ Incompatible(s, i)
    THEN LoseBoundary(s)
    ELSE [s EXCEPT !.pending = @ \cup {i}]

Received(s, n) == \A k \in KeySet : [tag |-> n, key |-> k] \in s.pending

(* pump_thread has set the window up, registered it for Raw Input if the   *)
(* session observes, and published it; a set-up that fails opens nothing.  *)
PumpReady ==
  /\ posted = <<>> /\ input = <<>> /\ flying = <<>>
  /\ quitting = FALSE /\ registered = raw
  /\ pump = [at |-> "loop", holds |-> Nothing]

SessionInit ==
  /\ raw \in BOOLEAN
  /\ st = [active |-> NoSequence, pending |-> {}, barrier |-> 0, lost |-> FALSE,
           failure |-> FALSE, life |-> "Active", exit |-> FALSE,
           closed |-> FALSE, unfocused |-> FALSE, pumpFailed |-> FALSE,
           restoreFailed |-> FALSE]
  /\ PumpReady
  /\ at = "idle" /\ goal = "measure"
  /\ sequence = 1 /\ barrier = 0 /\ mask = {} /\ down = {}
  /\ cleanup = [success |-> FALSE, conclusive |-> FALSE]
  /\ result = "none"
  /\ strays = 0 /\ samples = {} /\ sent = {} /\ queued = {} /\ alien = FALSE
  /\ refused = FALSE

-----------------------------------------------------------------------------
(* The pump thread.                                                        *)

(* drain_pending_wm_input: every queued WM_INPUT is stale while no packet  *)
(* is active; a pending WM_QUIT is put back and ends the drain.            *)
DrainIsClean == st.active = NoSequence /\ ~quitting /\ input = <<>>

Drained ==
  IF st.active # NoSequence THEN [st EXCEPT !.pumpFailed = TRUE]
  ELSE IF quitting THEN [st EXCEPT !.closed = TRUE, !.exit = TRUE]
  ELSE IF input # <<>> THEN LoseBoundary(st)
  ELSE st

DrainQueue == input' = IF st.active = NoSequence /\ ~quitting THEN <<>> ELSE input

Next1 == Head(posted)

TakesMessage(kind) ==
  /\ pump.at = "loop" /\ posted # <<>> /\ Next1.kind = kind
  /\ posted' = Tail(posted)
  /\ UNCHANGED <<raw, flying, strays, queued, alien, callerVars>>

PumpBarrier ==
  /\ TakesMessage("barrier")
  /\ st' = IF DrainIsClean
             THEN [st EXCEPT !.barrier = IF @ > Next1.generation
                                           THEN @ ELSE Next1.generation]
             ELSE Drained
  /\ DrainQueue
  /\ UNCHANGED <<quitting, registered, pump>>

PumpClose ==
  /\ TakesMessage("close")
  /\ LET s == [st EXCEPT !.closed = TRUE, !.exit = TRUE]
     IN st' = IF st.exit THEN s ELSE LoseBoundary(s)
  /\ quitting' = TRUE
  /\ UNCHANGED <<input, registered, pump>>

PumpExit ==
  /\ TakesMessage("exit")
  /\ st' = [st EXCEPT !.exit = TRUE]
  /\ quitting' = TRUE
  /\ UNCHANGED <<input, registered, pump>>

(* WM_CALIB_SEAL: begin, drain, restore the registration, drain, decide.   *)
PumpSeal ==
  /\ TakesMessage("seal")
  /\ st' = IF CanSeal(st) THEN [st EXCEPT !.life = "Sealing"] ELSE SealFails(st)
  /\ pump' = [pump EXCEPT !.at = IF CanSeal(st) THEN "drain" ELSE "refuse"]
  /\ UNCHANGED <<input, quitting, registered>>

PumpStep == UNCHANGED <<raw, posted, flying, strays, queued, alien, callerVars>>

SealDrain(from, to) ==
  /\ pump.at = from
  /\ st' = Drained
  /\ DrainQueue
  /\ pump' = [pump EXCEPT !.at = IF DrainIsClean THEN to ELSE "refuse"]
  /\ PumpStep /\ UNCHANGED <<quitting, registered>>

SealDrainFirst == SealDrain("drain", "restore")
SealDrainLast  == SealDrain("redrain", "decide")

SealRestore ==
  /\ pump.at = "restore"
  /\ \/ /\ registered' = FALSE
        /\ pump' = [pump EXCEPT !.at = "redrain"]
        /\ UNCHANGED st
     \/ /\ registered' \in BOOLEAN
        /\ st' = SealFails([st EXCEPT !.restoreFailed = TRUE])
        /\ pump' = [pump EXCEPT !.at = "refuse"]
  /\ PumpStep /\ UNCHANGED <<input, quitting>>

SealDecide ==
  /\ pump.at \in {"decide", "refuse"}
  /\ LET sealed == /\ pump.at = "decide" /\ st.life = "Sealing" /\ Closable(st)
                   /\ ~st.restoreFailed /\ ~st.pumpFailed
         s == IF sealed THEN [st EXCEPT !.life = "Sealed"] ELSE SealFails(st)
     IN st' = [s EXCEPT !.exit = TRUE]
  /\ quitting' = TRUE
  /\ pump' = [pump EXCEPT !.at = "loop"]
  /\ PumpStep /\ UNCHANGED <<input, registered>>

(* WM_INPUT, first lock: nothing is admitted once the seal has begun; an   *)
(* input that cannot be read or has no tag is an integrity failure.        *)
PumpInput ==
  /\ pump.at = "loop" /\ posted = <<>> /\ input # <<>>
  /\ input' = Tail(input)
  /\ \/ /\ st.life # "Active"
        /\ st' = LoseBoundary(st)
        /\ UNCHANGED pump
     \/ /\ st.life = "Active"
        /\ st' = IntegrityFailure(st)
        /\ UNCHANGED pump
     \/ /\ st.life = "Active" /\ Head(input).tag # 0
        /\ pump' = [at |-> "match", holds |-> Head(input)]
        /\ UNCHANGED st
  /\ PumpStep /\ UNCHANGED <<quitting, registered>>

(* WM_INPUT, last lock: the receipt is checked against the active packet.  *)
PumpMatch ==
  /\ pump.at = "match"
  /\ st' = Matched(st, pump.holds)
  /\ pump' = [at |-> "loop", holds |-> Nothing]
  /\ PumpStep /\ UNCHANGED <<input, quitting, registered>>

(* GetMessageW returns 0 for a pending WM_QUIT ...                         *)
PumpLeaves ==
  /\ pump.at = "loop" /\ quitting /\ posted = <<>>
  /\ pump' = [pump EXCEPT !.at = "leaving"]
  /\ PumpStep /\ UNCHANGED <<st, input, quitting, registered>>

(* ... and may fail at any time.                                           *)
PumpBreaks ==
  /\ pump.at = "loop"
  /\ st' = IntegrityFailure([st EXCEPT !.pumpFailed = TRUE])
  /\ pump' = [pump EXCEPT !.at = "leaving"]
  /\ PumpStep /\ UNCHANGED <<input, quitting, registered>>

(* The exit restores the registration unless the seal has done so.         *)
PumpRestores ==
  /\ pump.at = "leaving"
  /\ pump' = [pump EXCEPT !.at = "gone"]
  /\ IF ~raw \/ st.life = "Sealed"
       THEN UNCHANGED <<st, registered>>
       ELSE \/ registered' = FALSE /\ UNCHANGED st
            \/ /\ registered' \in BOOLEAN
               /\ st' = [st EXCEPT !.restoreFailed = TRUE]
  /\ PumpStep /\ UNCHANGED <<input, quitting>>

Pump == \/ PumpBarrier \/ PumpClose \/ PumpExit \/ PumpSeal
        \/ SealDrainFirst \/ SealRestore \/ SealDrainLast \/ SealDecide
        \/ PumpInput \/ PumpMatch \/ PumpLeaves \/ PumpRestores

-----------------------------------------------------------------------------
(* The calling thread.                                                     *)

Caller == UNCHANGED <<raw, strays, queued, alien, pumpVars>>

Fails == at' = "failing"

Post(message) == posted' = Append(posted, message)

(* What the clean-up and a packet do not touch.                            *)
NoPacket == UNCHANGED <<flying, mask, down, samples, sent>>

(* ensure_foreground_owned                                                 *)
Foreground ==
  /\ at = "idle" /\ sequence <= LastPacket
  /\ goal' = "measure"
  /\ \/ /\ st.closed \/ st.exit \/ st.unfocused
        /\ Fails /\ UNCHANGED st
     \/ /\ ~st.closed /\ ~st.exit /\ ~st.unfocused
        /\ \/ at' = (IF raw THEN "post" ELSE "precise") /\ UNCHANGED st
           \/ Fails /\ st' = [st EXCEPT !.unfocused = TRUE]
  /\ Caller /\ NoPacket
  /\ UNCHANGED <<posted, sequence, barrier, cleanup, result, refused>>

(* Between two pairs the caller has what it wanted: close_publishable, or  *)
(* close_sender.                                                           *)
Finishes ==
  /\ at = "idle" /\ sequence > 1 /\ ~KeyUp(sequence)
  /\ goal' = "close"
  /\ at' = IF raw THEN "post" ELSE "clean"
  /\ Caller /\ NoPacket
  /\ UNCHANGED <<st, posted, sequence, barrier, cleanup, result, refused>>

(* drain_pump_before_arm: the barrier is posted and awaited for 100 ms.    *)
PostBarrier ==
  /\ at = "post"
  /\ IF CanArm(st)
       THEN /\ barrier' = barrier + 1
            /\ IF pump.at = "gone"
                 THEN Fails /\ UNCHANGED posted
                 ELSE /\ Post([kind |-> "barrier", generation |-> barrier + 1])
                      /\ at' = "barrier"
       ELSE Fails /\ UNCHANGED <<posted, barrier>>
  /\ Caller /\ NoPacket
  /\ UNCHANGED <<st, goal, sequence, cleanup, result, refused>>

AwaitBarrier ==
  /\ at = "barrier"
  /\ at' = IF st.lost \/ st.pumpFailed \/ st.closed \/ st.barrier < barrier
             THEN "failing"
             ELSE IF goal = "close" THEN "boundary" ELSE "arm"
  /\ Caller /\ NoPacket
  /\ UNCHANGED <<st, posted, goal, sequence, barrier, cleanup, result, refused>>

(* arm_packet_state: the check and the arming share one lock acquisition.  *)
Arm ==
  /\ at = "arm"
  /\ IF st.failure \/ ~CanArm(st)
       THEN Fails /\ UNCHANGED <<st, sequence>>
     ELSE IF st.pending # {}
       THEN Fails /\ st' = LoseBoundary(st) /\ UNCHANGED sequence
     ELSE /\ st' = [st EXCEPT !.active = sequence, !.pending = {}]
          /\ sequence' = sequence + 1
          /\ at' = "precise"
  /\ Caller /\ NoPacket
  /\ UNCHANGED <<posted, goal, barrier, cleanup, result, refused>>

(* wait_to_precision_boundary, and the last check of the abort flag.  The  *)
(* wait may also fail, or the budget be spent, with the packet armed.      *)
Precise ==
  /\ at = "precise"
  /\ \/ Fails
     \/ ~st.lost /\ at' = "send"
  /\ Caller /\ NoPacket
  /\ UNCHANGED <<st, posted, goal, sequence, barrier, cleanup, result, refused>>

Packet == IF raw THEN sequence - 1 ELSE sequence

(* SendInput with the observer: a partial or untimed call loses the        *)
(* boundary; the keys it did insert are remembered.                        *)
Inserted(n) == [i \in 1..n |-> [tag |-> Packet, key |-> Chord[i]]]

Presses(n) ==
  LET keys == {Chord[i] : i \in 1..n}
  IN down' = IF KeyUp(Packet) THEN down \ keys ELSE down \cup keys

SendTagged ==
  /\ at = "send" /\ raw
  /\ \E n \in 0..Len(Chord), timed \in BOOLEAN :
       LET keys == {Chord[i] : i \in 1..n}
           whole == timed /\ n = Len(Chord)
       IN /\ Presses(n)
          /\ flying' = flying \o (IF registered THEN Inserted(n) ELSE <<>>)
          /\ sent' = sent \cup [tag : {Packet}, key : KeySet]
          /\ mask' = IF timed /\ ~KeyUp(Packet) THEN mask \cup keys ELSE mask
          /\ st' = IF whole THEN st ELSE LoseBoundary(st)
          /\ IF whole THEN at' = "receipts" ELSE Fails
  /\ Caller
  /\ UNCHANGED <<posted, goal, sequence, barrier, cleanup, result, samples,
                 refused>>

(* The production sender: only a complete call advances the sequence.      *)
SendPrepared ==
  /\ at = "send" /\ ~raw
  /\ \E n \in 0..Len(Chord), timed \in BOOLEAN :
       /\ Presses(n)
       /\ IF timed /\ n = Len(Chord)
            THEN /\ mask' = IF KeyUp(Packet) THEN mask \ KeySet
                                             ELSE mask \cup KeySet
                 /\ sequence' = sequence + 1
                 /\ at' = "idle"
            ELSE Fails /\ UNCHANGED <<mask, sequence>>
  /\ Caller
  /\ UNCHANGED <<st, posted, flying, goal, barrier, cleanup, result, samples,
                 sent, refused>>

(* The receipt loop: failures come first, then the complete packet; the    *)
(* budget may end with receipts pending, the receipt timeout takes them.   *)
ReceiptsFail ==
  /\ at = "receipts"
  /\ \/ st.failure \/ st.lost \/ st.pumpFailed \/ st.closed
     \/ ~Received(st, Packet)
  /\ st' = [st EXCEPT !.active = NoSequence]
  /\ Fails
  /\ Caller /\ NoPacket
  /\ UNCHANGED <<posted, goal, sequence, barrier, cleanup, result, refused>>

ReceiptsComplete ==
  /\ at = "receipts"
  /\ ~st.failure /\ ~st.lost /\ ~st.pumpFailed /\ ~st.closed
  /\ Received(st, Packet)
  /\ samples' = samples \cup {[tag |-> Packet, receipts |-> st.pending]}
  /\ st' = [st EXCEPT !.pending = {}, !.active = NoSequence]
  /\ mask' = IF KeyUp(Packet) THEN {} ELSE mask
  /\ at' = "idle"
  /\ Caller
  /\ UNCHANGED <<posted, flying, goal, sequence, barrier, cleanup, result, down,
                 sent, refused>>

ReceiptsTimeOut ==
  /\ at = "receipts"
  /\ ~st.failure /\ ~st.lost /\ ~st.pumpFailed /\ ~st.closed
  /\ ~Received(st, Packet)
  /\ st' = [st EXCEPT !.pending = {}, !.active = NoSequence]
  /\ at' = "expired"
  /\ Caller /\ NoPacket
  /\ UNCHANGED <<posted, goal, sequence, barrier, cleanup, result, refused>>

Expired ==
  /\ at = "expired"
  /\ st' = LoseBoundary(st)
  /\ Fails
  /\ Caller /\ NoPacket
  /\ UNCHANGED <<posted, goal, sequence, barrier, cleanup, result, refused>>

-----------------------------------------------------------------------------
(* Closing.                                                                *)

CheckBoundary ==
  /\ at = "boundary"
  /\ IF BoundaryBefore(st) THEN at' = "seal" ELSE Fails
  /\ Caller /\ NoPacket
  /\ UNCHANGED <<st, posted, goal, sequence, barrier, cleanup, result, refused>>

(* seal_pump_thread: post, wait 250 ms, join without a bound.              *)
PostSeal ==
  /\ at = "seal"
  /\ IF pump.at = "gone"
       THEN Fails /\ UNCHANGED posted
       ELSE at' = "sealing" /\ Post([kind |-> "seal"])
  /\ Caller /\ NoPacket
  /\ UNCHANGED <<st, goal, sequence, barrier, cleanup, result, refused>>

AwaitSeal ==
  /\ at = "sealing"
  /\ at' = IF st.life \in {"Sealed", "Failed"} \/ st.pumpFailed \/ st.closed
             THEN IF st.life = "Sealed" THEN "join" ELSE "joinUnsealed"
             ELSE "sealLate"
  /\ Caller /\ NoPacket
  /\ UNCHANGED <<st, posted, goal, sequence, barrier, cleanup, result, refused>>

SealTimesOut ==
  /\ at = "sealLate"
  /\ st' = SealFails([st EXCEPT !.exit = TRUE])
  /\ IF pump.at = "gone" THEN UNCHANGED posted ELSE Post([kind |-> "exit"])
  /\ at' = "joinUnsealed"
  /\ Caller /\ NoPacket
  /\ UNCHANGED <<goal, sequence, barrier, cleanup, result, refused>>

Join ==
  /\ at \in {"join", "joinUnsealed"} /\ pump.at = "gone"
  /\ at' = IF at = "join" /\ ~st.failure /\ ~st.lost THEN "clean" ELSE "failing"
  /\ Caller /\ NoPacket
  /\ UNCHANGED <<st, posted, goal, sequence, barrier, cleanup, result, refused>>

(* mutant: only the keys the mask remembers are released. *)
BugCleanKeyboard ==
  /\ at \in {"clean", "failing"}
  /\ \E left \in SUBSET down, conclusive \in BOOLEAN, all \in BOOLEAN :
       /\ all => left = down \ mask
       /\ down' = left
       /\ refused' = ~all
       /\ cleanup' = [success |-> all /\ left = {} /\ conclusive,
                      conclusive |-> conclusive]
  /\ mask' = {}
  /\ flying' = IF registered THEN Append(flying, Nothing) ELSE flying
  /\ at' = IF at = "failing" THEN "stop"
           ELSE IF raw THEN "check" ELSE "stopSender"
  /\ Caller
  /\ UNCHANGED <<st, posted, goal, sequence, barrier, result, samples, sent>>

(* cleanup_keyboard: up to three All-Up calls, then the physical state is  *)
(* read.  A refused call releases some of the keys, or none.  After the    *)
(* seal nothing observes the All-Up any more.                              *)
CleanKeyboard ==
  /\ at \in {"clean", "failing"}
  /\ \E left \in SUBSET down, conclusive \in BOOLEAN, all \in BOOLEAN :
       /\ all => left = {}
       /\ down' = left
       /\ refused' = ~all
       /\ cleanup' = [success |-> all /\ left = {} /\ conclusive,
                      conclusive |-> conclusive]
  /\ mask' = {}
  /\ flying' = IF registered THEN Append(flying, Nothing) ELSE flying
  /\ at' = IF at = "failing" THEN "stop"
           ELSE IF raw THEN "check" ELSE "stopSender"
  /\ Caller
  /\ UNCHANGED <<st, posted, goal, sequence, barrier, result, samples, sent>>

(* The rest of close_publishable: the boundary is checked a last time.     *)
CheckSealed ==
  /\ at = "check"
  /\ result' = IF BoundaryAfter(st) THEN "ok" ELSE "failed"
  /\ cleanup' = [cleanup EXCEPT !.success =
                   @ /\ ~st.restoreFailed /\ ~st.pumpFailed]
  /\ at' = "closed"
  /\ Caller /\ NoPacket
  /\ UNCHANGED <<st, posted, goal, sequence, barrier, refused>>

(* stop_pump_thread: ask the pump to exit ...                              *)
StopPump ==
  /\ at \in {"stop", "stopSender"}
  /\ st' = [st EXCEPT !.exit = TRUE]
  /\ IF pump.at = "gone" THEN UNCHANGED posted ELSE Post([kind |-> "exit"])
  /\ at' = IF at = "stop" THEN "awaitStop" ELSE "awaitSender"
  /\ Caller /\ NoPacket
  /\ UNCHANGED <<goal, sequence, barrier, cleanup, result, refused>>

(* ... and join it for 250 ms; a late pump is detached and reported.       *)
PumpStopped ==
  /\ at \in {"awaitStop", "awaitSender"}
  /\ LET s == IF pump.at = "gone" THEN st ELSE [st EXCEPT !.pumpFailed = TRUE]
         clean == cleanup.success /\ ~s.restoreFailed /\ ~s.pumpFailed
     IN /\ st' = s
        /\ cleanup' = [cleanup EXCEPT !.success = clean]
        /\ result' = IF at = "awaitSender" /\ clean /\ cleanup.conclusive
                       THEN "ok" ELSE "failed"
  /\ at' = "closed"
  /\ Caller /\ NoPacket
  /\ UNCHANGED <<posted, goal, sequence, barrier, refused>>

CallerThread ==
  \/ Foreground \/ Finishes \/ PostBarrier \/ AwaitBarrier \/ Arm \/ Precise
  \/ SendTagged \/ SendPrepared
  \/ ReceiptsFail \/ ReceiptsComplete \/ ReceiptsTimeOut \/ Expired
  \/ CheckBoundary \/ PostSeal \/ AwaitSeal \/ SealTimesOut \/ Join
  \/ CleanKeyboard \/ CheckSealed \/ StopPump \/ PumpStopped

-----------------------------------------------------------------------------
(* The system: it queues inputs in order, drops them once the registration *)
(* is gone, and adds inputs of others: a key of the user, or a repeated    *)
(* copy of an input of ours.                                               *)
Deliver ==
  /\ flying # <<>>
  /\ flying' = Tail(flying)
  /\ IF registered /\ pump.at # "gone"
       THEN /\ input' = Append(input, Head(flying))
            /\ alien' = (alien \/ Head(flying).tag = 0 \/ Head(flying) \in queued)
            /\ queued' = queued \cup {Head(flying)}
       ELSE UNCHANGED <<input, alien, queued>>
  /\ UNCHANGED <<raw, st, posted, strays, callerVars, quitting, registered, pump>>

Stray ==
  /\ raw /\ strays < MaxStrays
  /\ strays' = strays + 1
  /\ \E i \in {Nothing} \cup sent : flying' = Append(flying, i)
  /\ UNCHANGED <<raw, st, posted, queued, alien, callerVars, pumpVars>>

UserCloses ==
  /\ ~st.closed /\ pump.at # "gone"
  /\ ~\E j \in 1..Len(posted) : posted[j].kind = "close"
  /\ Post([kind |-> "close"])
  /\ UNCHANGED <<raw, st, flying, strays, queued, alien, callerVars, pumpVars>>

SessionNext ==
  Pump \/ PumpBreaks \/ CallerThread \/ Deliver \/ Stray \/ UserCloses

SessionSpec == SessionInit /\ [][SessionNext]_sessionVars

-----------------------------------------------------------------------------
(* Properties.                                                             *)

SessionTypeOK ==
  /\ raw \in BOOLEAN /\ quitting \in BOOLEAN /\ registered \in BOOLEAN
  /\ st.active \in 0..MaxPackets /\ st.barrier \in 0..barrier
  /\ st.pending \in SUBSET [tag : 1..MaxPackets, key : KeySet]
  /\ st.life \in {"Active", "Sealing", "Sealed", "Failed"}
  /\ sequence \in 1..(LastPacket + 1)
  /\ mask \in SUBSET KeySet /\ down \in SUBSET KeySet

(* Every accepted sample has exactly the receipts of its own packet,       *)
(* however late, repeated or foreign the inputs are that the pump sees     *)
(* while the caller arms, sends and gives up (calibration.rs:1559-1600,    *)
(* 2060-2090, 3237-3437).                                                  *)
SamplesAreTheirPackets ==
  \A sample \in samples : sample.receipts = [tag : {sample.tag}, key : KeySet]

(* A publishable close of an observed session means that every packet sent *)
(* was received in full, that no input but theirs reached the pump before  *)
(* the registration was given back, and that it was given back.  The seal  *)
(* request overtakes queued input, its wait may end before the pump is     *)
(* done, and an input may arrive between the two drains                    *)
(* (calibration.rs:2109-2205, 3508-3577, 3634-3656).                       *)
PublishedIsComplete ==
  raw /\ result = "ok" =>
    /\ sent = UNION {sample.receipts : sample \in samples}
    /\ ~alien /\ ~registered

(* A closed session leaves no instrument key down unless every All-Up call *)
(* was refused, also when a packet was inserted in part and the mask of    *)
(* possibly active keys never learned of it (calibration.rs:3018-3036,     *)
(* 3140-3165, 3303-3340).                                                  *)
NothingStaysDown == at = "closed" /\ ~refused => down = {}

(* What the close reports as a success is one: the keys are up, the pump   *)
(* has stopped and the registration is restored.                           *)
SuccessIsReal ==
  at = "closed" /\ cleanup.success =>
    down = {} /\ pump.at = "gone" /\ ~registered

(* What a session hands out as measured and as closed was: its samples, its *)
(* publishable close and the success of its clean-up are what the keyboard *)
(* and the pump saw (calibration.rs:1559-1600, 2109-2205, 3140-3165).      *)
ResultsAreReal == SamplesAreTheirPackets /\ PublishedIsComplete /\ SuccessIsReal
=============================================================================
