------------------------- MODULE InputBackendProofs -------------------------
(***************************************************************************)
(* Proofs about InputBackend for every number of keys and of user moves,   *)
(* and, at the end, about PacketSend for every packet and policy.          *)
(*                                                                         *)
(* The ledger property needs two facts about a release in progress: a key  *)
(* the transport confirmed is not held by the engine any more, and the     *)
(* transport confirms all of an attempt or nothing, so no key leaves the   *)
(* request between two probes.                                             *)
(***************************************************************************)
EXTENDS InputBackend, PacketSend, TLAPS

ReleaseRecord ==
  [step : {"idle", "send", "probe"}, requested : SUBSET Keys,
   unresolved : SUBSET Keys, attempt : 0 .. MaxAttempts,
   confirmed : SUBSET Keys, seenUp : SUBSET Keys]

VerdictRecord ==
  [ok : BOOLEAN, requested : SUBSET Keys, stuck : SUBSET Keys,
   inconclusive : BOOLEAN, seenUp : SUBSET Keys,
   probe : {"none", "inconclusive", "held", "all_up"}]

Types ==
  /\ engineHeld \in SUBSET Keys /\ userHeld \in SUBSET Keys
  /\ active \in SUBSET Keys /\ possibly \in SUBSET Keys /\ failed \in SUBSET Keys
  /\ release \in ReleaseRecord
  /\ verdict \in VerdictRecord
  /\ userMoves \in 0 .. MaxUser

Attempts ==
  /\ release.unresolved \subseteq release.requested
  /\ release.requested \ release.unresolved \subseteq release.seenUp
  /\ release.step = "send" => release.attempt < MaxAttempts
  /\ release.step = "probe" =>
       /\ release.confirmed \in {{}, release.unresolved}
       /\ release.confirmed \cap engineHeld = {}

HeldIsTracked == engineHeld \subseteq Tracked

IInv == Types /\ Attempts /\ HeldIsTracked /\ VerifiedMeansSeenUp

-----------------------------------------------------------------------------
(* The invariant is inductive.                                             *)

LEMMA InitInvariant == Init => IInv
BY InputBackendAssumption
DEF Init, IInv, Types, ReleaseRecord, VerdictRecord, Attempts, HeldIsTracked,
    VerifiedMeansSeenUp, Idle, NoVerdict, Tracked, MaxAttempts, Keys

\* What SendInput inserted is part of the packet, whatever the prefix.
LEMMA InsertedIsPart ==
  ASSUME NEW ups \in SUBSET Keys, NEW downs \in SUBSET Keys,
         NEW inserted \in Inserted(ups, downs)
  PROVE  inserted.ups \subseteq ups /\ inserted.downs \subseteq downs
BY DEF Inserted

LEMMA PacketInvariant ==
  ASSUME IInv, NEW ups \in SUBSET Keys, NEW downs \in SUBSET Keys,
         SendPacket(ups, downs)
  PROVE  IInv' /\ Ledger!Send(ups, downs)
<1>1. PICK inserted \in Inserted(ups, downs), status \in Status :
        /\ Reports(status, inserted, ups, downs)
        /\ engineHeld' = (engineHeld \ inserted.ups) \cup inserted.downs
        /\ userHeld' = userHeld \ inserted.ups
        /\ ApplyOutcome(status, ups, downs)
  BY DEF SendPacket
<1>2. inserted.ups \subseteq ups /\ inserted.downs \subseteq downs
  BY InsertedIsPart
<1>3. /\ ups \cap downs = {} /\ release.step = "idle"
      /\ UNCHANGED <<release, verdict, userMoves>>
  BY DEF SendPacket, Prepared
<1>4. /\ active' \in SUBSET Keys /\ possibly' \in SUBSET Keys
      /\ failed' \in SUBSET Keys
  BY <1>1 DEF ApplyOutcome, IInv, Types
<1>5. CASE status = "Complete"
  <2>1. inserted = [ups |-> ups, downs |-> downs]
    BY <1>1, <1>5 DEF Reports
  <2>2. Tracked' = (Tracked \ ups) \cup downs
    BY <1>1, <1>5 DEF ApplyOutcome, Uncertain, Tracked
  <2>3. engineHeld' = (engineHeld \ ups) \cup downs
    BY <1>1, <2>1
  <2>. QED BY <1>1, <1>2, <1>3, <1>4, <2>2, <2>3
       DEF IInv, Types, Attempts, HeldIsTracked, VerifiedMeansSeenUp,
           Ledger!Send
<1>6. CASE Uncertain(status)
  <2>1. Tracked' = Tracked \cup ups \cup downs
    BY <1>1, <1>6 DEF ApplyOutcome, Uncertain, Tracked
  <2>. QED BY <1>1, <1>2, <1>3, <1>4, <2>1
       DEF IInv, Types, Attempts, HeldIsTracked, VerifiedMeansSeenUp,
           Ledger!Send
<1>7. CASE status # "Complete" /\ ~Uncertain(status)
  <2>1. inserted = [ups |-> {}, downs |-> {}]
    BY <1>1, <1>7 DEF Reports, Uncertain, Status
  <2>2. Tracked' = Tracked \cup ups
    BY <1>1, <1>7 DEF ApplyOutcome, Uncertain, Tracked
  <2>3. engineHeld' = engineHeld
    BY <1>1, <2>1
  <2>. QED BY <1>1, <1>2, <1>3, <1>4, <2>2, <2>3
       DEF IInv, Types, Attempts, HeldIsTracked, VerifiedMeansSeenUp,
           Ledger!Send
<1>. QED BY <1>5, <1>6, <1>7

LEMMA UserInvariant ==
  ASSUME IInv, NEW k \in Keys, UserPresses(k) \/ UserLifts(k)
  PROVE  IInv' /\ (UNCHANGED <<engineHeld, Tracked>> \/ Ledger!Lift)
BY InputBackendAssumption
DEF IInv, Types, Attempts, HeldIsTracked, VerifiedMeansSeenUp, UserPresses,
    UserLifts, masks, Tracked, Ledger!Lift

LEMMA BeginInvariant ==
  ASSUME IInv, NEW scope \in Scopes, BeginRelease(scope)
  PROVE  IInv' /\ UNCHANGED <<engineHeld, Tracked>>
<1>1. Requested(scope) \in SUBSET Keys
  BY DEF Requested, IInv, Types, Tracked
<1>2. Idle \in ReleaseRecord /\ NoVerdict \in VerdictRecord
  BY DEF Idle, NoVerdict, ReleaseRecord, VerdictRecord, MaxAttempts
<1>3. CASE Requested(scope) = {}
  <2>1. verdict' = NoVerdict /\ UNCHANGED <<release, keyboard, masks, userMoves>>
    BY <1>3 DEF BeginRelease
  <2>2. VerifiedMeansSeenUp'
    BY <2>1 DEF VerifiedMeansSeenUp, NoVerdict
  <2>. QED BY <1>2, <2>1, <2>2
       DEF IInv, Types, Attempts, HeldIsTracked, Tracked, keyboard, masks
<1>4. CASE Requested(scope) # {}
  <2>1. release' = [Idle EXCEPT !.step = "send",
                               !.requested = Requested(scope),
                               !.unresolved = Requested(scope)]
    BY <1>4 DEF BeginRelease
  <2>2. UNCHANGED <<verdict, keyboard, masks, userMoves>>
    BY <1>4 DEF BeginRelease
  <2>3. /\ release' \in ReleaseRecord
        /\ release'.requested = Requested(scope)
        /\ release'.unresolved = Requested(scope)
        /\ release'.step = "send" /\ release'.attempt < MaxAttempts
    <3>1. release' = [step |-> "send", requested |-> Requested(scope),
                      unresolved |-> Requested(scope), attempt |-> 0,
                      confirmed |-> {}, seenUp |-> {}]
      BY <2>1 DEF Idle
    <3>2. 0 \in 0 .. MaxAttempts /\ 0 < MaxAttempts
      BY DEF MaxAttempts
    <3>. QED BY <1>1, <3>1, <3>2 DEF ReleaseRecord
  <2>4. VerifiedMeansSeenUp'
    BY <2>2 DEF IInv, VerifiedMeansSeenUp
  <2>. QED BY <2>2, <2>3, <2>4
       DEF IInv, Types, Attempts, HeldIsTracked, Tracked, keyboard, masks
<1>. QED BY <1>3, <1>4

LEMMA SendInvariant ==
  ASSUME IInv, ReleaseSend
  PROVE  IInv' /\ Ledger!Lift
<1>1. PICK c \in 0 .. NumKeys, clockFails \in BOOLEAN :
        /\ engineHeld' = engineHeld \ Lifted(c)
        /\ userHeld' = userHeld \ Lifted(c)
        /\ release' = [release EXCEPT
             !.step = "probe",
             !.attempt = @ + 1,
             !.confirmed = IF Lifted(c) = release.unresolved /\ ~clockFails
                             THEN Lifted(c) ELSE {}]
  BY DEF ReleaseSend
<1>2. /\ release.step = "send" /\ release.attempt < MaxAttempts
      /\ release \in ReleaseRecord
      /\ UNCHANGED <<active, possibly, failed, verdict, userMoves>>
  BY DEF ReleaseSend, masks, IInv, Attempts, Types
<1>3. Lifted(c) \subseteq release.unresolved
  BY DEF Lifted
<1>4. release' \in ReleaseRecord
  <2>. DEFINE confirmed == IF Lifted(c) = release.unresolved /\ ~clockFails
                             THEN Lifted(c) ELSE {}
  <2>1. confirmed \in SUBSET Keys
    BY <1>2, <1>3 DEF ReleaseRecord
  <2>2. release.attempt + 1 \in 0 .. MaxAttempts
    BY <1>2 DEF ReleaseRecord, MaxAttempts
  <2>3. release' = [release EXCEPT !.step = "probe",
                                   !.attempt = release.attempt + 1,
                                   !.confirmed = confirmed]
    BY <1>1
  <2>. HIDE DEF confirmed
  <2>. QED BY <1>2, <2>1, <2>2, <2>3 DEF ReleaseRecord
<1>5. /\ release'.requested = release.requested
      /\ release'.unresolved = release.unresolved
      /\ release'.seenUp = release.seenUp
      /\ release'.step = "probe"
      /\ release'.confirmed \in {{}, release.unresolved}
      /\ release'.confirmed \subseteq Lifted(c)
  BY <1>1, <1>2 DEF ReleaseRecord
<1>6. engineHeld' \subseteq engineHeld /\ userHeld' \subseteq userHeld
      /\ release'.confirmed \cap engineHeld' = {}
  BY <1>1, <1>5
<1>7. Attempts'
  BY <1>5, <1>6 DEF IInv, Attempts
<1>8. VerifiedMeansSeenUp'
  BY <1>2 DEF IInv, VerifiedMeansSeenUp
<1>. QED BY <1>2, <1>4, <1>6, <1>7, <1>8
     DEF IInv, Types, HeldIsTracked, Tracked, Ledger!Lift

\* One attempt ends: the keys it resolved are not held by the engine, and
\* the keys it keeps are part of the request.
LEMMA RetryInvariant ==
  ASSUME IInv, release.step = "probe", UNCHANGED <<engineHeld, userHeld, userMoves>>,
         NEW keep \in SUBSET release.unresolved, NEW seenUp \in SUBSET Keys,
         NEW inconclusive \in BOOLEAN,
         NEW probe \in {"none", "inconclusive", "held", "all_up"},
         (release.unresolved \ keep) \cap engineHeld = {},
         release.requested \ keep \subseteq seenUp,
         RetryOrGiveUp(keep, seenUp, inconclusive, probe)
  PROVE  IInv' /\ \E gone, stuck \in SUBSET Keys : Ledger!Settle(gone, stuck)
<1>. DEFINE gone == release.unresolved \ keep
<1>1. gone \in SUBSET Keys /\ keep \in SUBSET Keys /\ release \in ReleaseRecord
  BY DEF IInv, Types, ReleaseRecord
<1>2. CASE release.attempt < MaxAttempts
  <2>1. /\ release' = [release EXCEPT !.step = "send", !.unresolved = keep,
                                      !.seenUp = seenUp, !.confirmed = {}]
        /\ Forget(gone) /\ verdict' = verdict
    BY <1>2 DEF RetryOrGiveUp
  <2>2. Tracked' = (Tracked \ gone) \cup {}
    BY <2>1 DEF Forget, Tracked
  <2>3. /\ release' \in ReleaseRecord
        /\ release'.requested = release.requested
        /\ release'.unresolved = keep /\ release'.seenUp = seenUp
        /\ release'.step = "send" /\ release'.attempt = release.attempt
    BY <1>1, <2>1 DEF ReleaseRecord
  <2>4. IInv'
    BY <1>1, <1>2, <2>1, <2>2, <2>3
    DEF IInv, Types, Attempts, HeldIsTracked, VerifiedMeansSeenUp, Forget
  <2>. QED BY <1>1, <2>2, <2>4 DEF Ledger!Settle
<1>3. CASE ~(release.attempt < MaxAttempts)
  <2>1. /\ Report(FALSE, keep, inconclusive, seenUp, probe)
        /\ active' = active \ gone
        /\ possibly' = possibly \ gone
        /\ failed' = (failed \ gone) \cup keep
    BY <1>3 DEF RetryOrGiveUp
  <2>2. Tracked' = (Tracked \ gone) \cup keep
    BY <2>1 DEF Tracked
  <2>3. release' = Idle /\ Idle \in ReleaseRecord
    BY <2>1 DEF Report, Idle, ReleaseRecord, MaxAttempts
  <2>4. verdict' \in VerdictRecord /\ ~verdict'.ok
    BY <1>1, <2>1 DEF Report, VerdictRecord, ReleaseRecord
  <2>5. IInv'
    BY <1>1, <2>1, <2>2, <2>3, <2>4
    DEF IInv, Types, Attempts, HeldIsTracked, VerifiedMeansSeenUp, Idle
  <2>. QED BY <1>1, <2>2, <2>5 DEF Ledger!Settle
<1>. QED BY <1>2, <1>3

\* An attempt that ends the release: every unresolved key is forgotten, none is
\* held by the engine.
LEMMA SettledInvariant ==
  ASSUME IInv, release.step = "probe", UNCHANGED <<engineHeld, userHeld, userMoves>>,
         release.unresolved \cap engineHeld = {},
         NEW ok \in BOOLEAN, NEW seenUp \in SUBSET Keys,
         NEW inconclusive \in BOOLEAN,
         NEW probe \in {"none", "inconclusive", "held", "all_up"},
         ok => release.requested \subseteq seenUp,
         Report(ok, {}, inconclusive, seenUp, probe), Forget(release.unresolved)
  PROVE  IInv' /\ \E gone, stuck \in SUBSET Keys : Ledger!Settle(gone, stuck)
<1>1. release \in ReleaseRecord /\ release.unresolved \in SUBSET Keys
  BY DEF IInv, Types, ReleaseRecord
<1>2. Tracked' = (Tracked \ release.unresolved) \cup {}
  BY DEF Forget, Tracked
<1>3. release' = Idle /\ Idle \in ReleaseRecord
  BY DEF Report, Idle, ReleaseRecord, MaxAttempts
<1>4. verdict' \in VerdictRecord
  BY <1>1 DEF Report, VerdictRecord, ReleaseRecord
<1>5. VerifiedMeansSeenUp'
  BY DEF Report, VerifiedMeansSeenUp
<1>6. IInv'
  BY <1>1, <1>2, <1>3, <1>4, <1>5
  DEF IInv, Types, Attempts, HeldIsTracked, Forget, Idle
<1>. QED BY <1>1, <1>2, <1>6 DEF Ledger!Settle

LEMMA ProbeInvariant ==
  ASSUME IInv, ProbeInconclusive \/ ProbeHeld \/ ProbeAllUp
  PROVE  IInv' /\ \E gone, stuck \in SUBSET Keys : Ledger!Settle(gone, stuck)
<1>1. /\ release \in ReleaseRecord /\ release.step = "probe"
      /\ UNCHANGED <<engineHeld, userHeld, userMoves>>
      /\ release.unresolved \subseteq release.requested
      /\ release.requested \ release.unresolved \subseteq release.seenUp
      /\ release.confirmed \in {{}, release.unresolved}
      /\ release.confirmed \cap engineHeld = {}
  BY DEF IInv, Types, Attempts, ProbeInconclusive, ProbeHeld, ProbeAllUp, keyboard
<1>2. /\ release.requested \in SUBSET Keys /\ release.unresolved \in SUBSET Keys
      /\ release.seenUp \in SUBSET Keys
  BY <1>1 DEF ReleaseRecord
<1>3. CASE ProbeInconclusive
  <2>1. CASE release.unresolved \ release.confirmed = {}
    <3>1. /\ Report(FALSE, {}, TRUE, release.seenUp, "inconclusive")
          /\ Forget(release.unresolved)
      BY <1>3, <2>1 DEF ProbeInconclusive
    <3>2. release.unresolved \cap engineHeld = {}
      BY <1>1, <2>1
    <3>. QED BY <1>1, <1>2, <3>1, <3>2, SettledInvariant
  <2>2. CASE release.unresolved \ release.confirmed # {}
    <3>1. release.unresolved \ release.confirmed = release.unresolved
      BY <1>1, <2>2
    <3>2. RetryOrGiveUp(release.unresolved, release.seenUp, TRUE, "inconclusive")
      BY <1>3, <2>2, <3>1 DEF ProbeInconclusive
    <3>. QED BY <1>1, <1>2, <3>2, RetryInvariant
  <2>. QED BY <2>1, <2>2
<1>4. CASE ProbeHeld
  <2>. DEFINE heldNow == release.unresolved \cap Down
              seen == release.seenUp \cup (release.unresolved \ heldNow)
  <2>1. RetryOrGiveUp(heldNow, seen, FALSE, "held")
    BY <1>4 DEF ProbeHeld
  <2>2. /\ heldNow \in SUBSET release.unresolved /\ seen \in SUBSET Keys
        /\ (release.unresolved \ heldNow) \cap engineHeld = {}
        /\ release.requested \ heldNow \subseteq seen
    BY <1>1, <1>2 DEF Down
  <2>. HIDE DEF heldNow, seen
  <2>. QED BY <1>1, <2>1, <2>2, RetryInvariant
<1>5. CASE ProbeAllUp
  <2>. DEFINE seen == release.seenUp \cup release.unresolved
  <2>1. /\ seen \in SUBSET Keys /\ release.requested \subseteq seen
        /\ release.unresolved \cap engineHeld = {}
    BY <1>1, <1>2, <1>5 DEF ProbeAllUp, Down
  <2>2. CASE release.unresolved = release.confirmed
    <3>1. Report(TRUE, {}, FALSE, seen, "all_up") /\ Forget(release.unresolved)
      BY <1>5, <2>2 DEF ProbeAllUp
    <3>. HIDE DEF seen
    <3>. QED BY <1>1, <2>1, <3>1, SettledInvariant
  <2>3. CASE release.unresolved # release.confirmed
    <3>1. RetryOrGiveUp(release.unresolved, seen, TRUE, "all_up")
      BY <1>5, <2>3 DEF ProbeAllUp
    <3>2. release.requested \ release.unresolved \subseteq seen
      BY <2>1
    <3>. HIDE DEF seen
    <3>. QED BY <1>1, <2>1, <3>1, <3>2, RetryInvariant
  <2>. QED BY <2>2, <2>3
<1>. QED BY <1>3, <1>4, <1>5

-----------------------------------------------------------------------------
(* Every step keeps the invariant and is a step of the ledger.             *)

LEMMA NextInvariant ==
  ASSUME IInv, [Next]_vars
  PROVE  IInv' /\ [Ledger!Next]_<<engineHeld, Tracked>>
<1>. DEFINE Goal == IInv' /\ [Ledger!Next]_<<engineHeld, Tracked>>
<1>1. ASSUME IInv' PROVE Ledger!Safe'
  BY <1>1 DEF IInv, HeldIsTracked, Ledger!Safe
<1>2. CASE UNCHANGED vars
  BY <1>2 DEF vars, IInv, Types, Attempts, HeldIsTracked, VerifiedMeansSeenUp,
     Tracked, masks
<1>3. ASSUME NEW k \in Keys, UserPresses(k) \/ UserLifts(k)
      PROVE  Goal
  BY <1>1, <1>3, UserInvariant DEF Ledger!Next
<1>4. ASSUME NEW ups \in SUBSET Keys, NEW downs \in SUBSET Keys,
             SendPacket(ups, downs)
      PROVE  Goal
  <2>1. IInv' /\ Ledger!Send(ups, downs)
    BY <1>4, PacketInvariant
  <2>2. ups \cap downs = {}
    BY <1>4 DEF SendPacket, Prepared
  <2>. QED BY <1>1, <2>1, <2>2 DEF Ledger!Next
<1>5. ASSUME NEW ups \in SUBSET Keys, NEW downs \in SUBSET Keys,
             RecoverUps(ups, downs)
      PROVE  Goal
  BY <1>4, <1>5 DEF RecoverUps
<1>6. ASSUME NEW scope \in Scopes, BeginRelease(scope)
      PROVE  Goal
  BY <1>6, BeginInvariant
<1>7. CASE ReleaseSend
  BY <1>1, <1>7, SendInvariant DEF Ledger!Next
<1>8. CASE ProbeInconclusive \/ ProbeHeld \/ ProbeAllUp
  BY <1>1, <1>8, ProbeInvariant DEF Ledger!Next
<1>. QED BY <1>2, <1>3, <1>4, <1>5, <1>6, <1>7, <1>8
     DEF Next, User, Worker, ReleaseStep

\* The inductive invariant holds in every reachable state.
THEOREM Invariance == Spec => []IInv
<1>1. Init => IInv
  BY InitInvariant
<1>2. IInv /\ [Next]_vars => IInv'
  BY NextInvariant
<1>. QED BY <1>1, <1>2, PTL DEF Spec

\* Type correctness of the backend: the masks stay inside the instrument and a
\* release makes at most four attempts.
THEOREM TypeCorrect == Spec => []TypeOK
<1>1. IInv => TypeOK
  BY DEF IInv, Types, Attempts, TypeOK, ReleaseRecord, VerdictRecord
<1>. QED BY <1>1, Invariance, PTL

\* A success verdict of a release always rests on its own probes.
THEOREM VerdictIsVerified == Spec => []VerifiedMeansSeenUp
<1>1. IInv => VerifiedMeansSeenUp
  BY DEF IInv
<1>. QED BY <1>1, Invariance, PTL

\* The backend implements KeyLedger: every key the engine holds is in a mask,
\* and it leaves the masks only when the engine no longer holds it.
THEOREM BackendImplementsLedger == Spec => ImplementsLedger
<1>1. Init => Ledger!Init
  BY DEF Init, Ledger!Init, Tracked
<1>2. IInv /\ [Next]_vars => [Ledger!Next]_<<engineHeld, Tracked>>
  BY NextInvariant
<1>. QED BY <1>1, <1>2, Invariance, PTL DEF Spec, ImplementsLedger

-----------------------------------------------------------------------------
(***************************************************************************)
(* PacketSend.  While a transaction does not take a split chord back, its  *)
(* attempts so far have at most lifted keys of the packet, so the last one *)
(* alone decides what the status may say.                                  *)
(***************************************************************************)
Attempting == {"start", "call", "stamp"}

CallRecord == [at : Nat, wanted : Packets, inserted : Packets]

SendTypes ==
  /\ step \in Attempting \cup {"idle", "done"}
  /\ tx.policy \in PacketPolicies \cup RawPolicies /\ tx.packet \in Packets
  /\ want \in Packets /\ attempt \in Nat \ {0}
  /\ now \in Nat /\ begun \in Nat \cup {Absent}
  /\ calls \in Seq(CallRecord)

\* The chord was split: what is sent now is an Up of every key of it.
TakesBack == tx.policy = "down_retry" /\ want.ups # {}

WantInv ==
  step \in Attempting =>
    /\ Valid(tx.packet)
    /\ tx.policy \in {"down", "down_retry"} => tx.packet.ups = {}
    /\ tx.policy \in {"up", "up_retry"} => tx.packet.downs = {}
    /\ IF TakesBack THEN want.downs = {} ELSE want = tx.packet

LastInserted == calls[Len(calls)].inserted

KeyboardInv ==
  /\ step = "idle" => held = before
  /\ step \in Attempting /\ ~TakesBack => before \ want.ups \subseteq held
  /\ step \in {"start", "call"} /\ ~TakesBack => held \subseteq before
  /\ step = "stamp" /\ ~TakesBack =>
       /\ LastInserted.downs \subseteq want.downs
       /\ held \subseteq before \cup LastInserted.downs
       /\ LastInserted = want => held = (before \ want.ups) \cup want.downs
  /\ StatusTellsTheKeyboard

CallsInv ==
  /\ step = "idle" => attempt = 1 /\ begun = Absent
  /\ step \in {"idle", "start", "call"} /\ attempt = 1 => calls = <<>>
  /\ step = "stamp" => calls # <<>> /\ calls[Len(calls)].wanted = want
  /\ begun # Absent => begun <= now
  /\ \A i \in DOMAIN calls :
       calls[i].at <= now /\ (begun # Absent => begun <= calls[i].at)
  /\ step \in {"start", "call"} =>
       \A i \in DOMAIN calls : calls[i].inserted.downs # {} => want.downs = {}
  /\ ChordIsNeverDoubled /\ EvidenceBracketsTheSend

SendInv == SendTypes /\ WantInv /\ KeyboardInv /\ CallsInv

LEMMA PacketRecords ==
  /\ \A p \in Packets : p = Packet(p.ups, p.downs)
                         /\ p.ups \subseteq ScanCodes /\ p.downs \subseteq ScanCodes
  /\ \A ups, downs \in SUBSET ScanCodes : Packet(ups, downs) \in Packets
  /\ \A ups, downs : Packet(ups, downs).ups = ups /\ Packet(ups, downs).downs = downs
  /\ Nothing \in Packets /\ Nothing.ups = {} /\ Nothing.downs = {}
  BY DEF Packets, Packet, Nothing

\* SendInput inserts a part of the packet, and Downs only after all of its Ups.
LEMMA PrefixIsPart ==
  ASSUME NEW p \in Packets, NEW inserted \in Prefixes(p)
  PROVE  inserted \in Packets /\ inserted.ups \subseteq p.ups /\ inserted.downs \subseteq p.downs
<1>1. CASE inserted = p
  BY <1>1
<1>2. ASSUME NEW c \in ScanCodes, inserted = Packet({k \in p.ups : k < c}, {})
      PROVE  inserted \in Packets /\ inserted.ups \subseteq p.ups /\ inserted.downs \subseteq p.downs
  <2>1. {k \in p.ups : k < c} \in SUBSET ScanCodes /\ {} \in SUBSET ScanCodes
    BY PacketRecords
  <2>. QED
    BY <1>2, <2>1, PacketRecords
<1>3. ASSUME NEW c \in ScanCodes, inserted = Packet(p.ups, {k \in p.downs : k < c})
      PROVE  inserted \in Packets /\ inserted.ups \subseteq p.ups /\ inserted.downs \subseteq p.downs
  <2>1. {k \in p.downs : k < c} \in SUBSET ScanCodes /\ p.ups \in SUBSET ScanCodes
    BY PacketRecords
  <2>. QED
    BY <1>3, <2>1, PacketRecords
<1>. QED
  BY <1>1, <1>2, <1>3 DEF Prefixes

LEMMA SendInvInit == SendInit => SendInv
<1>. SUFFICES ASSUME SendInit PROVE SendInv
  OBVIOUS
<1>1. tx.policy = "sampled" /\ tx.packet = Nothing
  BY DEF SendInit
<1>. QED
  BY <1>1, PacketRecords
  DEF SendInit, SendInv, SendTypes, WantInv, KeyboardInv, CallsInv, Attempting, PacketPolicies,
      StatusTellsTheKeyboard, ChordIsNeverDoubled, EvidenceBracketsTheSend

\* The transaction ends, and what it may say of an attempt that inserted so much.
Concludes(inserted, completed) ==
  /\ step' = "done" /\ UNCHANGED <<want, attempt>>
  /\ outcome'.completed \in {completed, Absent}
  /\ outcome'.completed # Absent => outcome'.started = begun
  /\ outcome'.status = "Complete" => ~TakesBack /\ inserted = want /\ completed # Absent
  /\ outcome'.status \in {"Rejected", "ZeroProgress", "DeadlineMissed", "ClockBefore"} =>
       ~TakesBack /\ (inserted = Nothing \/ want.downs = {})

\* Or another attempt follows: with the same packet, unless it pressed a key of
\* it, or with the Ups of a split chord.
Repeats(inserted) ==
  /\ step' = "start" /\ attempt' = attempt + 1 /\ UNCHANGED outcome
  /\ \/ want' = want /\ (inserted = Nothing \/ want.downs = {})
     \/ tx.policy = "down_retry" /\ want' = Packet(tx.packet.downs, {}) /\ ~TakesBack

LEMMA JudgePacketEffect ==
  ASSUME NEW inserted, NEW completed,
         tx.policy \in PacketPolicies, JudgePacket(inserted, completed)
  PROVE  Concludes(inserted, completed) \/ Repeats(inserted)
<1>1. ~TakesBack
  BY DEF TakesBack, PacketPolicies
<1>. QED
  BY <1>1 DEF JudgePacket, Ends, Finish, Again, RetriesPacket, StatusOf, Concludes, Repeats

LEMMA JudgeRawEffect ==
  ASSUME SendTypes, WantInv, step \in Attempting, NEW inserted, NEW completed,
         JudgeRaw(inserted, completed)
  PROVE  Concludes(inserted, completed) \/ Repeats(inserted)
<1>1. CASE tx.policy \in {"down", "up"} /\ JudgeOnce(inserted, completed)
  BY <1>1 DEF JudgeOnce, Ends, Finish, StatusOf, Concludes, TakesBack
<1>2. CASE tx.policy = "up_retry" /\ JudgeUps(inserted, completed)
  <2>1. ~TakesBack /\ want.downs = {}
    BY <1>2 DEF WantInv, TakesBack
  <2>2. CASE Attempt1 /\ inserted # want
    BY <1>2, <2>1, <2>2 DEF JudgeUps, Again, Repeats
  <2>3. CASE ~(Attempt1 /\ inserted # want)
    BY <1>2, <2>1, <2>3 DEF JudgeUps, Ends, Finish, StatusOf, Concludes
  <2>. QED
    BY <2>2, <2>3
<1>3. CASE tx.policy = "down_retry" /\ JudgeDowns(inserted, completed)
  <2>1. TakesBack <=> RollingBack
    BY <1>3 DEF TakesBack, RollingBack
  <2>2. CASE RollingBack
    BY <1>3, <2>2 DEF JudgeDowns, Ends, Finish, Concludes
  <2>3. CASE ~RollingBack /\ inserted \notin {Nothing, want}
    BY <1>3, <2>1, <2>3 DEF JudgeDowns, Again, Repeats
  <2>4. CASE ~RollingBack /\ inserted \in {Nothing, want}
    BY <1>3, <2>1, <2>4 DEF JudgeDowns, Again, Ends, Finish, StatusOf, Repeats, Concludes
  <2>. QED
    BY <2>2, <2>3, <2>4
<1>. QED
  BY <1>1, <1>2, <1>3 DEF JudgeRaw

\* A verdict on an attempt keeps the invariant, if the keyboard is what the
\* attempt says.
LEMMA VerdictKeepsSendInv ==
  ASSUME SendInv, step \in Attempting, NEW inserted, NEW completed \in {now, Absent},
         Concludes(inserted, completed) \/ Repeats(inserted),
         ~TakesBack =>
           /\ held \subseteq before \/ ~(inserted = Nothing \/ want.downs = {})
           /\ inserted = want /\ completed # Absent => held = (before \ want.ups) \cup want.downs,
         \A i \in DOMAIN calls :
           calls[i].inserted.downs # {} => want.downs = {} \/ inserted # Nothing,
         UNCHANGED <<tx, begun, calls, held, before, now>>
  PROVE  SendInv'
<1>1. CASE Concludes(inserted, completed)
  <2>1. SendTypes' /\ WantInv'
    BY <1>1 DEF Concludes, SendInv, SendTypes, WantInv, Attempting
  <2>2. StatusTellsTheKeyboard'
    BY <1>1 DEF Concludes, SendInv, WantInv, StatusTellsTheKeyboard
  <2>3. EvidenceBracketsTheSend'
    BY <1>1 DEF Concludes, SendInv, CallsInv, EvidenceBracketsTheSend
  <2>4. KeyboardInv'
    BY <1>1, <2>2 DEF Concludes, KeyboardInv, Attempting
  <2>5. CallsInv'
    BY <1>1, <2>3 DEF Concludes, SendInv, CallsInv, ChordIsNeverDoubled
  <2>. QED
    BY <2>1, <2>4, <2>5 DEF SendInv
<1>2. CASE Repeats(inserted)
  <2>1. step' = "start" /\ attempt' \in Nat \ {0, 1}
    BY <1>2 DEF Repeats, SendInv, SendTypes
  <2>2. CASE want' = want /\ (inserted = Nothing \/ want.downs = {})
    <3>1. SendTypes' /\ WantInv'
      BY <2>1, <2>2 DEF SendInv, SendTypes, WantInv, Attempting, TakesBack
    <3>2. KeyboardInv'
      BY <2>1, <2>2
      DEF SendInv, KeyboardInv, StatusTellsTheKeyboard, Attempting, TakesBack
    <3>3. CallsInv'
      BY <2>1, <2>2 DEF SendInv, CallsInv, ChordIsNeverDoubled, EvidenceBracketsTheSend
    <3>. QED
      BY <3>1, <3>2, <3>3 DEF SendInv
  <2>3. CASE tx.policy = "down_retry" /\ want' = Packet(tx.packet.downs, {}) /\ ~TakesBack
    <3>1. /\ tx.packet \in Packets /\ tx.packet.ups = {} /\ tx.packet # Nothing
          /\ tx.packet = Packet(tx.packet.ups, tx.packet.downs)
      BY <2>3, PacketRecords DEF SendInv, SendTypes, WantInv, Valid
    <3>2. want' \in Packets /\ want'.ups = tx.packet.downs /\ want'.downs = {}
      BY <2>3, <3>1, PacketRecords
    <3>3. tx.packet.downs # {}
      BY <3>1 DEF Nothing
    <3>4. TakesBack'
      BY <2>3, <3>2, <3>3 DEF TakesBack
    <3>5. SendTypes' /\ WantInv'
      BY <2>1, <3>2, <3>4 DEF SendInv, SendTypes, WantInv, Attempting
    <3>6. KeyboardInv'
      BY <2>1, <3>4 DEF KeyboardInv, StatusTellsTheKeyboard
    <3>7. CallsInv'
      BY <2>1, <3>2 DEF SendInv, CallsInv, ChordIsNeverDoubled, EvidenceBracketsTheSend
    <3>. QED
      BY <3>5, <3>6, <3>7 DEF SendInv
  <2>. QED
    BY <1>2, <2>2, <2>3 DEF Repeats
<1>. QED
  BY <1>1, <1>2

LEMMA BeginKeepsSendInv ==
  ASSUME SendInv, NEW policy \in PacketPolicies \cup RawPolicies, NEW packet \in Packets,
         NEW cutoff, NEW target, Begin(policy, packet, cutoff, target)
  PROVE  SendInv'
<1>1. /\ step = "idle" /\ held = before /\ attempt = 1 /\ begun = Absent /\ calls = <<>>
      /\ now \in Nat
  BY DEF Begin, SendInv, KeyboardInv, CallsInv, SendTypes
<1>2. /\ tx'.policy = policy /\ tx'.packet = packet /\ want' = packet
      /\ UNCHANGED <<attempt, calls, held, before, now>>
      /\ step' \in {"start", "call", "done"}
      /\ begun' \in {begun, now}
      /\ step' \in Attempting => Valid(packet)
      /\ step' = "done" => outcome'.status # "Complete" /\ outcome'.completed = Absent
  BY DEF Begin, Finish, Attempting
<1>3. Admissible(policy, packet, cutoff, target)
  BY DEF Begin
<1>4. SendTypes'
  BY <1>1, <1>2 DEF SendInv, SendTypes, Attempting
<1>5. WantInv'
  BY <1>2, <1>3 DEF WantInv, TakesBack, Admissible
<1>6. KeyboardInv'
  BY <1>1, <1>2 DEF KeyboardInv, StatusTellsTheKeyboard
<1>7. CallsInv'
  BY <1>1, <1>2 DEF CallsInv, ChordIsNeverDoubled, EvidenceBracketsTheSend
<1>. QED
  BY <1>4, <1>5, <1>6, <1>7 DEF SendInv

LEMMA SampleKeepsSendInv ==
  ASSUME SendInv, Sample
  PROVE  SendInv'
<1>1. /\ step = "start" /\ UNCHANGED <<tx, want, attempt, calls, held, before, now>>
      /\ step' \in {"call", "done"} /\ begun' \in {begun, now}
      /\ begun' # begun => attempt = 1
      /\ step' = "done" => /\ want.downs # {} /\ outcome'.status = "DeadlineMissed"
                           /\ outcome'.completed = Absent
      /\ step' = "call" => UNCHANGED outcome
  BY DEF Sample, Finish, Late, Attempt1
<1>2. SendTypes' /\ WantInv'
  BY <1>1 DEF SendInv, SendTypes, WantInv, Attempting, TakesBack
<1>3. KeyboardInv'
  BY <1>1 DEF SendInv, WantInv, KeyboardInv, StatusTellsTheKeyboard, Attempting, TakesBack
<1>4. CallsInv'
  BY <1>1 DEF SendInv, SendTypes, CallsInv, ChordIsNeverDoubled, EvidenceBracketsTheSend
<1>. QED
  BY <1>2, <1>3, <1>4 DEF SendInv

LEMMA CallKeepsSendInv ==
  ASSUME SendInv, Call
  PROVE  SendInv'
<1>1. PICK inserted \in Prefixes(want) :
        /\ calls' = Append(calls, [at |-> now, wanted |-> want, inserted |-> inserted])
        /\ held' = (held \ inserted.ups) \cup inserted.downs
  BY DEF Call
<1>2. /\ step = "call" /\ step' = "stamp"
      /\ UNCHANGED <<tx, want, attempt, begun, outcome, before, now>>
  BY DEF Call
<1>3. /\ want \in Packets /\ inserted \in Packets
      /\ inserted.ups \subseteq want.ups /\ inserted.downs \subseteq want.downs
  BY PrefixIsPart DEF SendInv, SendTypes
<1>. DEFINE call == [at |-> now, wanted |-> want, inserted |-> inserted]
<1>4. call \in CallRecord /\ calls \in Seq(CallRecord)
  BY <1>3 DEF CallRecord, SendInv, SendTypes
<1>5. /\ calls' \in Seq(CallRecord) /\ calls' # <<>> /\ calls'[Len(calls')] = call
      /\ DOMAIN calls' = 1 .. Len(calls') /\ Len(calls') \in Nat
      /\ DOMAIN calls' = DOMAIN calls \cup {Len(calls')}
      /\ \A i \in DOMAIN calls : i < Len(calls') /\ calls'[i] = calls[i]
  BY <1>1, <1>4
<1>6. call.at = now /\ call.wanted = want /\ call.inserted = inserted
  OBVIOUS
<1>. HIDE DEF call
<1>7. SendTypes' /\ WantInv'
  BY <1>2, <1>5 DEF SendInv, SendTypes, WantInv, Attempting, TakesBack
<1>8. KeyboardInv'
  <2>1. LastInserted' = inserted
    BY <1>5, <1>6 DEF LastInserted
  <2>2. TakesBack' <=> TakesBack
    BY <1>2 DEF TakesBack
  <2>3. ~TakesBack => before \ want.ups \subseteq held /\ held \subseteq before
    BY <1>2 DEF SendInv, KeyboardInv, Attempting
  <2>. QED
    BY <1>1, <1>2, <1>3, <2>1, <2>2, <2>3 DEF KeyboardInv, StatusTellsTheKeyboard
<1>9. CallsInv'
  <2>1. /\ begun # Absent => begun <= now
        /\ now \in Nat
        /\ \A i \in DOMAIN calls :
             calls[i].at <= now /\ (begun # Absent => begun <= calls[i].at)
        /\ \A i \in DOMAIN calls : calls[i].inserted.downs # {} => want.downs = {}
        /\ ChordIsNeverDoubled
    BY <1>2 DEF SendInv, SendTypes, CallsInv
  <2>2. \A i \in DOMAIN calls' :
          calls'[i].at <= now' /\ (begun' # Absent => begun' <= calls'[i].at)
    <3>. SUFFICES ASSUME NEW i \in DOMAIN calls'
         PROVE  calls'[i].at <= now' /\ (begun' # Absent => begun' <= calls'[i].at)
      OBVIOUS
    <3>1. CASE i \in DOMAIN calls
      BY <1>2, <1>5, <2>1, <3>1
    <3>2. CASE i = Len(calls')
      BY <1>2, <1>5, <1>6, <2>1, <3>2
    <3>. QED
      BY <1>5, <3>1, <3>2
  <2>3. ChordIsNeverDoubled'
    <3>. SUFFICES ASSUME NEW i \in DOMAIN calls', NEW j \in DOMAIN calls', i < j,
                         calls'[i].inserted.downs # {}
         PROVE  calls'[j].wanted.downs = {}
      BY DEF ChordIsNeverDoubled
    <3>1. i \in Int /\ j \in Int /\ Len(calls') \in Int
      BY <1>5
    <3>2. i \in DOMAIN calls
      BY <1>5, <3>1
    <3>3. CASE j \in DOMAIN calls
      BY <1>5, <2>1, <3>2, <3>3 DEF ChordIsNeverDoubled
    <3>4. CASE j = Len(calls')
      BY <1>5, <1>6, <2>1, <3>2, <3>4
    <3>. QED
      BY <1>5, <3>3, <3>4
  <2>. QED
    BY <1>2, <1>5, <1>6, <2>1, <2>2, <2>3 DEF CallsInv, EvidenceBracketsTheSend
<1>. QED
  BY <1>7, <1>8, <1>9 DEF SendInv

LEMMA StampKeepsSendInv ==
  ASSUME SendInv, Stamp
  PROVE  SendInv'
<1>1. PICK completed \in {now, Absent} : Judge(LastInserted, completed)
  BY DEF Stamp, LastInserted
<1>2. /\ step = "stamp" /\ step \in Attempting
      /\ UNCHANGED <<tx, begun, calls, held, before, now>>
  BY DEF Stamp, Attempting
<1>3. Concludes(LastInserted, completed) \/ Repeats(LastInserted)
  BY <1>1, <1>2, JudgePacketEffect, JudgeRawEffect DEF Judge, SendInv
<1>4. ~TakesBack =>
        /\ held \subseteq before \/ ~(LastInserted = Nothing \/ want.downs = {})
        /\ LastInserted = want => held = (before \ want.ups) \cup want.downs
  BY <1>2, PacketRecords DEF SendInv, KeyboardInv
<1>5. \A i \in DOMAIN calls :
        calls[i].inserted.downs # {} => want.downs = {} \/ LastInserted # Nothing
  <2>. SUFFICES ASSUME NEW i \in DOMAIN calls, calls[i].inserted.downs # {}, LastInserted = Nothing
       PROVE  want.downs = {}
    OBVIOUS
  <2>1. calls # <<>> /\ calls[Len(calls)].wanted = want /\ ChordIsNeverDoubled
    BY <1>2 DEF SendInv, CallsInv
  <2>2. calls \in Seq(CallRecord) /\ DOMAIN calls = 1 .. Len(calls) /\ Len(calls) \in DOMAIN calls
    BY <2>1 DEF SendInv, SendTypes
  <2>3. i # Len(calls)
    BY PacketRecords DEF LastInserted
  <2>4. i < Len(calls)
    BY <2>2, <2>3
  <2>. QED
    BY <2>1, <2>2, <2>4 DEF ChordIsNeverDoubled
<1>. QED
  BY <1>2, <1>3, <1>4, <1>5, VerdictKeepsSendInv

LEMMA SampleFailsKeepsSendInv ==
  ASSUME SendInv, SampleFails
  PROVE  SendInv'
<1>1. /\ step = "start" /\ step \in Attempting
      /\ UNCHANGED <<tx, begun, calls, held, before, now>>
  BY DEF SampleFails, Attempting
<1>2. Concludes(Nothing, Absent) \/ Repeats(Nothing)
  <2>1. CASE tx.policy \in PacketPolicies
               /\ Ends(IF Attempt1 THEN "ClockBefore" ELSE "ClockAfter", Absent, Absent)
    BY <2>1 DEF Ends, Finish, Concludes, TakesBack, PacketPolicies
  <2>2. CASE JudgeRaw(Nothing, Absent)
    BY <1>1, <2>2, JudgeRawEffect DEF SendInv
  <2>. QED
    BY <2>1, <2>2 DEF SampleFails
<1>3. ~TakesBack => held \subseteq before
  BY <1>1 DEF SendInv, KeyboardInv
<1>4. \A i \in DOMAIN calls : calls[i].inserted.downs # {} => want.downs = {}
  BY <1>1 DEF SendInv, CallsInv
<1>. QED
  BY <1>1, <1>2, <1>3, <1>4, VerdictKeepsSendInv

LEMMA SendStepKeepsInv == SendInv /\ [SendNext]_sendVars => SendInv'
<1>. SUFFICES ASSUME SendInv, [SendNext]_sendVars PROVE SendInv'
  OBVIOUS
<1>1. CASE UNCHANGED <<step, tx, want, attempt, begun, calls, outcome, held, before>>
             /\ now' \in {now, now + 1}
  <2>1. SendTypes' /\ WantInv'
    BY <1>1 DEF SendInv, SendTypes, WantInv, TakesBack
  <2>2. KeyboardInv'
    BY <1>1 DEF SendInv, KeyboardInv, TakesBack, LastInserted, StatusTellsTheKeyboard
  <2>3. \A i \in DOMAIN calls : calls[i].at \in Nat
    <3>1. calls \in Seq(CallRecord)
      BY DEF SendInv, SendTypes
    <3>2. \A i \in DOMAIN calls : calls[i] \in CallRecord
      BY <3>1
    <3>. QED
      BY <3>2 DEF CallRecord
  <2>4. CallsInv'
    BY <1>1, <2>3
    DEF SendInv, SendTypes, CallsInv, ChordIsNeverDoubled, EvidenceBracketsTheSend
  <2>. QED
    BY <2>1, <2>2, <2>4 DEF SendInv
<1>2. Tick \/ UNCHANGED sendVars => SendInv'
  BY <1>1 DEF Tick, sendVars
<1>3. ASSUME NEW policy \in PacketPolicies \cup RawPolicies, NEW packet \in Packets,
             NEW cutoff \in Times \cup {Absent}, NEW target \in Times,
             Begin(policy, packet, cutoff, target)
      PROVE  SendInv'
  BY <1>3, BeginKeepsSendInv
<1>. QED
  BY <1>2, <1>3, SampleKeepsSendInv, SampleFailsKeepsSendInv, CallKeepsSendInv,
     StampKeepsSendInv DEF SendNext

\* For any keys, packet, policy, cutoff and faults: what a transaction reports is
\* what it did (packet.rs, down_transaction.rs, up_transaction.rs).
THEOREM SendsTellTheTruth == SendSpec => []SendTellsTheTruth
<1>1. SendInv => SendTellsTheTruth
  BY DEF SendInv, KeyboardInv, CallsInv, SendTellsTheTruth
<1>. QED
  BY <1>1, SendInvInit, SendStepKeepsInv, PTL DEF SendSpec

=============================================================================
