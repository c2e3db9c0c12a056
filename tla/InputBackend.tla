---------------------------- MODULE InputBackend ----------------------------
(***************************************************************************)
(* The tracked-key backend of sky_dispatch_win32 (src/input): one          *)
(* SendInput per packet, the three masks that remember what may be down,   *)
(* and the release state machine that sends, waits, probes and retries.    *)
(*                                                                         *)
(* A key has one physical bit; the engine and the user both move it.  A    *)
(* release is several steps, so the user acts between its send and its     *)
(* probe and between its attempts.  Packets and the other calls are one    *)
(* step each: the worker thread alone calls them.                          *)
(***************************************************************************)
EXTENDS Integers, FiniteSets

CONSTANTS
  NumKeys,          \* number of keys; key k is bit k of the code's masks
  MaxUser           \* bound: how often the user moves a key

ASSUME InputBackendAssumption ==
  /\ NumKeys \in Nat \ {0}
  /\ MaxUser \in Nat

Keys == 0 .. NumKeys - 1

VARIABLES
  engineHeld,       \* keys down since an injected Down
  userHeld,         \* keys down since the user pressed them
  active,           \* active_mask
  possibly,         \* possibly_active_mask
  failed,           \* failed_release_mask
  release,          \* locals of release_scope
  verdict,          \* the ReleaseAllOutcome of the last release, or NoVerdict
  userMoves         \* number of the user's moves so far

masks == <<active, possibly, failed>>
keyboard == <<engineHeld, userHeld>>
vars == <<engineHeld, userHeld, active, possibly, failed, release, verdict,
          userMoves>>

Tracked == active \cup possibly \cup failed
Down == engineHeld \cup userHeld

Idle == [step |-> "idle", requested |-> {}, unresolved |-> {}, attempt |-> 0,
         confirmed |-> {}, seenUp |-> {}]

NoVerdict == [ok |-> TRUE, requested |-> {}, stuck |-> {},
              inconclusive |-> FALSE, seenUp |-> {}, probe |-> "none"]

Status == {"Complete", "ZeroProgress", "IntegrityLost", "DeadlineMissed",
           "ClockBefore", "ClockAfter"}

Init ==
  /\ engineHeld = {} /\ userHeld = {}
  /\ active = {} /\ possibly = {} /\ failed = {}
  /\ release = Idle /\ verdict = NoVerdict
  /\ userMoves = 0

-----------------------------------------------------------------------------
(* The user.                                                               *)

UserPresses(k) ==
  /\ userMoves < MaxUser
  /\ userHeld' = userHeld \cup {k}
  /\ userMoves' = userMoves + 1
  /\ UNCHANGED <<engineHeld, masks, release, verdict>>

\* The key has one bit: the user's lift ends the engine's Down as well.
UserLifts(k) ==
  /\ userMoves < MaxUser
  /\ k \in userHeld
  /\ userHeld' = userHeld \ {k}
  /\ engineHeld' = engineHeld \ {k}
  /\ userMoves' = userMoves + 1
  /\ UNCHANGED <<masks, release, verdict>>

-----------------------------------------------------------------------------
(* Packets.  SendInput inserts a prefix of the events, Ups first, each     *)
(* direction in key order.                                                 *)

Inserted(ups, downs) ==
  {[ups |-> {k \in ups : k < c}, downs |-> {}] : c \in Keys}
    \cup {[ups |-> ups, downs |-> {k \in downs : k < c}] : c \in 0 .. NumKeys}

\* The statuses the code can report for what SendInput inserted.
Reports(status, inserted, ups, downs) ==
  LET all == inserted = [ups |-> ups, downs |-> downs]
      none == inserted = [ups |-> {}, downs |-> {}]
  IN /\ status = "Complete" => all
     /\ status \in {"ZeroProgress", "DeadlineMissed", "ClockBefore"} => none
     /\ status = "IntegrityLost" => ~all /\ ~none
     /\ status = "DeadlineMissed" => downs # {}

Uncertain(status) == status \in {"IntegrityLost", "ClockAfter"}

\* MUTANT: a partly inserted packet is treated like one that inserted nothing.
BugApplyOutcome(status, ups, downs) ==
  \/ /\ status = "Complete"
     /\ active' = (active \ ups) \cup downs
     /\ possibly' = possibly \ (ups \cup downs)
     /\ failed' = failed \ ups
  \/ /\ status # "Complete"
     /\ failed' = failed \cup ups
     /\ UNCHANGED <<active, possibly>>

ApplyOutcome(status, ups, downs) ==
  \/ /\ status = "Complete"
     /\ active' = (active \ ups) \cup downs
     /\ possibly' = possibly \ (ups \cup downs)
     /\ failed' = failed \ ups
  \/ /\ Uncertain(status)
     /\ active' = active \ (ups \cup downs)
     /\ possibly' = possibly \cup ups \cup downs
     /\ failed' = failed \cup ups
  \/ /\ status # "Complete" /\ ~Uncertain(status)
     /\ failed' = failed \cup ups
     /\ UNCHANGED <<active, possibly>>

Prepared(ups, downs) == ups \cap downs = {} /\ ups \cup downs # {}

SendPacket(ups, downs) ==
  /\ release.step = "idle"
  /\ Prepared(ups, downs)
  /\ \E inserted \in Inserted(ups, downs), status \in Status :
       /\ Reports(status, inserted, ups, downs)
       /\ engineHeld' = (engineHeld \ inserted.ups) \cup inserted.downs
       /\ userHeld' = userHeld \ inserted.ups
       /\ ApplyOutcome(status, ups, downs)
  /\ UNCHANGED <<release, verdict, userMoves>>

\* After a missed Down the Up prefix of the prepared packet is sent alone.
RecoverUps(ups, downs) ==
  /\ Prepared(ups, downs) /\ ups # {} /\ downs # {}
  /\ SendPacket(ups, {})

-----------------------------------------------------------------------------
(* The release: up to four attempts of send, probe, reconcile.             *)

MaxAttempts == 4

Scopes == {"Tracked", "FullInstrument"}

Requested(scope) == IF scope = "Tracked" THEN Tracked ELSE Keys

BeginRelease(scope) ==
  /\ release.step = "idle"
  /\ LET requested == Requested(scope) IN
       IF requested = {}
         THEN /\ verdict' = NoVerdict
              /\ UNCHANGED release
         ELSE /\ release' = [Idle EXCEPT !.step = "send",
                                         !.requested = requested,
                                         !.unresolved = requested]
              /\ UNCHANGED verdict
  /\ UNCHANGED <<keyboard, masks, userMoves>>

\* SendInput lifts the unresolved keys below some key.
Lifted(c) == {k \in release.unresolved : k < c}

\* MUTANT: the attempt is counted only when the transport confirms it.
BugReleaseSend ==
  /\ release.step = "send"
  /\ \E c \in 0 .. NumKeys, clockFails \in BOOLEAN :
       LET lifted == Lifted(c) IN
       /\ engineHeld' = engineHeld \ lifted
       /\ userHeld' = userHeld \ lifted
       /\ release' = [release EXCEPT
            !.step = "probe",
            !.attempt = IF clockFails THEN @ ELSE @ + 1,
            !.confirmed = IF lifted = release.unresolved /\ ~clockFails
                            THEN lifted ELSE {}]
  /\ UNCHANGED <<masks, verdict, userMoves>>

\* One SendInput of Ups for what is unresolved; the transport confirms all of
\* it or nothing, and a clock that fails afterwards confirms nothing.
ReleaseSend ==
  /\ release.step = "send"
  /\ \E c \in 0 .. NumKeys, clockFails \in BOOLEAN :
       LET lifted == Lifted(c) IN
       /\ engineHeld' = engineHeld \ lifted
       /\ userHeld' = userHeld \ lifted
       /\ release' = [release EXCEPT
            !.step = "probe",
            !.attempt = @ + 1,
            !.confirmed = IF lifted = release.unresolved /\ ~clockFails
                            THEN lifted ELSE {}]
  /\ UNCHANGED <<masks, verdict, userMoves>>

Forget(keys) ==
  /\ active' = active \ keys
  /\ possibly' = possibly \ keys
  /\ failed' = failed \ keys

Report(ok, stuck, inconclusive, seenUp, probe) ==
  /\ release' = Idle
  /\ verdict' = [ok |-> ok, requested |-> release.requested, stuck |-> stuck,
                 inconclusive |-> inconclusive, seenUp |-> seenUp, probe |-> probe]

\* The next attempt, or after the last one the keys are reported as stuck and
\* stay on the failed mask.
RetryOrGiveUp(unresolved, seenUp, inconclusive, probe) ==
  IF release.attempt < MaxAttempts
    THEN /\ release' = [release EXCEPT !.step = "send",
                                       !.unresolved = unresolved,
                                       !.seenUp = seenUp,
                                       !.confirmed = {}]
         /\ Forget(release.unresolved \ unresolved)
         /\ UNCHANGED verdict
    ELSE /\ Report(FALSE, unresolved, inconclusive, seenUp, probe)
         /\ active' = active \ (release.unresolved \ unresolved)
         /\ possibly' = possibly \ (release.unresolved \ unresolved)
         /\ failed' = (failed \ (release.unresolved \ unresolved)) \cup unresolved

\* MUTANT: the keys the transport confirmed count as verified without a probe.
BugProbeInconclusive ==
  LET unconfirmed == release.unresolved \ release.confirmed IN
  /\ release.step = "probe"
  /\ IF unconfirmed = {}
       THEN Report(TRUE, {}, FALSE, release.seenUp, "inconclusive")
              /\ Forget(release.unresolved)
       ELSE RetryOrGiveUp(unconfirmed, release.seenUp, TRUE, "inconclusive")
  /\ UNCHANGED <<keyboard, userMoves>>

\* The probe cannot decide: another window has the focus, there is none, or the
\* keyboard layout has no key for a scan code.
ProbeInconclusive ==
  LET unconfirmed == release.unresolved \ release.confirmed IN
  /\ release.step = "probe"
  /\ IF unconfirmed = {}
       THEN Report(FALSE, {}, TRUE, release.seenUp, "inconclusive")
              /\ Forget(release.unresolved)
       ELSE RetryOrGiveUp(unconfirmed, release.seenUp, TRUE, "inconclusive")
  /\ UNCHANGED <<keyboard, userMoves>>

\* The probe sees keys down: the others are forgotten, confirmed or not.
ProbeHeld ==
  LET held == release.unresolved \cap Down IN
  /\ release.step = "probe"
  /\ held # {}
  /\ RetryOrGiveUp(held, release.seenUp \cup (release.unresolved \ held),
                   FALSE, "held")
  /\ UNCHANGED <<keyboard, userMoves>>

\* The probe sees every key up: a success if the transport confirmed them too,
\* otherwise reconciled as inconclusive.
ProbeAllUp ==
  LET seenUp == release.seenUp \cup release.unresolved IN
  /\ release.step = "probe"
  /\ release.unresolved \cap Down = {}
  /\ IF release.unresolved = release.confirmed
       THEN Report(TRUE, {}, FALSE, seenUp, "all_up")
              /\ Forget(release.unresolved)
       ELSE RetryOrGiveUp(release.unresolved, seenUp, TRUE, "all_up")
  /\ UNCHANGED <<keyboard, userMoves>>

-----------------------------------------------------------------------------
User == \E k \in Keys : UserPresses(k) \/ UserLifts(k)

Worker ==
  \/ \E ups, downs \in SUBSET Keys :
       SendPacket(ups, downs) \/ RecoverUps(ups, downs)
  \/ \E scope \in Scopes : BeginRelease(scope)

ReleaseStep == ReleaseSend \/ ProbeInconclusive \/ ProbeHeld \/ ProbeAllUp

Next == User \/ Worker \/ ReleaseStep

Spec == Init /\ [][Next]_vars /\ WF_vars(ReleaseStep)

-----------------------------------------------------------------------------
TypeOK ==
  /\ engineHeld \subseteq Keys /\ userHeld \subseteq Keys
  /\ active \subseteq Keys /\ possibly \subseteq Keys /\ failed \subseteq Keys
  /\ release.step \in {"idle", "send", "probe"}
  /\ release.requested \subseteq Keys
  /\ release.unresolved \subseteq release.requested
  /\ release.confirmed \in SUBSET Keys
  /\ release.seenUp \in SUBSET Keys
  /\ release.attempt \in 0 .. MaxAttempts
  /\ verdict.requested \subseteq Keys /\ verdict.stuck \subseteq Keys
  /\ userMoves \in 0 .. MaxUser

\* A release that reports success has seen every key it was asked to release up
\* in one of its own probes: confirmation by the transport alone never counts
\* (tracked/cleanup.rs: released_successfully comes only from VerifiedAllUp).
VerifiedMeansSeenUp ==
  verdict.ok => verdict.requested \subseteq verdict.seenUp

\* The backend implements the ledger: whatever SendInput inserts and the user
\* does, a key leaves the masks only when the engine's Down on it is over
\* (tracked/packet_send.rs apply_packet_outcome, tracked/cleanup.rs).
Ledger == INSTANCE KeyLedger WITH held <- engineHeld, tracked <- Tracked

ImplementsLedger == Ledger!Init /\ [][Ledger!Next]_<<engineHeld, Tracked>>

\* A release always comes to its verdict: the attempts are bounded whatever the
\* probe and the transport do.
ReleaseEnds == (release.step # "idle") ~> (release.step = "idle")

=============================================================================
