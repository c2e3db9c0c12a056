----------------------------- MODULE PacketSend -----------------------------
(***************************************************************************)
(* One send transaction of sky_dispatch_win32 (input/packet.rs, the two    *)
(* *_transaction.rs, input/raw.rs), at the grain of its clock samples and  *)
(* its SendInput calls: the start sample, the cutoff, the call that        *)
(* inserts a prefix of the events, the completion sample, the status, and  *)
(* under the policies that retry, the next attempt or the rollback.        *)
(***************************************************************************)
EXTENDS Integers, Sequences

CONSTANTS
  ScanCodes,        \* the keys; events go in their order
  MaxCounter,       \* bound of the counter (QPC ticks)
  Absent            \* no sample, no cutoff

ASSUME PacketAssumption == ScanCodes \subseteq Nat /\ MaxCounter \in Nat

Times == 0 .. MaxCounter

VARIABLES
  step,             \* "idle", "start", "call", "stamp" or "done"
  tx,               \* the transaction: policy, packet, limits
  want,             \* the packet of the current attempt
  attempt,          \* its number
  started,          \* its start sample
  begun,            \* the start sample of the first attempt
  calls,            \* the SendInput calls of the transaction
  outcome,          \* its SendTransactionOutcome
  held,             \* keys down on the keyboard
  before,           \* keys down when the transaction began
  now               \* the counter

sendVars == <<step, tx, want, attempt, started, begun, calls, outcome, held, before, now>>

\* Production sends one packet or one list of keys; the policies that retry are
\* the ones the transport's own tests keep (cfg(test)).
PacketPolicies == {"supplied", "sampled", "target", "packet_retry"}
RawPolicies == {"down", "up", "down_retry", "up_retry"}

Packet(ups, downs) == [ups |-> ups, downs |-> downs]
Nothing == Packet({}, {})
Packets == {Packet(ups, downs) : ups, downs \in SUBSET ScanCodes}

SendInit ==
  /\ step = "idle"
  /\ tx = [policy |-> "sampled", packet |-> Nothing, cutoff |-> Absent, target |-> 0]
  /\ want = Nothing /\ attempt = 1
  /\ started = Absent /\ begun = Absent
  /\ calls = <<>>
  /\ outcome = [status |-> "none", started |-> Absent, completed |-> Absent]
  /\ held \in SUBSET ScanCodes /\ before = held
  /\ now = 0

-----------------------------------------------------------------------------
Tick ==
  /\ now < MaxCounter
  /\ now' = now + 1
  /\ UNCHANGED <<step, tx, want, attempt, started, begun, calls, outcome, held, before>>

Finish(status, from, completed) ==
  /\ step' = "done"
  /\ outcome' = [status |-> status, started |-> from, completed |-> completed]

\* A packet is sent if its directions do not overlap and it has an event.
Valid(packet) == packet.ups \cap packet.downs = {} /\ packet # Nothing

Late(packet, at, cutoff) == packet.downs # {} /\ cutoff # Absent /\ at > cutoff

\* What the callers of each policy give it.
Admissible(policy, packet, cutoff, target) ==
  /\ policy \in {"down", "down_retry"} => packet.ups = {}
  /\ policy \in {"up", "up_retry"} => packet.downs = {}
  /\ policy \in RawPolicies => packet # Nothing
  /\ policy \in RawPolicies \cup {"packet_retry"} => cutoff = Absent
  /\ policy # "target" => target = 0

\* The supplied policy takes the start its caller sampled.
Begin(policy, packet, cutoff, target) ==
  /\ step = "idle"
  /\ Admissible(policy, packet, cutoff, target)
  /\ tx' = [policy |-> policy, packet |-> packet, cutoff |-> cutoff, target |-> target]
  /\ want' = packet
  /\ IF ~Valid(packet)
       THEN /\ Finish("Rejected", Absent, Absent)
            /\ UNCHANGED <<started, begun>>
       ELSE IF policy # "supplied"
       THEN /\ step' = "start"
            /\ UNCHANGED <<started, begun, outcome>>
       ELSE IF Late(packet, now, cutoff)
       THEN /\ Finish("DeadlineMissed", now, Absent)
            /\ UNCHANGED <<started, begun>>
       ELSE /\ step' = "call"
            /\ started' = now /\ begun' = now
            /\ UNCHANGED outcome
  /\ UNCHANGED <<attempt, calls, held, before, now>>

Attempt1 == attempt = 1

\* The sender's own start sample; the target sender spins until the counter has
\* reached the target, and a Down past its cutoff is not sent.
Sample ==
  /\ step = "start"
  /\ tx.policy = "target" => now >= tx.target
  /\ IF Late(want, now, tx.cutoff)
       THEN /\ Finish("DeadlineMissed", now, Absent)
            /\ UNCHANGED <<started, begun>>
       ELSE /\ step' = "call"
            /\ started' = now
            /\ begun' = IF Attempt1 THEN now ELSE begun
            /\ UNCHANGED outcome
  /\ UNCHANGED <<tx, want, attempt, calls, held, before, now>>

\* SendInput inserts a prefix of the events, Ups first, in key order.
Prefixes(packet) ==
  {Packet({k \in packet.ups : k < c}, {}) : c \in ScanCodes}
    \cup {Packet(packet.ups, {k \in packet.downs : k < c}) : c \in ScanCodes} \cup {packet}

Call ==
  /\ step = "call"
  /\ \E inserted \in Prefixes(want) :
       /\ calls' = Append(calls, [at |-> now, wanted |-> want, inserted |-> inserted])
       /\ held' = (held \ inserted.ups) \cup inserted.downs
  /\ step' = "stamp"
  /\ UNCHANGED <<tx, want, attempt, started, begun, outcome, before, now>>

-----------------------------------------------------------------------------
(* The end of an attempt: what it inserted, and its completion sample.     *)

StatusOf(inserted, completed) ==
  IF completed = Absent
    THEN IF inserted = Nothing THEN "ClockBefore" ELSE "ClockAfter"
    ELSE IF inserted = want THEN "Complete"
    ELSE IF inserted = Nothing THEN "ZeroProgress" ELSE "IntegrityLost"

Ends(status, from, completed) ==
  /\ Finish(status, from, completed)
  /\ UNCHANGED <<want, attempt>>

Again(packet) ==
  /\ step' = "start"
  /\ want' = packet
  /\ attempt' = attempt + 1
  /\ UNCHANGED outcome

\* MUTANT: the whole packet is sent again after a part of it was inserted.
BugRetriesPacket(inserted) == Attempt1 /\ inserted # want

\* A packet is sent again if it inserted nothing, or if it has Ups alone.
RetriesPacket(inserted) ==
  Attempt1 /\ inserted # want /\ (inserted = Nothing \/ want.downs = {})

\* A clock that fails ends a packet's transaction at once.
JudgePacket(inserted, completed) ==
  IF completed = Absent
    THEN Ends("ClockAfter", started, Absent)
    ELSE IF tx.policy = "packet_retry" /\ RetriesPacket(inserted)
    THEN Again(want)
    ELSE Ends(StatusOf(inserted, completed), begun, completed)

JudgeOnce(inserted, completed) == Ends(StatusOf(inserted, completed), begun, completed)

\* Ups are sent a second time whatever the first attempt inserted.
JudgeUps(inserted, completed) ==
  IF Attempt1 /\ inserted # want
    THEN Again(want)
    ELSE Ends(IF Attempt1 \/ StatusOf(inserted, completed) = "Complete"
                THEN StatusOf(inserted, completed)
                ELSE IF inserted = Nothing /\ (calls = <<>> \/ calls[1].inserted = Nothing)
                THEN "ZeroProgress" ELSE "PartialProgress", begun, completed)

RollingBack == want.ups # {}

\* A chord that was split is taken back by an Up of every key of it; one that
\* inserted nothing is sent once more.
JudgeDowns(inserted, completed) ==
  IF RollingBack
    THEN Ends(IF completed = Absent THEN "ClockAfter" ELSE "IntegrityLost", begun,
              completed)
    ELSE IF inserted \notin {Nothing, want}
    THEN Again(Packet(tx.packet.downs, {}))
    ELSE IF Attempt1 /\ inserted = Nothing
    THEN Again(want)
    ELSE Ends(StatusOf(inserted, completed), begun, completed)

JudgeRaw(inserted, completed) ==
  \/ tx.policy \in {"down", "up"} /\ JudgeOnce(inserted, completed)
  \/ tx.policy = "up_retry" /\ JudgeUps(inserted, completed)
  \/ tx.policy = "down_retry" /\ JudgeDowns(inserted, completed)

Judge(inserted, completed) ==
  \/ tx.policy \in PacketPolicies /\ JudgePacket(inserted, completed)
  \/ tx.policy \in RawPolicies /\ JudgeRaw(inserted, completed)

Stamp ==
  /\ step = "stamp"
  /\ \E completed \in {now, Absent} : Judge(calls[Len(calls)].inserted, completed)
  /\ UNCHANGED <<tx, started, begun, calls, held, before, now>>

\* The clock fails before the call: nothing was inserted by this attempt.
SampleFails ==
  /\ step = "start"
  /\ \/ /\ tx.policy \in PacketPolicies
        /\ Ends(IF Attempt1 THEN "ClockBefore" ELSE "ClockAfter", Absent, Absent)
     \/ tx.policy \in RawPolicies /\ JudgeRaw(Nothing, Absent)
  /\ UNCHANGED <<tx, started, begun, calls, held, before, now>>

-----------------------------------------------------------------------------
SendNext ==
  \/ Tick
  \/ \E policy \in PacketPolicies \cup RawPolicies, packet \in Packets,
        cutoff \in Times \cup {Absent}, target \in Times :
       Begin(policy, packet, cutoff, target)
  \/ Sample \/ SampleFails \/ Call \/ Stamp

SendSpec == SendInit /\ [][SendNext]_sendVars

-----------------------------------------------------------------------------
\* The status tells what happened on the keyboard: a complete transaction did
\* the whole packet, and one that reports that nothing was sent pressed no key,
\* after whatever attempts (outcome.rs classify_send_status; the masks of
\* TrackedKeyState rest on it).
StatusTellsTheKeyboard ==
  step = "done" =>
    /\ outcome.status = "Complete" =>
         held = (before \ tx.packet.ups) \cup tx.packet.downs
    /\ outcome.status \in {"Rejected", "ZeroProgress", "DeadlineMissed", "ClockBefore"} =>
         held \subseteq before

\* A chord is never doubled: once a Down of a transaction was inserted, no later
\* call of it carries a Down (down_transaction.rs:10, packet.rs retry policy).
ChordIsNeverDoubled ==
  \A i, j \in DOMAIN calls :
    i < j /\ calls[i].inserted.downs # {} => calls[j].wanted.downs = {}

\* The evidence brackets the transaction: every SendInput of it lies between its
\* start and its completion, the latency the observer judges it by.
EvidenceBracketsTheSend ==
  step = "done" /\ outcome.completed # Absent /\ outcome.started # Absent =>
    \A i \in DOMAIN calls :
      outcome.started <= calls[i].at /\ calls[i].at <= outcome.completed

\* What a transaction reports is what it did, after whatever attempts: its status
\* tells what happened on the keyboard, its evidence brackets every call, and no
\* chord was pressed twice (packet.rs, down_transaction.rs:10).
SendTellsTheTruth ==
  StatusTellsTheKeyboard /\ EvidenceBracketsTheSend /\ ChordIsNeverDoubled
=============================================================================
