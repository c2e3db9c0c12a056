----------------------------- MODULE Coordinator -----------------------------
(***************************************************************************)
(* The runtime dispatch coordinator of sky_dispatch_core, driven the way   *)
(* the playback worker drives it: one plan is frozen per loop iteration,   *)
(* waited for, and then committed, missed or thrown away.                  *)
(*                                                                         *)
(* A packet that holds neither a Down nor an owned Up is what the source   *)
(* calls a stale packet.  Timestamps are playback ticks; pauses stop that  *)
(* timeline and are the business of PlaybackClock.  Operators whose names  *)
(* begin with Bug are mistakes the properties must catch; nothing uses     *)
(* them.                                                                   *)
(***************************************************************************)
EXTENDS RuntimeSchedule
LOCAL INSTANCE FiniteSetsExt

CONSTANTS
  Schedules,    (* the compiled schedules a session may be started with    *)
  MaxTick,      (* bound: the playback timeline is followed up to here     *)
  MaxSuspends   (* bound: suspensions (pause, focus restore) per session   *)

ASSUME CoordinatorAssumption ==
  /\ MaxTick \in Nat
  /\ MaxSuspends \in Nat
  /\ \A c \in Schedules : IsCompiled(c)

VARIABLES
  sched,      (* the schedule of this session                              *)
  now,        (* elapsed playback ticks                                    *)
  cursor,     (* index of the next packet                                  *)
  status,     (* the generation ledger                                     *)
  active,     (* generations that own their key slot                       *)
  pending,    (* active generations whose authored Up waits for its floor  *)
  owned,      (* generations whose authored Up intent is still theirs      *)
  plan,       (* the frozen plan of this loop iteration, or NoPlan         *)
  fault,      (* first error a coordinator call returned                   *)
  closed,     (* the worker loop has ended and cancelled what was left     *)
  suspends    (* number of suspensions so far                              *)

vars == <<sched, now, cursor, status, active, pending, owned, plan, fault,
          closed, suspends>>

NoPlan == [kind |-> "none"]
-----------------------------------------------------------------------------
(* When a deferred release becomes due. *)
Due(g) == DueTick(sched, g)

Floor(g) == FloorTick(sched, g)

Downs(p) == {g \in sched.gens : g.down = p}
OwnedUps(p) == {g \in owned : g.up = p}

AtPacket == cursor <= sched.len

(* Only unmatched Ups are left in the current packet. *)
AtStalePacket == AtPacket /\ Downs(cursor) = {} /\ OwnedUps(cursor) = {}

Finished ==
  /\ ~ AtPacket
  /\ active = {}
  /\ pending = {}
  /\ \A g \in sched.gens : status[g] \in Terminal

(* The worker loop is still turning over this schedule. *)
Running == ~ closed /\ fault = "none" /\ ~ Finished

(* Bug: a floor that falls exactly on the authored Up defers it. *)
BugImmediate == {g \in OwnedUps(cursor) : Floor(g) < sched.tick[cursor]}

(* Classification of the Ups of the current packet. *)
Immediate == {g \in OwnedUps(cursor) : Floor(g) <= sched.tick[cursor]}
Deferred == OwnedUps(cursor) \ Immediate

(* An authored Up whose generation does not own its slot. *)
OrphanUp == \E g \in OwnedUps(cursor) : g \notin active

(* A Down of this packet would press a key that must still be held. *)
PressBlocked ==
  \E h \in Downs(cursor) :
    \E g \in Deferred \cup {q \in pending : Due(q) > sched.tick[cursor]} :
      g.slot = h.slot

(* The pending releases of the earliest due boundary. *)
EarliestPending == {g \in pending : \A q \in pending : Due(g) <= Due(q)}

(* Bug: what is still pending after the last packet is never planned. *)
BugPendingFirst ==
  \E g \in EarliestPending : AtPacket /\ Due(g) < sched.tick[cursor]

(* A pending release comes before the next authored packet. *)
PendingFirst ==
  \E g \in EarliestPending : AtPacket => Due(g) < sched.tick[cursor]

(* Pending releases that share the authored timestamp. *)
Coalesced == {g \in EarliestPending : Due(g) = sched.tick[cursor]}
-----------------------------------------------------------------------------
Init ==
  /\ sched \in Schedules
  /\ now = 0
  /\ cursor = 1
  /\ status = [g \in sched.gens |-> "Scheduled"]
  /\ active = {}
  /\ pending = {}
  /\ owned = {g \in sched.gens : g.up # 0}
  /\ plan = NoPlan
  /\ fault = "none"
  /\ closed = FALSE
  /\ suspends = 0

(* Playback time passes; in particular between planning and committing. *)
Advance ==
  /\ Running
  /\ now < MaxTick
  /\ now' = now + 1
  /\ UNCHANGED <<sched, cursor, status, active, pending, owned, plan, fault,
                 closed, suspends>>

(* A packet of unmatched Ups is skipped at once, whatever the time. *)
CommitStale ==
  /\ Running
  /\ plan = NoPlan
  /\ AtStalePacket
  /\ cursor' = cursor + 1
  /\ UNCHANGED <<sched, now, status, active, pending, owned, plan, fault,
                 closed, suspends>>

-----------------------------------------------------------------------------
(* Planning freezes the identities that the commit will touch. *)
PlanReady == Running /\ plan = NoPlan /\ ~ AtStalePacket

PlanFault ==
  /\ PlanReady
  /\ AtPacket
  /\ OrphanUp \/ PressBlocked
  /\ fault' = IF OrphanUp THEN "invariant" ELSE "infeasible"
  /\ UNCHANGED <<sched, now, cursor, status, active, pending, owned, plan,
                 closed, suspends>>

Feasible == AtPacket => ~ OrphanUp /\ ~ PressBlocked

PendingPlan ==
  [kind    |-> "pending",
   target  |-> Due(CHOOSE g \in EarliestPending : TRUE),
   release |-> EarliestPending]

FramePlan ==
  [kind      |-> IF Immediate = {} /\ Downs(cursor) = {} /\ Coalesced = {}
                   THEN "metadata" ELSE "frame",
   target    |-> sched.tick[cursor],
   release   |-> Coalesced,
   immediate |-> Immediate,
   deferred  |-> Deferred,
   downs     |-> Downs(cursor)]

PlanPending ==
  /\ PlanReady
  /\ Feasible
  /\ PendingFirst
  /\ plan' = PendingPlan
  /\ UNCHANGED <<sched, now, cursor, status, active, pending, owned, fault,
                 closed, suspends>>

PlanFrame ==
  /\ PlanReady
  /\ AtPacket
  /\ Feasible
  /\ ~ PendingFirst
  /\ plan' = FramePlan
  /\ UNCHANGED <<sched, now, cursor, status, active, pending, owned, fault,
                 closed, suspends>>

(* An interrupt or a lease-only wake ends a wait before its target. *)
Replan ==
  /\ Running
  /\ plan # NoPlan
  /\ now < plan.target
  /\ plan' = NoPlan
  /\ UNCHANGED <<sched, now, cursor, status, active, pending, owned, fault,
                 closed, suspends>>

-----------------------------------------------------------------------------
(* The checks each commit repeats against the live ledger. *)
OwnsSlot(g) == g \in active /\ status[g] = "Active"

PendingMatches(R) ==
  \A g \in R : g \in pending /\ OwnsSlot(g) /\ Due(g) <= now

UpsMatch(imm, def, R) ==
  /\ \A g \in imm : OwnsSlot(g) /\ Floor(g) <= now
  /\ \A g \in def : g \in active /\ \A q \in pending \ R : q.slot # g.slot

SlotsFree(downs, gone) ==
  \A h \in downs :
    /\ status[h] = "Scheduled"
    /\ \A a \in active \ gone : a.slot # h.slot

(* One error return ends the session; the ledger keeps its last good state. *)
Refuse(why) ==
  /\ fault' = why
  /\ plan' = NoPlan
  /\ UNCHANGED <<sched, now, cursor, status, active, pending, owned, closed,
                 suspends>>

(* Bug: the authored Up of an expired press stays in the schedule. *)
BugSettle(gone, def, downs, outcome) ==
  /\ status' = [g \in sched.gens |->
                  IF g \in gone THEN "Released"
                  ELSE IF g \in downs THEN outcome ELSE status[g]]
  /\ active' = (active \ gone) \cup {h \in downs : outcome = "Active"}
  /\ pending' = (pending \ gone) \cup def
  /\ owned' = owned
  /\ plan' = NoPlan
  /\ UNCHANGED <<sched, now, fault, closed, suspends>>

(* Releases first, then Downs take the outcome of the physical boundary. *)
Settle(gone, def, downs, outcome) ==
  /\ status' = [g \in sched.gens |->
                  IF g \in gone THEN "Released"
                  ELSE IF g \in downs THEN outcome ELSE status[g]]
  /\ active' = (active \ gone) \cup {h \in downs : outcome = "Active"}
  /\ pending' = (pending \ gone) \cup def
  /\ owned' = owned \ {h \in downs : outcome # "Active"}
  /\ plan' = NoPlan
  /\ UNCHANGED <<sched, now, fault, closed, suspends>>

(* Bug: the wait returns before the target. *)
BugDueNow(kind) == Running /\ plan # NoPlan /\ plan.kind = kind

DueNow(kind) ==
  Running /\ plan # NoPlan /\ plan.kind = kind /\ plan.target <= now

CommitMetadata ==
  /\ DueNow("metadata")
  /\ IF UpsMatch(plan.immediate, plan.deferred, {})
       THEN /\ Settle({}, plan.deferred, {}, "Active")
            /\ cursor' = cursor + 1
       ELSE Refuse("invariant")

CommitPendingRelease ==
  /\ DueNow("pending")
  /\ IF PendingMatches(plan.release)
       THEN /\ Settle(plan.release, {}, {}, "Active")
            /\ cursor' = cursor
       ELSE Refuse("invariant")

FrameMatches ==
  LET gone == plan.release \cup plan.immediate IN
    /\ PendingMatches(plan.release)
    /\ UpsMatch(plan.immediate, plan.deferred, plan.release)
    /\ SlotsFree(plan.downs, gone)

(* Bug: part of a chord is activated, the rest is dropped. *)
BugCommitFrame ==
  /\ DueNow("frame")
  /\ FrameMatches
  /\ \E sent \in SUBSET plan.downs :
       /\ Settle(plan.release \cup plan.immediate, plan.deferred, sent, "Active")
       /\ cursor' = cursor + 1

(* The whole packet was inserted by one successful transaction. *)
CommitFrame ==
  /\ DueNow("frame")
  /\ IF FrameMatches
       THEN /\ Settle(plan.release \cup plan.immediate, plan.deferred,
                      plan.downs, "Active")
            /\ cursor' = cursor + 1
       ELSE Refuse("invariant")

(* The Down deadline passed unsent: the Ups go out alone, the chord expires. *)
MissFrame ==
  /\ DueNow("frame")
  /\ plan.downs # {}
  /\ plan.target < now
  /\ IF FrameMatches
       THEN /\ Settle(plan.release \cup plan.immediate, plan.deferred,
                      plan.downs, "DroppedExpired")
            /\ cursor' = cursor + 1
       ELSE Refuse("invariant")

-----------------------------------------------------------------------------
(* suspend_live_input: every key was released, and only live presses end. *)
CancelHeld ==
  /\ suspends < MaxSuspends
  /\ suspends' = suspends + 1
  /\ status' = [g \in sched.gens |->
                  IF status[g] = "Active" THEN "Cancelled" ELSE status[g]]
  /\ owned' = {g \in owned : status[g] # "Active"}
  /\ active' = {}
  /\ pending' = {}
  /\ UNCHANGED <<sched, now, cursor, fault, closed>>

(* The worker holds a missed packet whose keys it has just released. *)
Recovering == plan.kind = "missed"

(* Bug: the loop goes on with the plan it froze before the suspension. *)
BugSuspendPlan ==
  /\ Running
  /\ CancelHeld
  /\ plan' = plan

(* A pause, a focus restore or a gate: the frozen plan is thrown away. *)
Suspend ==
  /\ Running
  /\ ~ Recovering
  /\ CancelHeld
  /\ plan' = NoPlan

(* A gate that turns a missed packet away for the lost focus releases every
   key; the worker then recovers the packet with the plan it still holds. *)
SuspendMissed ==
  /\ DueNow("frame")
  /\ plan.downs # {}
  /\ plan.target < now
  /\ CancelHeld
  /\ plan' = [plan EXCEPT !.kind = "missed"]

(* The chord expires; Ups of the packet no longer have an owner. *)
RecoverSuspended ==
  /\ DueNow("missed")
  /\ IF FrameMatches
       THEN /\ Settle(plan.release \cup plan.immediate, plan.deferred,
                      plan.downs, "DroppedExpired")
            /\ cursor' = cursor + 1
       ELSE Refuse("suspended")

(* Quit, skip, panic, an error or the end of the song: finalize_worker. *)
Close ==
  /\ ~ closed
  /\ closed' = TRUE
  /\ status' = [g \in sched.gens |->
                  IF status[g] \in Terminal THEN status[g] ELSE "Cancelled"]
  /\ owned' = {g \in owned : status[g] \in Terminal}
  /\ active' = {}
  /\ pending' = {}
  /\ plan' = NoPlan
  /\ UNCHANGED <<sched, now, cursor, fault, suspends>>

Next ==
  \/ Advance
  \/ CommitStale
  \/ PlanFault
  \/ PlanPending
  \/ PlanFrame
  \/ Replan
  \/ CommitMetadata
  \/ CommitPendingRelease
  \/ CommitFrame
  \/ MissFrame
  \/ Suspend
  \/ SuspendMissed
  \/ RecoverSuspended
  \/ Close

Spec == Init /\ [][Next]_vars

(***************************************************************************)
(* The worker thread keeps running and time keeps passing: every planning  *)
(* and commit step that stays possible is taken.  Nothing obliges anyone   *)
(* to pause, to miss a deadline or to quit.                                *)
(***************************************************************************)
Fairness ==
  /\ WF_vars(Advance)
  /\ WF_vars(CommitStale \/ PlanFault \/ PlanPending \/ PlanFrame)
  /\ WF_vars(CommitMetadata \/ CommitPendingRelease \/ CommitFrame
               \/ RecoverSuspended)

FairSpec == Spec /\ Fairness
-----------------------------------------------------------------------------
(***************************************************************************)
(* The direct commits, with which the repository's tests and benchmarks    *)
(* drive the coordinator (feature test-support): they walk a frame or a    *)
(* compiled packet intent by intent against the live slot table, where the *)
(* worker's commits apply a token frozen before its wait.                  *)
(***************************************************************************)

(* A commit in progress: the slot table, the ledger and the verdict. *)
Begun ==
  [status |-> status, active |-> active, pending |-> pending, ok |-> TRUE]

(* One Up: its generation owns its slot, and its floor has been reached. *)
Lift(g, x) ==
  IF x.ok /\ g \in x.active /\ x.status[g] = "Active" /\ Floor(g) <= now
  THEN [x EXCEPT !.status[g] = "Released", !.active = @ \ {g}]
  ELSE [x EXCEPT !.ok = FALSE]

(* Bug: a packet's Up is taken before its floor. *)
BugLiftAll(ups, x) ==
  [x EXCEPT !.status = [g \in DOMAIN @ |-> IF g \in ups THEN "Released" ELSE @[g]],
            !.active = @ \ ups]

LiftAll(ups, x) == FoldSet(Lift, x, ups)

(* One Up that has to wait: a slot holds one pending release. *)
Defer(g, x) ==
  IF x.ok /\ g \in x.active /\ \A q \in x.pending : q.slot # g.slot
  THEN [x EXCEPT !.pending = @ \cup {g}]
  ELSE [x EXCEPT !.ok = FALSE]

(* One Down: its slot is free by now. *)
Press(h, x) ==
  IF x.ok /\ x.status[h] = "Scheduled" /\ \A a \in x.active : a.slot # h.slot
  THEN [x EXCEPT !.status[h] = "Active", !.active = @ \cup {h}]
  ELSE [x EXCEPT !.ok = FALSE]

(* validate_local_slot_masks: one owner per slot, pending releases are of owners. *)
MasksAgree(x) ==
  /\ x.pending \subseteq x.active
  /\ \A g, h \in x.active : g.slot = h.slot => g = h

Validated(x) == [x EXCEPT !.ok = @ /\ MasksAgree(x)]

(* Preparing again must give the frame that the caller holds. *)
StillPrepared(frame) ==
  /\ AtPacket /\ ~ AtStalePacket
  /\ FramePlan.target = frame.target
  /\ FramePlan.immediate = frame.immediate /\ FramePlan.deferred = frame.deferred
  /\ FramePlan.downs = frame.downs

(* commit_prepared_authored_frame_success *)
CommitFrameDirectly(frame) ==
  LET begun == [Begun EXCEPT !.ok = StillPrepared(frame)]
      lifted == LiftAll(frame.immediate, begun)
      deferred == FoldSet(Defer, lifted, frame.deferred)
  IN Validated(FoldSet(Press, deferred, frame.downs))

(* commit_packet_success: every owned Up of the packet is lifted now. *)
CommitPacketDirectly ==
  Validated(FoldSet(Press, LiftAll(OwnedUps(cursor), Begun), Downs(cursor)))

(* What CommitFrame makes of the plan. *)
Committed ==
  LET gone == plan.release \cup plan.immediate IN
  [status |-> [g \in sched.gens |->
                 IF g \in gone THEN "Released"
                 ELSE IF g \in plan.downs THEN "Active" ELSE status[g]],
   active |-> (active \ gone) \cup plan.downs,
   pending |-> (pending \ gone) \cup plan.deferred,
   ok |-> TRUE]

-----------------------------------------------------------------------------
PlanType ==
  \/ plan = NoPlan
  \/ /\ plan.kind = "pending"
     /\ plan = [kind |-> "pending", target |-> plan.target,
                release |-> plan.release]
     /\ plan.release \subseteq sched.gens
     /\ plan.target \in Nat
  \/ /\ plan.kind \in {"metadata", "frame", "missed"}
     /\ plan = [kind |-> plan.kind, target |-> plan.target,
                release |-> plan.release, immediate |-> plan.immediate,
                deferred |-> plan.deferred, downs |-> plan.downs]
     /\ plan.release \subseteq sched.gens
     /\ plan.immediate \subseteq sched.gens
     /\ plan.deferred \subseteq sched.gens
     /\ plan.downs \subseteq sched.gens
     /\ plan.target \in Nat

(* Every variable of the coordinator stays in its type. *)
TypeOK ==
  /\ IsCompiled(sched)
  /\ now \in Nat
  /\ cursor \in 1..(sched.len + 1)
  /\ status \in [sched.gens -> Status]
  /\ active \subseteq sched.gens
  /\ pending \subseteq sched.gens
  /\ owned \subseteq sched.gens
  /\ PlanType
  /\ fault \in {"none", "infeasible", "invariant", "suspended"}
  /\ closed \in BOOLEAN
  /\ suspends \in Nat

(***************************************************************************)
(* check_invariants: the ledger and the slot table agree exactly, a slot   *)
(* has one owner, and a pending release belongs to the owner of its slot,  *)
(* whatever order of commits, misses and suspensions led here.             *)
(***************************************************************************)
OwnershipAgrees ==
  /\ \A g \in sched.gens : g \in active <=> status[g] = "Active"
  /\ \A g, h \in active : g.slot = h.slot => g = h
  /\ pending \subseteq active

(***************************************************************************)
(* The cursor cuts the ledger in two: no press behind it is still waiting  *)
(* and no press ahead of it was already consumed, so no authored packet is *)
(* skipped or played twice across replans and suspensions.                 *)
(***************************************************************************)
CursorSplitsLedger ==
  \A g \in sched.gens :
    IF g.down < cursor THEN status[g] # "Scheduled"
    ELSE status[g] = "Scheduled" \/ (closed /\ status[g] = "Cancelled")

(***************************************************************************)
(* An authored Up still ahead of the cursor is owned exactly when its      *)
(* press is scheduled or held: a press that was missed or suspended never  *)
(* leaves an Up behind that could lift somebody else's key.                *)
(***************************************************************************)
FutureUpsAreLive ==
  \A g \in sched.gens : g.up >= cursor /\ g.up # 0 =>
    (g \in owned <=> status[g] \in {"Scheduled", "Active"})

(* A held press whose authored Up has gone by is waiting for its floor. *)
PassedUpsArePending ==
  \A g \in active : g.up # 0 /\ g.up < cursor => g \in pending

(***************************************************************************)
(* Freezing a plan is safe: outside the recovery of a packet that a gate   *)
(* suspended, no commit ever finds the ledger different from what its plan *)
(* was made from, and these error returns of the coordinator cannot be     *)
(* reached.                                                                *)
(***************************************************************************)
NoInvariantFault == fault # "invariant"

(***************************************************************************)
(* Admission is sufficient: with a schedule that passed the hold check, no *)
(* release is ever deferred and no packet is ever infeasible.              *)
(***************************************************************************)
AdmissionSuffices ==
  Admitted(sched) => fault # "infeasible" /\ pending = {}

(***************************************************************************)
(* No press is released before its minimum hold has run from the authored  *)
(* Down, nor before its authored Up.                                       *)
(***************************************************************************)
ReleaseNotEarly ==
  [][\A g \in sched.gens :
       status[g] = "Active" /\ status'[g] = "Released" =>
         /\ Floor(g) <= now
         /\ g.up # 0 /\ sched.tick[g.up] <= now]_vars

(***************************************************************************)
(* A chord is pressed or dropped as one: presses of one packet leave the   *)
(* scheduled state in the same step and for the same status.               *)
(***************************************************************************)
ChordIsAtomic ==
  [][\A g, h \in sched.gens :
       g.down = h.down /\ status[g] = "Scheduled" =>
         status[h] = "Scheduled" /\ status'[g] = status'[h]]_vars

(***************************************************************************)
(* The bookkeeping of the coordinator is consistent: slots, cursor, Up     *)
(* intents and pending releases all tell the story of the ledger, through  *)
(* every interleaving of plans, commits, misses and suspensions            *)
(* (cleanup.rs check_invariants, ownership.rs, authored.rs:408-557).       *)
(***************************************************************************)
LedgerIsConsistent ==
  OwnershipAgrees /\ CursorSplitsLedger /\ FutureUpsAreLive /\ PassedUpsArePending

(***************************************************************************)
(* What is played is what is written: no press is lifted early, and no     *)
(* chord is torn apart (authored.rs:805-1048, ownership.rs:87-156).        *)
(***************************************************************************)
PlayedAsWritten == ReleaseNotEarly /\ ChordIsAtomic

(***************************************************************************)
(* Whenever a frame without coalesced releases is due, the direct frame    *)
(* commit does exactly what the worker's frozen commit does, and so does   *)
(* the packet commit when nothing is deferred; with a deferred Up whose    *)
(* floor lies ahead the packet commit refuses instead of releasing early   *)
(* (commit_prepared_authored_frame_success, commit_packet_success).        *)
(***************************************************************************)
DirectCommitsAgree ==
  DueNow("frame") /\ plan.release = {} =>
    /\ CommitFrameDirectly(plan) = Committed
    /\ plan.deferred = {} => CommitPacketDirectly = Committed
    /\ (\E g \in plan.deferred : now < Floor(g)) => ~ CommitPacketDirectly.ok

(* The ledger does what GenerationLedger promises, step by step. *)
Ledger == INSTANCE GenerationLedger
            WITH sched <- sched, now <- now, status <- status

(***************************************************************************)
(* Refinement: hidden behind its slot table, pending queue and frozen      *)
(* plans, the coordinator consumes chords in authored order, exactly once  *)
(* and no earlier than authored, and holds one press per key.              *)
(***************************************************************************)
ImplementsLedger == Ledger!Spec

(* Nothing is left to plan: the cursor is at the end and no release waits. *)
OutOfWork == ~ AtPacket /\ pending = {}

(***************************************************************************)
(* The session always gets to the end of its schedule, to an error or to   *)
(* a stop, whatever deferrals, misses and suspensions intervene.           *)
(***************************************************************************)
ScheduleDrains == <>(OutOfWork \/ fault # "none" \/ closed)
=============================================================================
