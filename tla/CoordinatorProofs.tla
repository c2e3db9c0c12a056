-------------------------- MODULE CoordinatorProofs --------------------------
(***************************************************************************)
(* Proofs about Coordinator: its safety properties hold for every schedule *)
(* that the compiler can emit, every key set, every minimum hold and any   *)
(* number of suspensions, not only for the instances TLC enumerates.       *)
(***************************************************************************)
EXTENDS Coordinator, WellFoundedInduction, TLAPS

(* Releases wait only behind the cursor, and only for an authored Up. *)
PendingUpsPassed == \A g \in pending : g.up # 0 /\ g.up < cursor

OwnedHaveUps == \A g \in owned : g.up # 0

(***************************************************************************)
(* A frozen plan is what planning would produce now: nothing but time      *)
(* changes while a plan is frozen.  It is this fact that makes the checks  *)
(* of every commit succeed.  A plan that is being recovered from a         *)
(* suspension has only its presses left, and no key is held.               *)
(***************************************************************************)
PlanFresh ==
  /\ plan.kind = "pending" => EarliestPending # {} /\ plan = PendingPlan
  /\ plan.kind \in {"metadata", "frame"} =>
       AtPacket /\ Feasible /\ ~ PendingFirst /\ plan = FramePlan
  /\ Recovering => /\ AtPacket /\ plan.downs = Downs(cursor)
                   /\ active = {} /\ pending = {}
                   /\ sched.tick[cursor] <= now

(* The inductive invariant. *)
IInv ==
  /\ TypeOK
  /\ OwnershipAgrees
  /\ CursorSplitsLedger
  /\ FutureUpsAreLive
  /\ PassedUpsArePending
  /\ PendingUpsPassed
  /\ OwnedHaveUps
  /\ PlanFresh
  /\ NoInvariantFault
  /\ AdmissionSuffices
-----------------------------------------------------------------------------
(* A set of naturals that is not empty has a least element. *)
LEMMA LeastNat ==
  ASSUME NEW T \in SUBSET Nat, T # {}
  PROVE  \E m \in T : \A n \in T : m <= n
<1>1. IsWellFoundedOn(OpToRel(<, Nat), Nat)
  BY NatLessThanWellFounded
<1>2. \E m \in T : \A n \in T : ~ (<<n, m>> \in OpToRel(<, Nat))
  BY <1>1, WFMin
<1>3. \A m, n \in Nat : ~ (<<n, m>> \in OpToRel(<, Nat)) => m <= n
  BY DEF OpToRel
<1>4. QED
  BY <1>2, <1>3

(* The numbers a generation of a compiled schedule is made of. *)
LEMMA GenerationFacts ==
  ASSUME IsCompiled(sched), NEW g \in sched.gens
  PROVE  /\ sched.len \in Nat
         /\ g.down \in 1..sched.len
         /\ g.up \in 0..sched.len
         /\ g.slot \in Slots
         /\ g.up # 0 => g.down < g.up
         /\ sched.tick[g.down] \in Nat
         /\ Floor(g) \in Nat
         /\ g.up # 0 => /\ sched.tick[g.up] \in Nat
                        /\ Due(g) \in Nat
                        /\ Floor(g) <= Due(g)
                        /\ sched.tick[g.up] <= Due(g)
  BY MinHoldAssumption
     DEF IsCompiled, Generation, Floor, FloorTick, Due, DueTick

(* Whatever is pending, something pending is earliest. *)
LEMMA EarliestExists ==
  ASSUME IInv, NEW g \in pending
  PROVE  \E e \in EarliestPending : Due(e) <= Due(g)
<1> DEFINE T == {Due(q) : q \in pending}
<1>1. \A q \in pending : Due(q) \in Nat
  BY GenerationFacts DEF IInv, TypeOK, PendingUpsPassed
<1>2. T \in SUBSET Nat /\ T # {}
  BY <1>1
<1>3. PICK m \in T : \A n \in T : m <= n
  <2> HIDE DEF T
  <2>1. QED BY <1>2, LeastNat
<1>4. PICK e \in pending : Due(e) = m
  BY <1>3
<1>5. e \in EarliestPending
  BY <1>3, <1>4 DEF EarliestPending
<1>6. QED
  BY <1>3, <1>4, <1>5

(* With nothing due before the packet, a release due by then coalesces. *)
LEMMA DueByPacketCoalesces ==
  ASSUME IInv, AtPacket, ~ PendingFirst,
         NEW g \in pending, Due(g) <= sched.tick[cursor]
  PROVE  g \in Coalesced
<1>1. sched.tick[cursor] \in Nat
  BY DEF IInv, TypeOK, AtPacket, IsCompiled
<1>2. \A q \in pending : Due(q) \in Nat
  BY GenerationFacts DEF IInv, TypeOK, PendingUpsPassed
<1>3. \A e \in EarliestPending : sched.tick[cursor] <= Due(e)
  BY <1>1, <1>2 DEF PendingFirst, EarliestPending
<1>4. \A q \in pending : sched.tick[cursor] <= Due(q)
  BY <1>1, <1>2, <1>3, EarliestExists DEF EarliestPending
<1>5. QED
  BY <1>1, <1>2, <1>4 DEF Coalesced, EarliestPending

(* An owned Up at the cursor belongs to a press that holds its key. *)
LEMMA NoOrphanUps ==
  ASSUME IInv, AtPacket
  PROVE  /\ ~ OrphanUp
         /\ OwnedUps(cursor) \subseteq active
<1>1. ASSUME NEW g \in OwnedUps(cursor) PROVE g \in active
  <2>1. g \in sched.gens /\ g \in owned /\ g.up = cursor /\ g.up # 0
    BY <1>1 DEF OwnedUps, IInv, TypeOK, OwnedHaveUps
  <2>2. g.down < cursor
    BY <2>1, GenerationFacts DEF IInv, TypeOK
  <2>3. status[g] \in {"Scheduled", "Active"}
    BY <2>1 DEF IInv, FutureUpsAreLive, TypeOK, AtPacket
  <2>4. status[g] # "Scheduled"
    BY <2>1, <2>2 DEF IInv, CursorSplitsLedger
  <2>5. QED
    BY <2>1, <2>3, <2>4 DEF IInv, OwnershipAgrees
<1>2. QED
  BY <1>1 DEF OrphanUp

(* The releases that go out with the packet at the cursor. *)
Gone == Coalesced \cup Immediate

(***************************************************************************)
(* What a packet that passed planning looks like: its presses are waiting, *)
(* its releases own their keys, and every key it presses is free once its  *)
(* releases are out.                                                       *)
(***************************************************************************)
LEMMA FeasiblePacket ==
  ASSUME IInv, Running, AtPacket, Feasible, ~ PendingFirst
  PROVE  /\ Downs(cursor) \subseteq sched.gens
         /\ \A h \in Downs(cursor) : status[h] = "Scheduled" /\ h \notin active
         /\ Gone \subseteq active
         /\ Deferred \subseteq active
         /\ Deferred \cap Gone = {}
         /\ Deferred \cap pending = {}
         /\ \A h \in Downs(cursor) : \A a \in active \ Gone : a.slot # h.slot
<1> USE DEF IInv
<1>1. \A h \in Downs(cursor) : h \in sched.gens /\ status[h] = "Scheduled"
  BY GenerationFacts DEF Downs, Running, CursorSplitsLedger, TypeOK
<1>2. \A h \in Downs(cursor) : h \notin active
  BY <1>1 DEF OwnershipAgrees
<1>3. Coalesced \subseteq pending /\ pending \subseteq active
  BY DEF Coalesced, EarliestPending, OwnershipAgrees
<1>4. Immediate \subseteq active /\ Deferred \subseteq active
  BY NoOrphanUps DEF Immediate, Deferred
<1>5. \A g \in OwnedUps(cursor) : g \notin pending
  BY GenerationFacts DEF OwnedUps, PendingUpsPassed, TypeOK
<1>6. Deferred \cap Gone = {} /\ Deferred \cap pending = {}
  BY <1>3, <1>5 DEF Deferred, Gone
<1>7. ASSUME NEW h \in Downs(cursor), NEW a \in active \ Gone, a.slot = h.slot
      PROVE  FALSE
  <2>1. a \in sched.gens /\ status[a] = "Active" /\ a # h
    BY <1>7, <1>1 DEF OwnershipAgrees, TypeOK
  <2>2. a.down < cursor /\ h.down = cursor /\ cursor \in Nat
    BY <1>1, <2>1, GenerationFacts DEF CursorSplitsLedger, TypeOK, Downs
  <2>3. a.up # 0 /\ a.up <= cursor
    BY <1>1, <1>7, <2>1, <2>2 DEF TypeOK, IsCompiled
  <2>4. CASE a.up = cursor
    <3>1. a \in OwnedUps(cursor)
      BY <2>1, <2>3, <2>4 DEF FutureUpsAreLive, OwnedUps, TypeOK
    <3>2. a \in Deferred
      BY <3>1, <1>7 DEF Deferred, Gone
    <3>3. QED
      BY <3>2, <1>7 DEF Feasible, PressBlocked
  <2>5. CASE a.up < cursor
    <3>1. a \in pending
      BY <2>3, <2>5, <1>7 DEF PassedUpsArePending
    <3>2. Due(a) <= sched.tick[cursor]
      <4>1. Due(a) \in Nat /\ sched.tick[cursor] \in Nat
        BY <2>1, <2>3, GenerationFacts DEF TypeOK, AtPacket, IsCompiled
      <4>2. ~ (Due(a) > sched.tick[cursor])
        BY <3>1, <1>7 DEF Feasible, PressBlocked
      <4>3. QED
        BY <4>1, <4>2
    <3>3. QED
      BY <3>1, <3>2, <1>7, DueByPacketCoalesces DEF Gone
  <2>6. QED
    BY <2>1, <2>2, <2>3, <2>4, <2>5, GenerationFacts DEF TypeOK
<1>8. QED
  BY <1>1, <1>2, <1>3, <1>4, <1>6, <1>7 DEF Gone

(* No two presses of one packet share a key. *)
LEMMA ChordKeysDiffer ==
  ASSUME IInv, NEW g \in Downs(cursor), NEW h \in Downs(cursor), g.slot = h.slot
  PROVE  g = h
  BY DEF IInv, TypeOK, IsCompiled, Downs

-----------------------------------------------------------------------------
(* Consuming a feasible packet, whether its presses are sent or expire. *)
LEMMA ConsumePacket ==
  ASSUME IInv, Running, AtPacket, Feasible, ~ PendingFirst,
         NEW outcome \in {"Active", "DroppedExpired"},
         Settle(Gone, Deferred, Downs(cursor), outcome), cursor' = cursor + 1
  PROVE  IInv'
<1> DEFINE downs == Downs(cursor)
<1> USE DEF IInv
<1>1. /\ downs \subseteq sched.gens
      /\ \A h \in downs : status[h] = "Scheduled" /\ h \notin active
      /\ Gone \subseteq active
      /\ Deferred \subseteq active
      /\ Deferred \cap Gone = {}
      /\ \A h \in downs : \A a \in active \ Gone : a.slot # h.slot
  BY FeasiblePacket
<1>2. /\ sched' = sched /\ now' = now /\ fault' = fault /\ closed' = closed
      /\ suspends' = suspends /\ plan' = NoPlan
      /\ pending' = (pending \ Gone) \cup Deferred
      /\ active' = (active \ Gone) \cup {h \in downs : outcome = "Active"}
      /\ owned' = owned \ {h \in downs : outcome # "Active"}
      /\ status' = [g \in sched.gens |->
                      IF g \in Gone THEN "Released"
                      ELSE IF g \in downs THEN outcome ELSE status[g]]
  BY DEF Settle
<1>3. cursor \in Nat /\ sched.len \in Nat /\ cursor <= sched.len
  BY DEF TypeOK, AtPacket, IsCompiled
<1>4. active \subseteq sched.gens /\ pending \subseteq active /\ owned \subseteq sched.gens
  BY DEF TypeOK, OwnershipAgrees
<1> HIDE DEF downs
<1>5. TypeOK'
  <2>1. IsCompiled(sched)' /\ now' \in Nat /\ fault' \in {"none", "infeasible", "invariant", "suspended"}
        /\ closed' \in BOOLEAN /\ suspends' \in Nat
    BY <1>2 DEF TypeOK
  <2>2. cursor' \in 1..(sched'.len + 1)
    BY <1>2, <1>3 DEF TypeOK
  <2>3. status' \in [sched'.gens -> Status]
    BY <1>2 DEF TypeOK, Status
  <2>4. active' \subseteq sched'.gens /\ pending' \subseteq sched'.gens
        /\ owned' \subseteq sched'.gens
    BY <1>1, <1>2, <1>4
  <2>5. PlanType'
    BY <1>2 DEF PlanType, NoPlan
  <2>6. QED
    BY <2>1, <2>2, <2>3, <2>4, <2>5 DEF TypeOK
<1>6. OwnershipAgrees'
  <2>1. ASSUME NEW g \in sched.gens PROVE g \in active' <=> status'[g] = "Active"
    BY <1>1, <1>2 DEF OwnershipAgrees
  <2>2. ASSUME NEW g \in active', NEW h \in active', g.slot = h.slot PROVE g = h
    BY <1>1, <1>2, <2>2, ChordKeysDiffer DEF OwnershipAgrees, downs
  <2>3. pending' \subseteq active'
    BY <1>1, <1>2, <1>4
  <2>4. QED
    BY <1>2, <2>1, <2>2, <2>3 DEF OwnershipAgrees
<1>7. CursorSplitsLedger'
  <2>1. ASSUME NEW g \in sched.gens, g.down < cursor + 1
        PROVE  status'[g] # "Scheduled"
    <3>1. g.down \in Nat
      BY GenerationFacts DEF TypeOK
    <3>2. CASE g.down = cursor
      BY <3>2, <1>2 DEF downs, Downs
    <3>3. CASE g.down < cursor
      BY <3>3, <1>2 DEF CursorSplitsLedger
    <3>4. QED
      BY <3>1, <3>2, <3>3, <2>1, <1>3
  <2>2. ASSUME NEW g \in sched.gens, ~ (g.down < cursor + 1)
        PROVE  status'[g] = "Scheduled" \/ (closed' /\ status'[g] = "Cancelled")
    <3>1. g.down \in Nat /\ ~ (g.down < cursor) /\ g \notin downs
      BY <2>2, <1>3, GenerationFacts DEF TypeOK, downs, Downs
    <3>2. g \notin Gone
      BY <3>1, <1>1 DEF OwnershipAgrees, CursorSplitsLedger
    <3>3. QED
      BY <3>1, <3>2, <1>2 DEF CursorSplitsLedger
  <2>3. QED
    BY <1>2, <2>1, <2>2 DEF CursorSplitsLedger
<1>8. FutureUpsAreLive'
  <2>1. SUFFICES ASSUME NEW g \in sched.gens, g.up >= cursor + 1, g.up # 0
                 PROVE  g \in owned' <=> status'[g] \in {"Scheduled", "Active"}
    BY <1>2 DEF FutureUpsAreLive
  <2>2. g.up \in Nat /\ g.up >= cursor /\ g.up > cursor
    BY <2>1, <1>3, GenerationFacts DEF TypeOK
  <2>3. g \in owned <=> status[g] \in {"Scheduled", "Active"}
    BY <2>1, <2>2 DEF FutureUpsAreLive
  <2>4. g \notin Gone
    <3>1. g \notin pending
      BY <2>2, <1>3 DEF PendingUpsPassed
    <3>2. g \notin OwnedUps(cursor)
      BY <2>2, <1>3 DEF OwnedUps
    <3>3. QED
      BY <3>1, <3>2 DEF Gone, Coalesced, EarliestPending, Immediate
  <2>5. QED
    BY <1>1, <1>2, <2>3, <2>4
<1>9. PassedUpsArePending'
  <2>1. SUFFICES ASSUME NEW g \in active', g.up # 0, g.up < cursor + 1
                 PROVE  g \in pending'
    BY <1>2 DEF PassedUpsArePending
  <2>2. g \in sched.gens /\ g \notin downs
    <3>1. g \in sched.gens
      BY <1>1, <1>2, <1>4
    <3>2. g.down < g.up /\ g.down \in Nat /\ g.up \in Nat
      BY <2>1, <3>1, GenerationFacts DEF TypeOK
    <3>3. QED
      BY <2>1, <3>1, <3>2, <1>3 DEF downs, Downs
  <2>3. g \in active /\ g \notin Gone
    BY <1>2, <2>2
  <2>4. CASE g.up < cursor
    BY <2>1, <2>3, <2>4, <1>2 DEF PassedUpsArePending
  <2>5. CASE g.up = cursor
    <3>1. g \in OwnedUps(cursor)
      BY <2>1, <2>2, <2>3, <2>5, <1>3 DEF FutureUpsAreLive, OwnershipAgrees, OwnedUps
    <3>2. QED
      BY <3>1, <2>3, <1>2 DEF Deferred, Gone
  <2>6. QED
    BY <2>1, <2>2, <2>4, <2>5, <1>3, GenerationFacts DEF TypeOK
<1>10. PendingUpsPassed' /\ OwnedHaveUps'
  <2>1. \A g \in Deferred : g.up = cursor /\ g.up # 0
    BY DEF Deferred, OwnedUps, OwnedHaveUps
  <2>2. \A g \in pending : g.up \in Nat
    BY <1>4, GenerationFacts DEF TypeOK
  <2>3. \A g \in pending' : g.up # 0 /\ g.up < cursor + 1
    BY <1>2, <1>3, <2>1, <2>2 DEF PendingUpsPassed
  <2>4. QED
    BY <1>2, <2>3 DEF PendingUpsPassed, OwnedHaveUps
<1>11. PlanFresh' /\ NoInvariantFault'
  BY <1>2 DEF PlanFresh, NoPlan, Recovering, NoInvariantFault
<1>12. AdmissionSuffices'
  <2>1. ASSUME Admitted(sched) PROVE Deferred = {}
    <3>1. \A g \in OwnedUps(cursor) : Floor(g) <= sched.tick[cursor]
      BY <2>1, <1>4 DEF Admitted, OwnedUps, Floor, FloorTick, OwnedHaveUps
    <3>2. QED
      BY <3>1 DEF Deferred, Immediate
  <2>2. QED
    BY <1>2, <2>1 DEF AdmissionSuffices
<1>13. QED
  BY <1>5, <1>6, <1>7, <1>8, <1>9, <1>10, <1>11, <1>12

(* Sending the earliest pending releases on their own. *)
LEMMA SendPendingReleases ==
  ASSUME IInv, Running,
         Settle(EarliestPending, {}, {}, "Active"), cursor' = cursor
  PROVE  IInv'
<1> USE DEF IInv
<1>1. EarliestPending \subseteq pending /\ pending \subseteq active
      /\ active \subseteq sched.gens
  BY DEF EarliestPending, OwnershipAgrees, TypeOK
<1>2. /\ sched' = sched /\ now' = now /\ fault' = fault /\ closed' = closed
      /\ suspends' = suspends /\ plan' = NoPlan /\ owned' = owned
      /\ pending' = pending \ EarliestPending
      /\ active' = active \ EarliestPending
      /\ status' = [g \in sched.gens |->
                      IF g \in EarliestPending THEN "Released" ELSE status[g]]
  BY DEF Settle
<1> HIDE DEF EarliestPending
<1>3. TypeOK'
  <2>1. status' \in [sched'.gens -> Status]
    BY <1>2 DEF TypeOK, Status
  <2>2. PlanType'
    BY <1>2 DEF PlanType, NoPlan
  <2>3. QED
    BY <1>1, <1>2, <2>1, <2>2 DEF TypeOK
<1>4. OwnershipAgrees'
  BY <1>1, <1>2 DEF OwnershipAgrees
<1>5. CursorSplitsLedger'
  <2>1. \A g \in EarliestPending : g.down < cursor
    BY <1>1 DEF OwnershipAgrees, CursorSplitsLedger
  <2>2. QED
    BY <1>1, <1>2, <2>1 DEF CursorSplitsLedger
<1>6. FutureUpsAreLive'
  <2>1. \A g \in EarliestPending : ~ (g.up >= cursor)
    BY <1>1, GenerationFacts DEF PendingUpsPassed, TypeOK
  <2>2. QED
    BY <1>1, <1>2, <2>1 DEF FutureUpsAreLive
<1>7. PassedUpsArePending' /\ PendingUpsPassed' /\ OwnedHaveUps'
  BY <1>1, <1>2 DEF PassedUpsArePending, PendingUpsPassed, OwnedHaveUps
<1>8. PlanFresh' /\ NoInvariantFault' /\ AdmissionSuffices'
  BY <1>2 DEF PlanFresh, NoPlan, Recovering, NoInvariantFault, AdmissionSuffices
<1>9. QED
  BY <1>3, <1>4, <1>5, <1>6, <1>7, <1>8
-----------------------------------------------------------------------------
(* The checks of a commit succeed on a fresh plan whose target has passed. *)
LEMMA FreshFrameMatches ==
  ASSUME IInv, Running, AtPacket, Feasible, ~ PendingFirst,
         sched.tick[cursor] <= now
  PROVE  /\ PendingMatches(Coalesced)
         /\ UpsMatch(Immediate, Deferred, Coalesced)
         /\ UpsMatch(Immediate, Deferred, {})
         /\ SlotsFree(Downs(cursor), Gone)
<1> USE DEF IInv
<1>1. /\ \A h \in Downs(cursor) : status[h] = "Scheduled" /\ h \notin active
      /\ Gone \subseteq active
      /\ Deferred \subseteq active
      /\ Deferred \cap pending = {}
      /\ \A h \in Downs(cursor) : \A a \in active \ Gone : a.slot # h.slot
  BY FeasiblePacket
<1>2. \A g \in active : OwnsSlot(g) /\ g \in sched.gens
  BY DEF OwnershipAgrees, OwnsSlot, TypeOK
<1>3. sched.tick[cursor] \in Nat /\ now \in Nat
  BY DEF TypeOK, AtPacket, IsCompiled
<1>4. PendingMatches(Coalesced)
  BY <1>1, <1>2 DEF PendingMatches, Coalesced, EarliestPending, Gone
<1>5. \A g \in Immediate : OwnsSlot(g) /\ Floor(g) <= now
  <2>1. \A g \in Immediate : Floor(g) \in Nat /\ Floor(g) <= sched.tick[cursor]
    BY <1>1, <1>2, GenerationFacts DEF Immediate, Gone, TypeOK
  <2>2. QED
    BY <1>1, <1>2, <1>3, <2>1 DEF Gone
<1>6. \A g \in Deferred : \A q \in pending : q.slot # g.slot
  BY <1>1 DEF OwnershipAgrees
<1>7. QED
  BY <1>1, <1>4, <1>5, <1>6 DEF UpsMatch, SlotsFree

(* So do those of a pending release whose time has come. *)
LEMMA FreshPendingMatches ==
  ASSUME IInv, EarliestPending # {}, PendingPlan.target <= now
  PROVE  PendingMatches(EarliestPending)
<1> USE DEF IInv
<1>1. \A g \in EarliestPending : OwnsSlot(g) /\ g \in pending
  BY DEF EarliestPending, OwnershipAgrees, OwnsSlot, TypeOK
<1>2. \A g \in pending : Due(g) \in Nat
  BY GenerationFacts DEF TypeOK, PendingUpsPassed
<1>3. PICK e \in EarliestPending : PendingPlan.target = Due(e)
  BY DEF PendingPlan
<1>4. \A g \in EarliestPending : Due(g) <= Due(e)
  BY <1>3 DEF EarliestPending
<1>5. QED
  BY <1>1, <1>2, <1>3, <1>4 DEF PendingMatches, EarliestPending, TypeOK
-----------------------------------------------------------------------------
(* The clock and the plan do not enter into what planning computes. *)
LEMMA PlanningUnchanged ==
  ASSUME UNCHANGED <<sched, cursor, active, pending, owned>>
  PROVE  /\ EarliestPending' = EarliestPending
         /\ AtPacket' = AtPacket
         /\ PendingFirst' = PendingFirst
         /\ OrphanUp' = OrphanUp
         /\ PressBlocked' = PressBlocked
         /\ Feasible' = Feasible
         /\ PendingPlan' = PendingPlan
         /\ FramePlan' = FramePlan
         /\ Downs(cursor)' = Downs(cursor)
<1>1. EarliestPending' = EarliestPending /\ AtPacket' = AtPacket
  BY DEF EarliestPending, AtPacket, Due, DueTick, FloorTick
<1>2. /\ Immediate' = Immediate /\ Deferred' = Deferred
      /\ Downs(cursor)' = Downs(cursor) /\ Coalesced' = Coalesced
  BY <1>1 DEF Immediate, Deferred, OwnedUps, Downs, Coalesced, Floor, FloorTick,
              Due, DueTick
<1>3. PendingFirst' = PendingFirst /\ PendingPlan' = PendingPlan
  BY <1>1 DEF PendingFirst, PendingPlan, Due, DueTick, FloorTick
<1>4. OrphanUp' = OrphanUp
  BY DEF OrphanUp, OwnedUps
<1>5. PressBlocked' = PressBlocked
  BY <1>2 DEF PressBlocked, Due, DueTick, FloorTick
<1>6. Feasible' = Feasible
  BY <1>1, <1>4, <1>5 DEF Feasible
<1>7. FramePlan' = FramePlan
  BY <1>2 DEF FramePlan
<1>8. QED
  BY <1>1, <1>2, <1>3, <1>4, <1>5, <1>6, <1>7

(* A step that leaves the ledger, the tables and the cursor alone. *)
LEMMA LedgerUntouched ==
  ASSUME IInv,
         UNCHANGED <<sched, cursor, status, active, pending, owned, closed>>,
         now' \in Nat, suspends' = suspends,
         fault' \in {"none", "infeasible", "suspended"},
         Admitted(sched) => fault' # "infeasible",
         PlanType', PlanFresh'
  PROVE  IInv'
<1> USE DEF IInv
<1>1. TypeOK' /\ OwnershipAgrees'
  BY DEF TypeOK, OwnershipAgrees
<1>2. CursorSplitsLedger' /\ FutureUpsAreLive' /\ PassedUpsArePending'
  BY DEF CursorSplitsLedger, FutureUpsAreLive, PassedUpsArePending
<1>3. PendingUpsPassed' /\ OwnedHaveUps' /\ NoInvariantFault' /\ AdmissionSuffices'
  BY DEF PendingUpsPassed, OwnedHaveUps, NoInvariantFault, AdmissionSuffices
<1>4. QED
  BY <1>1, <1>2, <1>3

(* The initial state satisfies the inductive invariant. *)
LEMMA IInvInit == Init => IInv
<1> SUFFICES ASSUME Init PROVE IInv
  OBVIOUS
<1> USE DEF Init
<1>0. IsCompiled(sched)
  BY CoordinatorAssumption
<1>1. TypeOK
  <2>1. cursor \in 1..(sched.len + 1)
    BY <1>0 DEF IsCompiled
  <2>2. PlanType
    BY DEF PlanType
  <2>3. QED
    BY <1>0, <2>1, <2>2 DEF TypeOK, Status
<1>2. OwnershipAgrees /\ PassedUpsArePending /\ PendingUpsPassed
  BY DEF OwnershipAgrees, PassedUpsArePending, PendingUpsPassed
<1>3. CursorSplitsLedger /\ FutureUpsAreLive /\ OwnedHaveUps
  BY <1>0, GenerationFacts DEF CursorSplitsLedger, FutureUpsAreLive, OwnedHaveUps
<1>4. PlanFresh /\ NoInvariantFault /\ AdmissionSuffices
  BY DEF PlanFresh, NoPlan, Recovering, NoInvariantFault, AdmissionSuffices
<1>5. QED
  BY <1>1, <1>2, <1>3, <1>4 DEF IInv

(* Freezing a plan, or failing to, keeps the inductive invariant. *)
LEMMA PlanningKeepsIInv ==
  ASSUME IInv, PlanFault \/ PlanPending \/ PlanFrame
  PROVE  IInv'
<1> USE DEF IInv
<1>1. UNCHANGED <<sched, now, cursor, status, active, pending, owned, closed, suspends>>
  BY DEF PlanFault, PlanPending, PlanFrame
<1>2. now' \in Nat /\ fault = "none"
  BY <1>1 DEF TypeOK, PlanFault, PlanPending, PlanFrame, PlanReady, Running
<1>3. CASE PlanFault
  <2>1. fault' = "infeasible" /\ PressBlocked /\ plan' = NoPlan
    BY <1>3, NoOrphanUps DEF PlanFault, PlanReady
  <2>2. ~ Admitted(sched)
    <3>1. SUFFICES ASSUME Admitted(sched) PROVE FALSE
      OBVIOUS
    <3>2. pending = {} /\ Deferred # {}
      BY <2>1, <3>1 DEF AdmissionSuffices, PressBlocked
    <3>3. PICK g \in OwnedUps(cursor) : ~ (Floor(g) <= sched.tick[cursor])
      BY <3>2 DEF Deferred, Immediate
    <3>4. QED
      BY <3>1, <3>3 DEF Admitted, OwnedUps, Floor, FloorTick, OwnedHaveUps, TypeOK
  <2>3. PlanType' /\ PlanFresh'
    BY <2>1 DEF PlanType, PlanFresh, NoPlan, Recovering
  <2>4. QED
    BY <1>1, <1>2, <2>1, <2>2, <2>3, LedgerUntouched
<1>4. CASE PlanPending
  <2>1. fault' = fault /\ plan' = PendingPlan /\ EarliestPending # {}
    BY <1>4 DEF PlanPending, PendingFirst
  <2>2. PlanType'
    <3>1. PICK e \in EarliestPending : PendingPlan.target = Due(e)
      BY <2>1 DEF PendingPlan
    <3>2. Due(e) \in Nat /\ EarliestPending \subseteq sched.gens
      BY <3>1, GenerationFacts DEF EarliestPending, TypeOK, PendingUpsPassed
    <3>3. QED
      BY <1>1, <2>1, <3>1, <3>2 DEF PlanType, PendingPlan
  <2>3. PlanFresh'
    BY <1>1, <2>1, PlanningUnchanged DEF PlanFresh, PendingPlan, Recovering
  <2>4. QED
    BY <1>1, <1>2, <2>1, <2>2, <2>3, LedgerUntouched
<1>5. CASE PlanFrame
  <2>1. /\ fault' = fault /\ plan' = FramePlan
        /\ AtPacket /\ Feasible /\ ~ PendingFirst
    BY <1>5 DEF PlanFrame
  <2>2. PlanType'
    <3>1. sched.tick[cursor] \in Nat
      BY <2>1 DEF TypeOK, AtPacket, IsCompiled
    <3>2. /\ Coalesced \subseteq sched.gens /\ Immediate \subseteq sched.gens
          /\ Deferred \subseteq sched.gens /\ Downs(cursor) \subseteq sched.gens
      BY DEF Coalesced, EarliestPending, Immediate, Deferred, OwnedUps, Downs, TypeOK
    <3>3. QED
      BY <1>1, <2>1, <3>1, <3>2 DEF PlanType, FramePlan
  <2>3. PlanFresh'
    BY <1>1, <2>1, PlanningUnchanged DEF PlanFresh, FramePlan, Recovering
  <2>4. QED
    BY <1>1, <1>2, <2>1, <2>2, <2>3, LedgerUntouched
<1>6. QED
  BY <1>3, <1>4, <1>5

(* Committing a plan whose target has passed keeps it too. *)
LEMMA CommitKeepsIInv ==
  ASSUME IInv,
         CommitMetadata \/ CommitPendingRelease \/ CommitFrame \/ MissFrame
  PROVE  IInv'
<1> USE DEF IInv
<1>1. CASE CommitPendingRelease
  <2>1. /\ Running /\ plan = PendingPlan /\ EarliestPending # {}
        /\ PendingPlan.target <= now /\ plan.release = EarliestPending
    BY <1>1 DEF CommitPendingRelease, DueNow, PlanFresh, PendingPlan
  <2>2. Settle(EarliestPending, {}, {}, "Active") /\ cursor' = cursor
    BY <1>1, <2>1, FreshPendingMatches DEF CommitPendingRelease
  <2>3. QED
    BY <2>1, <2>2, SendPendingReleases
<1>2. ASSUME DueNow("metadata") \/ DueNow("frame")
      PROVE  /\ Running /\ AtPacket /\ Feasible /\ ~ PendingFirst
             /\ plan = FramePlan /\ sched.tick[cursor] <= now
             /\ plan.release = Coalesced /\ plan.immediate = Immediate
             /\ plan.deferred = Deferred /\ plan.downs = Downs(cursor)
  BY <1>2 DEF DueNow, PlanFresh, FramePlan
<1>3. CASE CommitMetadata
  <2>1. DueNow("metadata")
    BY <1>3 DEF CommitMetadata
  <2>2. Gone = {} /\ Downs(cursor) = {} /\ Coalesced = {}
    BY <1>2, <2>1 DEF DueNow, FramePlan, Gone
  <2>3. Settle({}, Deferred, {}, "Active") /\ cursor' = cursor + 1
    BY <1>2, <1>3, <2>1, FreshFrameMatches DEF CommitMetadata
  <2>4. QED
    BY <1>2, <2>1, <2>2, <2>3, ConsumePacket
<1>4. ASSUME DueNow("frame") PROVE FrameMatches
  BY <1>2, <1>4, FreshFrameMatches DEF FrameMatches, Gone
<1>5. CASE CommitFrame
  <2>1. Settle(Gone, Deferred, Downs(cursor), "Active") /\ cursor' = cursor + 1
    BY <1>2, <1>4, <1>5 DEF CommitFrame, Gone
  <2>2. QED
    BY <1>2, <1>5, <2>1, ConsumePacket DEF CommitFrame
<1>6. CASE MissFrame
  <2>1. Settle(Gone, Deferred, Downs(cursor), "DroppedExpired") /\ cursor' = cursor + 1
    BY <1>2, <1>4, <1>6 DEF MissFrame, Gone
  <2>2. QED
    BY <1>2, <1>6, <2>1, ConsumePacket DEF MissFrame
<1>7. QED
  BY <1>1, <1>3, <1>5, <1>6

(* A packet of unmatched Ups moves nothing but the cursor. *)
LEMMA StaleKeepsIInv ==
  ASSUME IInv, CommitStale
  PROVE  IInv'
<1> USE DEF IInv
<1>1. /\ UNCHANGED <<sched, now, status, active, pending, owned, plan, fault,
                     closed, suspends>>
      /\ cursor' = cursor + 1 /\ plan = NoPlan
      /\ cursor \in Nat /\ sched.len \in Nat /\ cursor <= sched.len
      /\ Downs(cursor) = {} /\ OwnedUps(cursor) = {}
  BY DEF CommitStale, AtStalePacket, AtPacket, TypeOK, IsCompiled
<1>2. \A g \in sched.gens : g.down \in Nat /\ g.up \in Nat /\ g.down # cursor
  BY <1>1, GenerationFacts DEF TypeOK, Downs
<1>3. TypeOK'
  BY <1>1 DEF TypeOK, PlanType, NoPlan
<1>4. OwnershipAgrees' /\ OwnedHaveUps' /\ NoInvariantFault' /\ AdmissionSuffices'
  BY <1>1 DEF OwnershipAgrees, OwnedHaveUps, NoInvariantFault, AdmissionSuffices
<1>5. CursorSplitsLedger'
  BY <1>1, <1>2 DEF CursorSplitsLedger
<1>6. FutureUpsAreLive'
  BY <1>1, <1>2 DEF FutureUpsAreLive
<1>7. PassedUpsArePending'
  <2>1. SUFFICES ASSUME NEW g \in active, g.up # 0, g.up < cursor + 1
                 PROVE  g \in pending
    BY <1>1 DEF PassedUpsArePending
  <2>2. g \in sched.gens /\ status[g] = "Active"
    BY DEF OwnershipAgrees, TypeOK
  <2>3. g.up # cursor
    BY <1>1, <2>1, <2>2 DEF FutureUpsAreLive, OwnedUps
  <2>4. QED
    BY <1>1, <1>2, <2>1, <2>2, <2>3 DEF PassedUpsArePending
<1>8. PendingUpsPassed' /\ PlanFresh'
  BY <1>1, <1>2 DEF PendingUpsPassed, PlanFresh, NoPlan, Recovering, TypeOK
<1>9. QED
  BY <1>3, <1>4, <1>5, <1>6, <1>7, <1>8

(* Suspending and closing both end every press they find held. *)
LEMMA ReleaseAllKeepsIInv ==
  ASSUME IInv, Suspend \/ SuspendMissed \/ Close
  PROVE  IInv'
<1> USE DEF IInv
<1>1. /\ sched' = sched /\ now' = now /\ cursor' = cursor /\ fault' = fault
      /\ active' = {} /\ pending' = {} /\ suspends' \in Nat
  BY DEF Suspend, SuspendMissed, CancelHeld, Close, TypeOK
<1>2. PlanType' /\ PlanFresh'
  <2>1. CASE Suspend \/ Close
    BY <1>1, <2>1 DEF Suspend, Close, PlanType, PlanFresh, NoPlan, Recovering
  <2>2. CASE SuspendMissed
    <3>1. /\ plan.kind = "frame" /\ plan.target <= now /\ plan = FramePlan
          /\ AtPacket /\ plan' = [plan EXCEPT !.kind = "missed"]
      BY <2>2 DEF SuspendMissed, DueNow, PlanFresh
    <3>2. PlanType'
      <4>1. /\ plan'.kind = "missed" /\ plan'.release = plan.release
            /\ plan'.immediate = plan.immediate /\ plan'.downs = plan.downs
            /\ plan'.deferred = plan.deferred /\ plan'.target = plan.target
            /\ plan' = [kind |-> "missed", target |-> plan.target,
                        release |-> plan.release, immediate |-> plan.immediate,
                        deferred |-> plan.deferred, downs |-> plan.downs]
        BY <3>1 DEF FramePlan
      <4>2. /\ plan.release \subseteq sched.gens /\ plan.target \in Nat
            /\ plan.immediate \subseteq sched.gens
            /\ plan.deferred \subseteq sched.gens
            /\ plan.downs \subseteq sched.gens
        BY <3>1 DEF TypeOK, PlanType, NoPlan
      <4>3. QED
        BY <1>1, <4>1, <4>2 DEF PlanType
    <3>3. /\ plan'.kind = "missed" /\ plan'.downs = Downs(cursor)
          /\ sched.tick[cursor] <= now
      BY <3>1 DEF FramePlan
    <3>4. AtPacket' /\ Downs(cursor)' = Downs(cursor)
      BY <1>1, <3>1 DEF AtPacket, Downs
    <3>5. PlanFresh'
      BY <1>1, <3>3, <3>4 DEF PlanFresh, Recovering
    <3>6. QED
      BY <3>2, <3>5
  <2>3. QED
    BY <2>1, <2>2
<1>3. CASE Suspend \/ SuspendMissed
  <2>1. /\ closed' = closed /\ ~ closed
        /\ status' = [g \in sched.gens |->
                        IF status[g] = "Active" THEN "Cancelled" ELSE status[g]]
        /\ owned' = {g \in owned : status[g] # "Active"}
    BY <1>3 DEF Suspend, SuspendMissed, CancelHeld, DueNow, Running
  <2>2. TypeOK'
    <3>1. status' \in [sched'.gens -> Status]
      BY <1>1, <2>1 DEF TypeOK, Status
    <3>2. QED
      BY <1>1, <1>2, <2>1, <3>1 DEF TypeOK
  <2>3. OwnershipAgrees' /\ CursorSplitsLedger'
    BY <1>1, <2>1 DEF OwnershipAgrees, CursorSplitsLedger, TypeOK
  <2>4. FutureUpsAreLive' /\ OwnedHaveUps'
    BY <1>1, <2>1 DEF FutureUpsAreLive, OwnedHaveUps
  <2>5. QED
    BY <1>1, <1>2, <2>2, <2>3, <2>4
       DEF PassedUpsArePending, PendingUpsPassed, NoInvariantFault,
           AdmissionSuffices
<1>4. CASE Close
  <2>1. /\ closed' = TRUE
        /\ status' = [g \in sched.gens |->
                        IF status[g] \in Terminal THEN status[g] ELSE "Cancelled"]
        /\ owned' = {g \in owned : status[g] \in Terminal}
    BY <1>4 DEF Close
  <2>2. TypeOK'
    <3>1. status' \in [sched'.gens -> Status]
      BY <1>1, <2>1 DEF TypeOK, Status
    <3>2. QED
      BY <1>1, <1>2, <2>1, <3>1 DEF TypeOK
  <2>3. OwnershipAgrees' /\ CursorSplitsLedger'
    BY <1>1, <2>1 DEF OwnershipAgrees, CursorSplitsLedger, TypeOK, Terminal
  <2>4. FutureUpsAreLive' /\ OwnedHaveUps'
    BY <1>1, <2>1 DEF FutureUpsAreLive, OwnedHaveUps, Terminal
  <2>5. QED
    BY <1>1, <1>2, <2>2, <2>3, <2>4
       DEF PassedUpsArePending, PendingUpsPassed, NoInvariantFault,
           AdmissionSuffices
<1>5. QED
  BY <1>3, <1>4

(***************************************************************************)
(* With no key held, the packet at the cursor has no release left, so      *)
(* recovering a suspended packet consumes it or is refused.                *)
(***************************************************************************)
LEMMA RecoveryConsumes ==
  ASSUME IInv, RecoverSuspended
  PROVE  \/ /\ AtPacket /\ Feasible /\ ~ PendingFirst
            /\ sched.tick[cursor] <= now
            /\ Settle(Gone, Deferred, Downs(cursor), "DroppedExpired")
            /\ cursor' = cursor + 1
         \/ Refuse("suspended")
<1> USE DEF IInv
<1>1. /\ Running /\ AtPacket /\ plan.downs = Downs(cursor)
      /\ active = {} /\ pending = {} /\ sched.tick[cursor] <= now
  BY DEF RecoverSuspended, DueNow, PlanFresh, Recovering
<1>2. OwnedUps(cursor) = {}
  <2>1. SUFFICES ASSUME NEW g \in OwnedUps(cursor) PROVE FALSE
    OBVIOUS
  <2>2. g \in sched.gens /\ g.up = cursor /\ g.up # 0 /\ g \in owned
    BY DEF OwnedUps, OwnedHaveUps, TypeOK
  <2>3. cursor \in Nat /\ g.down < cursor
    BY <2>2, GenerationFacts DEF TypeOK
  <2>4. status[g] \in {"Scheduled", "Active"}
    BY <2>2, <2>3 DEF FutureUpsAreLive
  <2>5. QED
    BY <1>1, <2>2, <2>3, <2>4 DEF CursorSplitsLedger, OwnershipAgrees
<1>3. EarliestPending = {} /\ Immediate = {} /\ Deferred = {} /\ Gone = {}
  BY <1>1, <1>2 DEF EarliestPending, Immediate, Deferred, Gone, Coalesced
<1>4. Feasible /\ ~ PendingFirst
  BY <1>1, <1>2, <1>3 DEF Feasible, PendingFirst, OrphanUp, PressBlocked
<1>5. CASE FrameMatches
  <2>1. plan.release = {} /\ plan.immediate = {} /\ plan.deferred = {}
    <3>1. /\ \A g \in plan.release : g \in {}
          /\ \A g \in plan.immediate : g \in {}
          /\ \A g \in plan.deferred : g \in {}
      BY <1>1, <1>5 DEF FrameMatches, PendingMatches, UpsMatch, OwnsSlot
    <3>2. plan.release = {}
      BY <3>1
    <3>3. plan.immediate = {} /\ plan.deferred = {}
      BY <3>1
    <3>4. QED
      BY <3>2, <3>3
  <2>2. QED
    BY <1>1, <1>3, <1>4, <1>5, <2>1 DEF RecoverSuspended
<1>6. CASE ~ FrameMatches
  BY <1>6 DEF RecoverSuspended
<1>7. QED
  BY <1>5, <1>6

(* Whichever it is, the inductive invariant is kept. *)
LEMMA RecoveryKeepsIInv ==
  ASSUME IInv, RecoverSuspended
  PROVE  IInv'
<1>1. Running
  BY DEF RecoverSuspended, DueNow
<1>2. CASE Refuse("suspended")
  <2>1. /\ UNCHANGED <<sched, now, cursor, status, active, pending, owned,
                       closed, suspends>>
        /\ fault' = "suspended" /\ plan' = NoPlan
    BY <1>2 DEF Refuse
  <2>2. PlanType' /\ PlanFresh' /\ now' \in Nat
    BY <2>1 DEF PlanType, PlanFresh, NoPlan, Recovering, IInv, TypeOK
  <2>3. QED
    BY <2>1, <2>2, LedgerUntouched
<1>3. QED
  BY <1>1, <1>2, RecoveryConsumes, ConsumePacket

(* Every step keeps the inductive invariant. *)
LEMMA IInvNext == IInv /\ [Next]_vars => IInv'
<1> SUFFICES ASSUME IInv, [Next]_vars PROVE IInv'
  OBVIOUS
<1>1. CASE Advance \/ Replan \/ UNCHANGED vars
  <2>1. /\ UNCHANGED <<sched, cursor, status, active, pending, owned, closed,
                       suspends, fault>>
        /\ now \in Nat /\ now' \in Nat /\ now <= now'
        /\ plan' \in {plan, NoPlan}
    BY <1>1 DEF Advance, Replan, vars, IInv, TypeOK
  <2>2. PlanType'
    BY <2>1 DEF IInv, TypeOK, PlanType, NoPlan
  <2>3. PlanFresh'
    <3>1. CASE plan' = NoPlan
      BY <3>1 DEF PlanFresh, NoPlan, Recovering
    <3>2. CASE plan' = plan /\ Recovering
      <4>1. sched.tick[cursor] \in Nat
        BY <3>2 DEF IInv, PlanFresh, TypeOK, AtPacket, IsCompiled
      <4>2. /\ AtPacket /\ plan.downs = Downs(cursor)
            /\ active = {} /\ pending = {} /\ sched.tick[cursor] <= now
            /\ plan.kind = "missed"
        BY <3>2 DEF IInv, PlanFresh, Recovering
      <4>3. sched'.tick[cursor'] <= now'
        BY <2>1, <4>1, <4>2
      <4>4. QED
        BY <2>1, <3>2, <4>2, <4>3, PlanningUnchanged DEF PlanFresh, Recovering
    <3>3. CASE plan' = plan /\ ~ Recovering
      BY <2>1, <3>3, PlanningUnchanged DEF IInv, PlanFresh, Recovering
    <3>4. QED
      BY <2>1, <3>1, <3>2, <3>3
  <2>4. QED
    BY <2>1, <2>2, <2>3, LedgerUntouched
       DEF IInv, TypeOK, NoInvariantFault, AdmissionSuffices
<1>2. QED
  BY <1>1, PlanningKeepsIInv, CommitKeepsIInv, StaleKeepsIInv,
     ReleaseAllKeepsIInv, RecoveryKeepsIInv DEF Next
-----------------------------------------------------------------------------
(* The inductive invariant holds in every reachable state. *)
THEOREM Invariance == Spec => []IInv
<1>1. QED
  BY IInvInit, IInvNext, PTL DEF Spec

(* Every variable keeps its type, whatever schedule is played. *)
THEOREM TypeCorrect == Spec => []TypeOK
<1>1. IInv => TypeOK
  BY DEF IInv
<1>2. QED
  BY <1>1, Invariance, PTL

(* The ledger and the slot table agree and each key has one holder. *)
THEOREM OwnershipSafe == Spec => []OwnershipAgrees
<1>1. IInv => OwnershipAgrees
  BY DEF IInv
<1>2. QED
  BY <1>1, Invariance, PTL

(* No authored packet is skipped or played twice. *)
THEOREM CursorSafe == Spec => []CursorSplitsLedger
<1>1. IInv => CursorSplitsLedger
  BY DEF IInv
<1>2. QED
  BY <1>1, Invariance, PTL

(* A missed or suspended press leaves no authored Up behind. *)
THEOREM NoLeftoverUps == Spec => []FutureUpsAreLive
<1>1. IInv => FutureUpsAreLive
  BY DEF IInv
<1>2. QED
  BY <1>1, Invariance, PTL

(* Slots, cursor, Up intents and pending releases agree with the ledger. *)
THEOREM LedgerStaysConsistent == Spec => []LedgerIsConsistent
<1>1. IInv => LedgerIsConsistent
  BY DEF IInv, LedgerIsConsistent
<1>2. QED
  BY <1>1, Invariance, PTL

(* Committing a frozen plan never finds the ledger changed under it. *)
THEOREM FrozenPlansAreSafe == Spec => []NoInvariantFault
<1>1. IInv => NoInvariantFault
  BY DEF IInv
<1>2. QED
  BY <1>1, Invariance, PTL

(* A schedule that passed admission never defers and never gets stuck. *)
THEOREM AdmissionIsSufficient == Spec => []AdmissionSuffices
<1>1. IInv => AdmissionSuffices
  BY DEF IInv
<1>2. QED
  BY <1>1, Invariance, PTL
-----------------------------------------------------------------------------
(* A feasible packet is consumed, at or after its tick. *)
Consumes ==
  /\ Running /\ AtPacket /\ Feasible /\ ~ PendingFirst
  /\ sched.tick[cursor] <= now
  /\ \E outcome \in {"Active", "DroppedExpired"} :
       Settle(Gone, Deferred, Downs(cursor), outcome)

(* The earliest pending releases are sent. *)
SendsPending ==
  /\ PendingMatches(EarliestPending)
  /\ Settle(EarliestPending, {}, {}, "Active")

(***************************************************************************)
(* Every step of the coordinator falls in one of five classes: the ledger  *)
(* stands still; a feasible packet is consumed at or after its tick; the   *)
(* earliest pending releases are sent at or after their due tick; held     *)
(* presses are cancelled; everything live is cancelled.                    *)
(***************************************************************************)
LEMMA StepClasses ==
  ASSUME IInv, [Next]_vars
  PROVE  \/ UNCHANGED <<sched, status>> /\ (now' = now \/ now' = now + 1)
         \/ Consumes
         \/ SendsPending
         \/ CancelHeld
         \/ Close
<1> USE DEF IInv
<1>1. CASE UNCHANGED vars \/ Advance \/ CommitStale \/ PlanFault \/ PlanPending
           \/ PlanFrame \/ Replan
  BY <1>1 DEF vars, Advance, CommitStale, PlanFault, PlanPending, PlanFrame, Replan
<1>2. CASE CommitPendingRelease
  <2>1. /\ plan = PendingPlan /\ EarliestPending # {}
        /\ PendingPlan.target <= now /\ plan.release = EarliestPending
    BY <1>2 DEF CommitPendingRelease, DueNow, PlanFresh, PendingPlan
  <2>2. QED
    BY <1>2, <2>1, FreshPendingMatches DEF CommitPendingRelease, SendsPending
<1>3. ASSUME DueNow("metadata") \/ DueNow("frame")
      PROVE  /\ Running /\ AtPacket /\ Feasible /\ ~ PendingFirst
             /\ plan = FramePlan /\ sched.tick[cursor] <= now
             /\ plan.release = Coalesced /\ plan.immediate = Immediate
             /\ plan.deferred = Deferred /\ plan.downs = Downs(cursor)
  BY <1>3 DEF DueNow, PlanFresh, FramePlan
<1>4. ASSUME DueNow("frame") PROVE FrameMatches
  BY <1>3, <1>4, FreshFrameMatches DEF FrameMatches, Gone
<1>5. CASE CommitMetadata
  <2>1. DueNow("metadata")
    BY <1>5 DEF CommitMetadata
  <2>2. Gone = {} /\ Downs(cursor) = {}
    BY <1>3, <2>1 DEF DueNow, FramePlan, Gone
  <2>3. Settle({}, Deferred, {}, "Active")
    BY <1>3, <1>5, <2>1, FreshFrameMatches DEF CommitMetadata
  <2>4. QED
    BY <1>3, <2>1, <2>2, <2>3 DEF Consumes
<1>6. CASE CommitFrame
  BY <1>3, <1>4, <1>6 DEF CommitFrame, Consumes, Gone
<1>7. CASE MissFrame
  BY <1>3, <1>4, <1>7 DEF MissFrame, Consumes, Gone
<1>8. CASE RecoverSuspended
  BY <1>8, RecoveryConsumes DEF RecoverSuspended, DueNow, Refuse, Consumes
<1>9. CASE Suspend \/ SuspendMissed
  BY <1>9 DEF Suspend, SuspendMissed
<1>10. QED
  BY <1>1, <1>2, <1>5, <1>6, <1>7, <1>8, <1>9 DEF Next

(* What a consumed packet lifts may be lifted by now. *)
LEMMA ConsumedMayBeLifted ==
  ASSUME IInv, Consumes, NEW g \in Gone
  PROVE  g \in active /\ g.up # 0 /\ Due(g) <= now
<1> USE DEF IInv
<1>1. g \in active /\ g \in sched.gens
  BY FeasiblePacket DEF Consumes, TypeOK
<1>2. sched.tick[cursor] \in Nat /\ now \in Nat /\ sched.tick[cursor] <= now
  BY DEF Consumes, TypeOK, AtPacket, IsCompiled
<1>3. CASE g \in Coalesced
  <2>1. g.up # 0 /\ Due(g) = sched.tick[cursor]
    BY <1>3 DEF Coalesced, EarliestPending, PendingUpsPassed
  <2>2. QED
    BY <1>1, <1>2, <2>1
<1>4. CASE g \in Immediate
  <2>1. g.up # 0 /\ g.up = cursor /\ Floor(g) <= sched.tick[cursor]
    BY <1>4 DEF Immediate, OwnedUps, OwnedHaveUps
  <2>2. Due(g) = sched.tick[cursor]
    BY <2>1 DEF Due, DueTick, Floor
  <2>3. QED
    BY <1>1, <1>2, <2>1, <2>2
<1>5. QED
  BY <1>3, <1>4 DEF Gone

(* No press is lifted before its minimum hold and its authored Up. *)
THEOREM ReleasesAreNotEarly == Spec => ReleaseNotEarly
<1> DEFINE Late(g) == /\ Floor(g) <= now
                      /\ g.up # 0 /\ sched.tick[g.up] <= now
<1>1. ASSUME IInv, [Next]_vars, NEW g \in sched.gens,
             status[g] = "Active", status'[g] = "Released"
      PROVE  Late(g)
  <2> USE DEF IInv
  <2>1. ASSUME g.up # 0, Due(g) <= now PROVE Late(g)
    BY <1>1, <2>1, GenerationFacts DEF TypeOK
  <2>2. CASE Consumes
    <3>1. g \in Gone
      BY <1>1, <2>2, FeasiblePacket DEF Consumes, Settle
    <3>2. QED
      BY <1>1, <2>1, <2>2, <3>1, ConsumedMayBeLifted
  <2>3. CASE SendsPending
    <3>1. g \in EarliestPending /\ g \in pending
      BY <1>1, <2>3 DEF SendsPending, Settle, EarliestPending
    <3>2. QED
      BY <1>1, <2>1, <2>3, <3>1 DEF SendsPending, PendingMatches, PendingUpsPassed
  <2>4. CASE CancelHeld \/ Close
    BY <1>1, <2>4 DEF CancelHeld, Close, Terminal
  <2>5. QED
    BY <1>1, <2>2, <2>3, <2>4, StepClasses
<1>2. IInv /\ [Next]_vars =>
        [\A g \in sched.gens :
           status[g] = "Active" /\ status'[g] = "Released" => Late(g)]_vars
  BY <1>1
<1>3. QED
  BY <1>2, Invariance, PTL DEF Spec, ReleaseNotEarly

(* Once the loop has ended nothing waits to be pressed any more. *)
ClosedIsOver == closed => \A g \in sched.gens : status[g] # "Scheduled"

LEMMA ClosedStaysOver == ClosedIsOver /\ [Next]_vars => ClosedIsOver'
<1> SUFFICES ASSUME ClosedIsOver, [Next]_vars PROVE ClosedIsOver'
  OBVIOUS
<1>1. CASE Close
  BY <1>1 DEF Close, ClosedIsOver, Terminal
<1>2. CASE UNCHANGED vars
  BY <1>2 DEF vars, ClosedIsOver
<1>3. ASSUME Next, ~ Close PROVE ~ closed /\ closed' = closed
  BY <1>3 DEF Next, Advance, CommitStale, PlanFault, PlanPending, PlanFrame,
              Replan, CommitMetadata, CommitPendingRelease, CommitFrame, MissFrame,
              Suspend, SuspendMissed, RecoverSuspended, CancelHeld, Refuse, Settle,
              PlanReady, DueNow, Running
<1>4. QED
  BY <1>1, <1>2, <1>3 DEF ClosedIsOver

(***************************************************************************)
(* The presses of a packet leave the scheduled state together: the cursor  *)
(* has all of them before it or none, and a step consumes whole packets.   *)
(***************************************************************************)
LEMMA ChordsLeaveTogether ==
  ASSUME IInv, ClosedIsOver, [Next]_vars,
         NEW g \in sched.gens, NEW h \in sched.gens,
         g.down = h.down, status[g] = "Scheduled"
  PROVE  status[h] = "Scheduled" /\ status'[g] = status'[h]
<1> USE DEF IInv
<1>1. g.down \in Nat /\ h.down \in Nat /\ cursor \in Nat
  BY GenerationFacts DEF TypeOK
<1>2. ~ closed /\ ~ (g.down < cursor) /\ status[h] = "Scheduled"
  BY <1>1 DEF ClosedIsOver, CursorSplitsLedger
<1>3. g \notin active /\ h \notin active
  BY <1>2 DEF OwnershipAgrees
<1>4. CASE UNCHANGED <<sched, status>>
  BY <1>2, <1>4
<1>5. CASE Consumes
  <2>1. PICK outcome \in {"Active", "DroppedExpired"} :
          Settle(Gone, Deferred, Downs(cursor), outcome)
    BY <1>5 DEF Consumes
  <2>2. g \notin Gone /\ h \notin Gone
    BY <1>3, <1>5, ConsumedMayBeLifted
  <2>3. g \in Downs(cursor) <=> h \in Downs(cursor)
    BY DEF Downs
  <2>4. QED
    BY <1>2, <2>1, <2>2, <2>3 DEF Settle
<1>6. CASE SendsPending
  <2>1. g \notin EarliestPending /\ h \notin EarliestPending
    BY <1>3 DEF EarliestPending, OwnershipAgrees
  <2>2. QED
    BY <1>2, <1>6, <2>1 DEF SendsPending, Settle
<1>7. CASE CancelHeld \/ Close
  BY <1>2, <1>7 DEF CancelHeld, Close, Terminal
<1>8. QED
  BY <1>4, <1>5, <1>6, <1>7, StepClasses

(* No press is lifted early and no chord is torn apart. *)
THEOREM PlayedAsItIsWritten == Spec => PlayedAsWritten
<1>1. Init => ClosedIsOver
  BY DEF Init, ClosedIsOver
<1>2. Spec => []ClosedIsOver
  BY <1>1, ClosedStaysOver, PTL DEF Spec
<1>3. IInv /\ ClosedIsOver /\ [Next]_vars =>
        [\A g, h \in sched.gens :
           g.down = h.down /\ status[g] = "Scheduled" =>
             status[h] = "Scheduled" /\ status'[g] = status'[h]]_vars
  BY ChordsLeaveTogether
<1>4. Spec => ChordIsAtomic
  BY <1>2, <1>3, Invariance, PTL DEF Spec, ChordIsAtomic
<1>5. QED
  BY <1>4, ReleasesAreNotEarly DEF PlayedAsWritten
-----------------------------------------------------------------------------
(* A consumed packet is one boundary of the abstract ledger. *)
LEMMA ConsumesIsBoundary ==
  ASSUME IInv, Consumes
  PROVE  Ledger!Boundary
<1> USE DEF IInv
<1>1. PICK outcome \in {"Active", "DroppedExpired"} :
        Settle(Gone, Deferred, Downs(cursor), outcome)
  BY DEF Consumes
<1>2. /\ Downs(cursor) \subseteq sched.gens
      /\ \A h \in Downs(cursor) : status[h] = "Scheduled" /\ h \notin active
      /\ \A h \in Downs(cursor) : \A a \in active \ Gone : a.slot # h.slot
  BY FeasiblePacket DEF Consumes
<1>3. \A g \in sched.gens : g \in active <=> g \in Ledger!Held
  BY DEF OwnershipAgrees, Ledger!Held
<1>4. Gone \in SUBSET Ledger!Liftable
  BY <1>3, ConsumedMayBeLifted DEF Ledger!Liftable, Due, DueTick, FloorTick, TypeOK,
                                  Ledger!DueTick, Ledger!FloorTick
<1>5. Downs(cursor) \in {{}, Ledger!NextChord}
  <2>1. \A h \in Ledger!Waiting : h.down \in Nat /\ h.down >= cursor
    BY GenerationFacts DEF Ledger!Waiting, CursorSplitsLedger, TypeOK
  <2>2. \A h \in Downs(cursor) : h \in Ledger!Waiting /\ h.down = cursor
    BY <1>2 DEF Ledger!Waiting, Downs
  <2>3. SUFFICES ASSUME NEW d \in Downs(cursor)
                 PROVE  Downs(cursor) = Ledger!NextChord
    OBVIOUS
  <2>4. ASSUME NEW h \in Ledger!NextChord PROVE h \in Downs(cursor)
    <3>1. h \in Ledger!Waiting /\ h.down <= cursor
      BY <2>2, <2>3, <2>4 DEF Ledger!NextChord
    <3>2. QED
      BY <2>1, <3>1 DEF Downs, Ledger!Waiting, TypeOK
  <2>5. \A h \in Downs(cursor) : h \in Ledger!NextChord
    BY <2>1, <2>2 DEF Ledger!NextChord, TypeOK
  <2>6. QED
    BY <2>4, <2>5
<1>6. \A h \in Downs(cursor) : sched.tick[h.down] <= now
  BY DEF Consumes, Downs
<1>7. \A h \in Downs(cursor), g \in Ledger!Held \ Gone : g.slot # h.slot
  BY <1>2, <1>3 DEF Ledger!Held
<1>8. QED
  BY <1>1, <1>4, <1>5, <1>6, <1>7 DEF Settle, Ledger!Boundary

(* So is a pending release sent alone, with no chord. *)
LEMMA SendsPendingIsBoundary ==
  ASSUME IInv, SendsPending
  PROVE  Ledger!Boundary
<1> USE DEF IInv
<1>1. \A g \in EarliestPending :
        g \in Ledger!Held /\ g.up # 0 /\ Due(g) <= now
  BY DEF SendsPending, PendingMatches, EarliestPending, PendingUpsPassed,
         OwnershipAgrees, TypeOK, Ledger!Held
<1>2. EarliestPending \in SUBSET Ledger!Liftable
  BY <1>1 DEF Ledger!Liftable, Due, DueTick, FloorTick, Ledger!DueTick, Ledger!FloorTick
<1>3. QED
  BY <1>2 DEF SendsPending, Settle, Ledger!Boundary

(* The coordinator implements the ledger: see ImplementsLedger. *)
THEOREM CoordinatorImplementsLedger == Spec => ImplementsLedger
<1>1. Init => Ledger!Init
  BY DEF Init, Ledger!Init
<1>2. IInv /\ [Next]_vars => [Ledger!Next]_(Ledger!vars)
  <2> SUFFICES ASSUME IInv, [Next]_vars PROVE [Ledger!Next]_(Ledger!vars)
    OBVIOUS
  <2>1. CASE UNCHANGED <<sched, status>> /\ (now' = now \/ now' = now + 1)
    BY <2>1 DEF Ledger!Next, Ledger!Tick, Ledger!vars
  <2>2. CASE Consumes
    BY <2>2, ConsumesIsBoundary DEF Ledger!Next
  <2>3. CASE SendsPending
    BY <2>3, SendsPendingIsBoundary DEF Ledger!Next
  <2>4. CASE CancelHeld
    BY <2>4 DEF CancelHeld, Ledger!Next, Ledger!Suspend, Ledger!Held
  <2>5. CASE Close
    <3>1. \A g \in sched.gens :
            status[g] \in Terminal <=> g \notin Ledger!Held \cup Ledger!Waiting
      BY DEF IInv, TypeOK, Status, Terminal, Ledger!Held, Ledger!Waiting
    <3>2. status' = [g \in sched.gens |->
                       IF g \in Ledger!Held \cup Ledger!Waiting
                         THEN "Cancelled" ELSE status[g]]
      BY <2>5, <3>1 DEF Close
    <3>3. QED
      BY <2>5, <3>2 DEF Close, Ledger!Next, Ledger!Close
  <2>6. QED
    BY <2>1, <2>2, <2>3, <2>4, <2>5, StepClasses
<1>3. QED
  BY <1>1, <1>2, Invariance, PTL DEF Spec, ImplementsLedger, Ledger!Spec
=============================================================================
