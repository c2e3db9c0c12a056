----------------------------- MODULE Observation -----------------------------
(***************************************************************************)
(* How the worker and its observer thread of sky_player measure holds      *)
(* (engine/worker/dispatch: hold_forensics.rs, observer.rs).  The worker   *)
(* keeps anchors of its own and offers every observation to a bounded      *)
(* queue that it never waits for; the observer takes them out, keeps       *)
(* anchors of its own, and ends when it finds the queue empty and then the *)
(* stop flag set, or at its first failure.                                 *)
(*                                                                         *)
(* A packet is its number and its lateness; the authored time between two  *)
(* packets cancels out of the shrink of a hold.  held, real, lost and      *)
(* retriggers are what really happened, for the properties.                *)
(***************************************************************************)
EXTENDS Integers, Sequences, FiniteSets

CONSTANTS
  Keys,
  Capacity,         \* OBSERVATION_QUEUE_CAPACITY
  MaxLate,          \* lateness of a send: 0..MaxLate
  MaxPackets,       \* bound: packets of one session
  MaxNotices        \* bound: lifecycle and other observations

ASSUME ObservationAssumption ==
  IsFiniteSet(Keys) /\ Capacity \in Nat /\ MaxLate \in Nat

VARIABLES
  phase,            \* the worker: running, stopping, joining, done
  sent, notices,    \* packets and other observations so far
  held,             \* held[k]: the packet that pressed k, NoAnchor when k is up
  real,             \* the holds that were played
  retriggers,       \* keys released and pressed by one packet
  anchors,          \* ProductionHoldForensics.anchors
  pairs, structural,\* production: hold pairs, structural anomalies
  queue, dropped,   \* PendingObservationQueue and observer_dropped_samples
  stop,             \* ObserverRuntime.stop
  observer,         \* look, empty, work, ended
  measured,         \* HoldForensics.active
  recorded, unmatched,\* observer: hold pairs, unmatched Ups and overwritten anchors
  handled,          \* observations the observer has worked on
  failed            \* ObserverOutput.terminal_error

worldVars == <<sent, notices, held, real, retriggers>>
productionVars == <<anchors, pairs, structural>>
observerVars == <<observer, measured, recorded, unmatched, handled, failed>>
observationVars == <<phase, worldVars, productionVars, queue, dropped, stop, observerVars>>

NoAnchor == [down |-> 0, late |-> 0]
Packet(n, late, ups, downs) ==
  [kind |-> "down", number |-> n, late |-> late, ups |-> ups, downs |-> downs]
RecoveryUp(keys) == [kind |-> "recovery_up", keys |-> keys]
ResetAll == [kind |-> "reset_all"]
\* Wait, StaleMetadata and BlockedUnfocused: health and trace records only.
Notice == [kind |-> "notice"]

MaxOf(a, b) == IF a > b THEN a ELSE b

\* observe_hold_pair: how much later the press was sent than its release.
Shrink(anchor, packet) == MaxOf(0, anchor.late - packet.late)

Pair(k, anchor, packet) ==
  [key |-> k, down |-> anchor.down, up |-> packet.number, shrink |-> Shrink(anchor, packet)]

Held == {k \in Keys : held[k] # NoAnchor}

ObservationInit ==
  /\ phase = "running" /\ sent = 0 /\ notices = 0
  /\ held = [k \in Keys |-> NoAnchor] /\ real = {} /\ retriggers = 0
  /\ anchors = held /\ pairs = {} /\ structural = 0
  /\ queue = <<>> /\ dropped = 0 /\ stop = FALSE
  /\ observer = "look" /\ measured = held /\ recorded = {} /\ unmatched = 0
  /\ handled = 0 /\ failed = FALSE

-----------------------------------------------------------------------------
\* PendingObservationQueue::push: a full queue drops the new observation.
Push(observation) ==
  IF Len(queue) < Capacity
    THEN queue' = Append(queue, observation) /\ UNCHANGED dropped
    ELSE dropped' = dropped + 1 /\ UNCHANGED queue

\* An anchor of each pressed key; the anchors of released keys are taken.
After(set, packet) ==
  [k \in Keys |-> IF k \in packet.downs
                    THEN [down |-> packet.number, late |-> packet.late]
                    ELSE IF k \in packet.ups THEN NoAnchor ELSE set[k]]

Cleared(set, keys) == [k \in Keys |-> IF k \in keys THEN NoAnchor ELSE set[k]]

PairsOf(set, packet) ==
  {Pair(k, set[k], packet) : k \in {u \in packet.ups : set[u] # NoAnchor}}

\* The send of a packet that has come back complete: observe_packet of
\* ProductionHoldForensics.  An Up without its Down (4), a Down over a Down
\* (5), and a key that is released and pressed at once (6, and 8 because it is
\* pressed before its release has completed) are structural.
Anomalies(packet) ==
  LET matched == {k \in packet.ups : anchors[k] # NoAnchor}
  IN  Cardinality(packet.ups \ matched)
      + 2 * Cardinality(matched \cap packet.downs)
      + Cardinality({k \in packet.downs \ packet.ups : anchors[k] # NoAnchor})

ObservePacketResult(packet) ==
  /\ anchors' = After(anchors, packet)
  /\ pairs' = pairs \union PairsOf(anchors, packet)
  /\ structural' = structural + Anomalies(packet)

\* publisher_down_send_outcome for a packet the coordinator may build: it
\* releases held keys and presses keys that are up or released by it.
SendPacket(ups, downs, late) ==
  LET packet == Packet(sent + 1, late, ups, downs)
  IN  /\ phase = "running" /\ sent < MaxPackets
      /\ ups \subseteq Held /\ downs \cap Held \subseteq ups /\ ups \union downs # {}
      /\ sent' = sent + 1
      /\ held' = After(held, packet)
      /\ real' = real \union PairsOf(held, packet)
      /\ retriggers' = retriggers + Cardinality(ups \cap downs)
      /\ ObservePacketResult(packet)
      /\ Push(packet)
      /\ UNCHANGED <<phase, notices, stop, observerVars>>

Forget(keys) == anchors' = Cleared(anchors, keys)

\* MUTANT: only production hears of a lifecycle event.
BugLifecycle(keys, observation) ==
  /\ phase = "running" /\ notices < MaxNotices
  /\ notices' = notices + 1
  /\ held' = Cleared(held, keys)
  /\ Forget(keys)
  /\ UNCHANGED <<phase, sent, real, retriggers, pairs, structural, queue, dropped, stop,
                 observerVars>>

\* observe_lifecycle and enqueue_lifecycle, after the keys have been released.
Lifecycle(keys, observation) ==
  /\ phase = "running" /\ notices < MaxNotices
  /\ notices' = notices + 1
  /\ held' = Cleared(held, keys)
  /\ Forget(keys)
  /\ Push(observation)
  /\ UNCHANGED <<phase, sent, real, retriggers, pairs, structural, stop, observerVars>>

\* recover_missed_down_boundary: the packet's Ups without its Downs.
MissedDown(ups) == ups # {} /\ ups \subseteq Held /\ Lifecycle(ups, RecoveryUp(ups))

\* suspend_live_input at a manual pause, a focus loss at the gate, or the
\* restoration of the focus.
Suspend == Lifecycle(Keys, ResetAll)

\* push_wait, dispatch_stale_packet and the blocked press at the focus gate.
OtherObservation ==
  /\ phase = "running" /\ notices < MaxNotices
  /\ notices' = notices + 1
  /\ Push(Notice)
  /\ UNCHANGED <<phase, sent, held, real, retriggers, productionVars, stop, observerVars>>

\* The loop ends; finalize_worker has released every key before it stops the
\* observer, and nothing more is observed.
LoopEnds ==
  /\ phase = "running"
  /\ phase' = "stopping"
  /\ UNCHANGED <<worldVars, productionVars, queue, dropped, stop, observerVars>>

StopObserver ==
  /\ phase = "stopping"
  /\ stop' = TRUE /\ phase' = "joining"
  /\ UNCHANGED <<worldVars, productionVars, queue, dropped, observerVars>>

\* join, merge_observer and record_termination_error.
JoinObserver ==
  /\ phase = "joining" /\ observer = "ended"
  /\ phase' = "done"
  /\ UNCHANGED <<worldVars, productionVars, queue, dropped, stop, observerVars>>

-----------------------------------------------------------------------------
\* The observer's loop: is the queue empty?
Look ==
  /\ observer = "look"
  /\ observer' = IF queue = <<>> THEN "empty" ELSE "work"
  /\ UNCHANGED <<phase, worldVars, productionVars, queue, dropped, stop, measured,
                 recorded, unmatched, handled, failed>>

LoadStop ==
  /\ observer = "empty"
  /\ observer' = IF stop THEN "ended" ELSE "look"
  /\ UNCHANGED <<phase, worldVars, productionVars, queue, dropped, stop, measured,
                 recorded, unmatched, handled, failed>>

\* HoldForensics: observe_packet and observe_lifecycle.
Measure(observation) ==
  CASE observation.kind = "down" ->
         /\ measured' = After(measured, observation)
         /\ recorded' = recorded \union PairsOf(measured, observation)
         /\ unmatched' = unmatched
              + Cardinality({k \in observation.ups : measured[k] = NoAnchor})
              + Cardinality({k \in observation.downs \ observation.ups : measured[k] # NoAnchor})
    [] observation.kind = "recovery_up" ->
         measured' = Cleared(measured, observation.keys) /\ UNCHANGED <<recorded, unmatched>>
    [] observation.kind = "reset_all" ->
         measured' = Cleared(measured, Keys) /\ UNCHANGED <<recorded, unmatched>>
    [] OTHER -> UNCHANGED <<measured, recorded, unmatched>>

\* drain_one_observer.
Drain ==
  /\ observer = "work"
  /\ queue' = Tail(queue)
  /\ Measure(Head(queue))
  /\ handled' = handled + 1
  /\ observer' = "look"
  /\ UNCHANGED <<phase, worldVars, productionVars, dropped, stop, failed>>

\* A clock that cannot be read before the pop, after it, or after the work.
DrainFails ==
  /\ observer = "work"
  /\ failed' = TRUE /\ observer' = "ended"
  /\ \/ UNCHANGED <<queue, measured, recorded, unmatched, handled>>
     \/ queue' = Tail(queue) /\ UNCHANGED <<measured, recorded, unmatched, handled>>
     \/ queue' = Tail(queue) /\ Measure(Head(queue)) /\ handled' = handled + 1
  /\ UNCHANGED <<phase, worldVars, productionVars, dropped, stop>>

-----------------------------------------------------------------------------
Observing == Look \/ LoadStop \/ Drain
Finalizing == StopObserver \/ JoinObserver

ObservationNext ==
  \/ \E ups, downs \in SUBSET Keys, late \in 0..MaxLate : SendPacket(ups, downs, late)
  \/ \E ups \in SUBSET Keys : MissedDown(ups)
  \/ Suspend \/ OtherObservation \/ LoopEnds \/ Finalizing
  \/ Observing \/ DrainFails

ObservationSpec == ObservationInit /\ [][ObservationNext]_observationVars

-----------------------------------------------------------------------------
\* The worker's anchors are the keys it holds, through sends, safety Ups and
\* suspensions: its forensics report no structural anomaly of their own making,
\* only keys that a packet releases and presses at once (kinds 6 and 8).
ForensicsMatchTheKeys ==
  /\ anchors = held /\ pairs = real
  /\ structural = 2 * retriggers

\* While nothing has been dropped the observer measures holds that were played,
\* and all of them once it has caught up (observer_dropped_samples decides
\* whether the evidence of the diagnostics counts).
EvidenceIsQualified ==
  dropped = 0 =>
    /\ recorded \subseteq real /\ unmatched = 0
    /\ (queue = <<>> /\ observer # "ended") => recorded = real /\ measured = held

\* What is measured and counted was played: the holds the observer paired while
\* nothing was dropped, and the worker's own forensics (engine/worker/dispatch:
\* observer.rs, hold_forensics.rs).
ObservationIsTrue == EvidenceIsQualified /\ ForensicsMatchTheKeys
=============================================================================
