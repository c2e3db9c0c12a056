------------------------------ MODULE KeyLedger ------------------------------
(***************************************************************************)
(* What the input backend owes its callers, whatever SendInput and the     *)
(* keyboard do: a key the engine holds down is on the ledger, and it       *)
(* leaves the ledger only when the engine no longer holds it.              *)
(***************************************************************************)
CONSTANT Keys       \* the instrument's keys

VARIABLES
  held,             \* keys that are down because of a Down of the engine
  tracked           \* keys the engine remembers it may have to release

vars == <<held, tracked>>

Init == held = {} /\ tracked = {}

\* A packet lifts ups and presses downs, all of them or some.  The ledger takes
\* it as done, as refused, or as uncertain.
Send(ups, downs) ==
  /\ held' \in SUBSET (held \cup downs)
  /\ held \ held' \subseteq ups
  /\ tracked' \in {(tracked \ ups) \cup downs, tracked \cup ups,
                   tracked \cup ups \cup downs}

\* A lift the ledger does not show yet, the engine's or the user's.
Lift == held' \in SUBSET held /\ UNCHANGED tracked

\* Keys seen or known to be up are forgotten; a release that gives up remembers
\* the keys it could not lift.
Settle(gone, stuck) ==
  /\ tracked' = (tracked \ gone) \cup stuck
  /\ UNCHANGED held

Safe == held \subseteq tracked

Next ==
  /\ \/ \E ups, downs \in SUBSET Keys : ups \cap downs = {} /\ Send(ups, downs)
     \/ Lift
     \/ \E gone, stuck \in SUBSET Keys : Settle(gone, stuck)
  /\ Safe'

Spec == Init /\ [][Next]_vars
=============================================================================
