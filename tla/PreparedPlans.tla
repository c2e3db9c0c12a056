--------------------------- MODULE PreparedPlans ---------------------------
(***************************************************************************)
(* The prepared playback plans of the desktop program and what a plan was  *)
(* made from: the calibration cache, the settings and the catalog's        *)
(* generation, each reduced to a version.  The commands that make, consume *)
(* and invalidate plans are steps of the modules that use this one.        *)
(***************************************************************************)
EXTENDS Naturals, Sequences

CONSTANT MaxPlans   \* MAX_PREPARED_PLANS

ASSUME MaxPlansIsPositive == MaxPlans \in Nat \ {0}

VARIABLE prepared   \* the prepared plans, oldest first

\* retain_prepared_capacity: the oldest plans make room.
PushPlan(plan) ==
  LET grown == Append(prepared, plan)
  IN  prepared' = IF Len(grown) > MaxPlans THEN Tail(grown) ELSE grown

\* invalidate_settings: whatever a plan was made from, it goes.
InvalidatePlans == prepared' = <<>>

\* The plans at the named positions stay, in their order.
Retain(kept) ==
  \E n \in 0..Len(prepared) : \E at \in [1..n -> kept] :
    /\ \A j, k \in 1..n : j < k => at[j] < at[k]
    /\ \A i \in kept : \E k \in 1..n : at[k] = i
    /\ prepared' = [k \in 1..n |-> prepared[at[k]]]

\* invalidate_catalog: only the plans of the named generation stay.
InvalidateCatalog(g) == Retain({i \in DOMAIN prepared : prepared[i].generation = g})

\* Dropping the plan at i from the store: a plan is started at most once.
RemovePlan(i) == Retain(DOMAIN prepared \ {i})
=============================================================================
