----------------------------- MODULE AtomicAnchor -----------------------------
(***************************************************************************)
(* What readers of the progress clock are promised: publications and reads *)
(* happen at one instant each.                                             *)
(***************************************************************************)
CONSTANT Readers

VARIABLES
  anchor,           \* the anchor published last
  got               \* what each reader's last read returned

Publish == anchor' # anchor /\ UNCHANGED got

Read(r) == got' = [got EXCEPT ![r] = anchor] /\ UNCHANGED anchor

Next == Publish \/ \E r \in Readers : Read(r)

Spec == got = [r \in Readers |-> anchor] /\ [][Next]_<<anchor, got>>
=============================================================================
