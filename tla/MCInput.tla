------------------------------- MODULE MCInput -------------------------------
(***************************************************************************)
(* The tracked-key backend, whose packets are one step, and the send of a  *)
(* packet in its own steps.  They share no state here: a behaviour runs    *)
(* one of them, which says which.                                          *)
(***************************************************************************)
EXTENDS InputBackend, PacketSend

VARIABLE which

MCInit ==
  /\ which \in {"backend", "packet"}
  /\ Init
  /\ SendInit /\ (which = "packet" \/ held = {})

MCNext ==
  \/ which = "backend" /\ Next /\ UNCHANGED <<which, sendVars>>
  \/ which = "packet" /\ SendNext /\ UNCHANGED <<which, vars>>

mcVars == <<which, vars, sendVars>>

MCSpec ==
  /\ MCInit /\ [][MCNext]_mcVars
  /\ WF_mcVars(which = "backend" /\ ReleaseStep /\ UNCHANGED <<which, sendVars>>)
=============================================================================
