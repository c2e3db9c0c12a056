---------------------------- MODULE MCCoordinator ----------------------------
(* Every compiled schedule of four packets over two keys.  The packets are  *)
(* spaced so that with a minimum hold of two ticks some presses are         *)
(* admitted, some releases are deferred past the next packet, some coalesce *)
(* with a later packet, and some packets cannot be played at all.           *)
EXTENDS Coordinator, Sequences

CONSTANTS k1, k2

Packets == 4
Tick == <<0, 1, 2, 4>>

Presses(s) ==
  {g \in [slot : {s}, down : 1..Packets, up : 0..Packets] : g.up # 0 => g.down < g.up}

KeyParts(s) ==
  {G \in SUBSET Presses(s) :
     \A g, h \in G : g # h =>
       /\ g.down # h.down
       /\ g.down < h.down => g.up # 0 /\ g.up <= h.down}

MCSlots == {k1, k2}
MCSchedules ==
  {[len |-> Packets, tick |-> Tick, gens |-> G \cup H] :
     G \in KeyParts(k1), H \in KeyParts(k2)}
=============================================================================
