--------------------------- MODULE RuntimeSchedule ---------------------------
(***************************************************************************)
(* The immutable half of a session: the compiled schedule, the statuses a  *)
(* generation goes through and the tick at which a press may be lifted.    *)
(*                                                                         *)
(* A compiled schedule is a sequence of packets, one per authored          *)
(* timestamp.  A generation is one press of one key: the packet of its     *)
(* Down, the packet of its authored Up (0 when the song never lifts the    *)
(* key) and its key slot.                                                  *)
(***************************************************************************)
EXTENDS Naturals

CONSTANTS
  Slots,        (* physical key slots, fifteen in the program              *)
  MinHold       (* effective minimum hold, in ticks                        *)

ASSUME MinHoldAssumption == MinHold \in Nat

(* One press of one key. *)
Generation(n) == [slot : Slots, down : 1..n, up : 0..n]

(***************************************************************************)
(* What compile_runtime_intents guarantees of its output: packets carry    *)
(* strictly increasing timestamps, an Up follows its own Down, and a key   *)
(* is pressed again only in or after the packet that lifts it.             *)
(***************************************************************************)
IsCompiled(c) ==
  /\ c.len \in Nat
  /\ c.tick \in [1..c.len -> Nat]
  /\ c.gens \subseteq Generation(c.len)
  /\ \A p, q \in 1..c.len : p < q => c.tick[p] < c.tick[q]
  /\ \A g \in c.gens : g.up # 0 => g.down < g.up
  /\ \A g, h \in c.gens : g # h /\ g.slot = h.slot =>
       /\ g.down # h.down
       /\ g.down < h.down => g.up # 0 /\ g.up <= h.down

(* The hold half of the admission check a session runs before it starts. *)
Admitted(c) ==
  \A g \in c.gens : g.up # 0 => c.tick[g.down] + MinHold <= c.tick[g.up]

Status == {"Scheduled", "Active", "Released", "DroppedExpired", "Cancelled"}
Terminal == {"Released", "DroppedExpired", "Cancelled"}

(* release_not_before of a generation, fixed by its authored Down. *)
FloorTick(c, g) == c.tick[g.down] + MinHold

(* When the release of a generation is due: its authored Up or its floor. *)
DueTick(c, g) ==
  IF FloorTick(c, g) <= c.tick[g.up] THEN c.tick[g.up] ELSE FloorTick(c, g)
=============================================================================
