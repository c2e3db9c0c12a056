-------------------------- MODULE GenerationLedger ---------------------------
(***************************************************************************)
(* What dispatch coordination promises, with none of its machinery: no     *)
(* cursor, no slot table, no pending queue, no plan.  Presses of a song    *)
(* are consumed in authored order and chord by chord, no earlier than      *)
(* authored; a key is held by one press at a time; a press is lifted no    *)
(* earlier than its authored Up and its minimum hold; what is not lifted   *)
(* is cancelled when every key is released at once.                        *)
(***************************************************************************)
EXTENDS RuntimeSchedule

CONSTANT Schedules

VARIABLES
  sched,      (* the schedule of this session *)
  now,        (* elapsed playback ticks       *)
  status      (* the generation ledger        *)

vars == <<sched, now, status>>

Held == {g \in sched.gens : status[g] = "Active"}
Waiting == {g \in sched.gens : status[g] = "Scheduled"}

(* The presses of the earliest packet that still has presses waiting. *)
NextChord == {g \in Waiting : \A h \in Waiting : g.down <= h.down}

Liftable == {g \in Held : g.up # 0 /\ DueTick(sched, g) <= now}

Init ==
  /\ sched \in Schedules
  /\ now = 0
  /\ status = [g \in sched.gens |-> "Scheduled"]

Tick ==
  /\ now' = now + 1
  /\ UNCHANGED <<sched, status>>

(* Some releases, and then nothing or one whole chord, sent or expired. *)
Boundary ==
  \E lifted \in SUBSET Liftable,
     chord \in {{}, NextChord},
     outcome \in {"Active", "DroppedExpired"} :
    /\ \A h \in chord : sched.tick[h.down] <= now
    /\ \A h \in chord, g \in Held \ lifted : g.slot # h.slot
    /\ status' = [g \in sched.gens |->
                    IF g \in lifted THEN "Released"
                    ELSE IF g \in chord THEN outcome ELSE status[g]]
    /\ UNCHANGED <<sched, now>>

(* Every key was released at once: held presses end, waiting ones stay. *)
Suspend ==
  /\ status' = [g \in sched.gens |->
                  IF g \in Held THEN "Cancelled" ELSE status[g]]
  /\ UNCHANGED <<sched, now>>

(* The session is over: no press is held and none will come. *)
Close ==
  /\ status' = [g \in sched.gens |->
                  IF g \in Held \cup Waiting THEN "Cancelled" ELSE status[g]]
  /\ UNCHANGED <<sched, now>>

Next == Tick \/ Boundary \/ Suspend \/ Close

Spec == Init /\ [][Next]_vars
=============================================================================
