--------------------------- MODULE SnapshotBuffer ----------------------------
(***************************************************************************)
(* SnapshotBuffer of sky_player (engine/telemetry/metrics.rs): two slots   *)
(* of worker metrics, an index of the active one, and a count per slot of  *)
(* the readers that hold it.  A publication fills the slot that is not     *)
(* active and moves the index; readers never wait for it.                  *)
(*                                                                         *)
(* A word of a slot holds the number of the publication that stored it, so *)
(* a torn snapshot is one whose words hold different numbers.  The count   *)
(* of a slot is the set of the readers whose increment stands.  Accesses   *)
(* are sequentially consistent: see the README for what that leaves out.   *)
(***************************************************************************)
EXTENDS Integers

CONSTANTS
  Publishers,       \* threads that call try_publish_metrics
  Pollers,          \* threads that take snapshots of the session
  Fields,           \* the words of a snapshot
  MaxSnapshots      \* bound: publications of one session

ASSUME SnapshotBufferAssumption ==
  /\ MaxSnapshots \in Nat
  /\ Fields # {}

VARIABLES
  active,           \* index of the slot readers are sent to
  slot,             \* slot[i][f]: the publication that stored word f of slot i
  pins,             \* pins[i]: the readers counted in slot i
  begun,            \* number of publications begun
  current,          \* history: the publication the index was moved to last
  publisher,        \* locals of try_publish
  poller            \* locals of load, and what the last load returned

bufferVars == <<active, slot, pins, begun, current, publisher, poller>>

Snapshot(n) == [f \in Fields |-> n]

Slots == {0, 1}

Waiting == [step |-> "idle", terminal |-> FALSE, number |-> 0, into |-> 0,
            left |-> {}]

\* A poller between two loads: only what it returned is left.
Polled(got) == [step |-> "idle", from |-> 0, left |-> {}, copy |-> Snapshot(0),
                got |-> got]

BufferInit ==
  /\ active = 0
  /\ slot = [i \in Slots |-> Snapshot(0)]
  /\ pins = [i \in Slots |-> {}]
  /\ begun = 0
  /\ current = 0
  /\ publisher = [p \in Publishers |-> Waiting]
  /\ poller = [r \in Pollers |-> Polled(Snapshot(0))]

-----------------------------------------------------------------------------
\* try_publish_metrics: a call that the 50 ms throttle lets through.  The
\* terminal publication of a publisher is its last.
BeginSnapshot(p, terminal) ==
  /\ publisher[p].step = "idle" /\ begun < MaxSnapshots
  /\ begun' = begun + 1
  /\ publisher' = [publisher EXCEPT ![p].step = "due", ![p].number = begun + 1,
                                    ![p].terminal = terminal]
  /\ UNCHANGED <<active, slot, pins, current, poller>>

\* The slot to fill is the one that is not active.
ChooseSlot(p) ==
  /\ publisher[p].step = "due"
  /\ publisher' = [publisher EXCEPT ![p].step = "chosen", ![p].into = 1 - active]
  /\ UNCHANGED <<active, slot, pins, begun, current, poller>>

\* MUTANT: the readers of the slot are not looked at.
BugSlotIsFree(p) ==
  /\ publisher[p].step = "chosen"
  /\ publisher' = [publisher EXCEPT ![p].step = "fill", ![p].left = Fields]
  /\ UNCHANGED <<active, slot, pins, begun, current, poller>>

SlotIsFree(p) ==
  /\ publisher[p].step = "chosen" /\ pins[publisher[p].into] = {}
  /\ publisher' = [publisher EXCEPT ![p].step = "fill", ![p].left = Fields]
  /\ UNCHANGED <<active, slot, pins, begun, current, poller>>

\* A held slot: the publication is dropped, the terminal one tries again.
SlotIsHeld(p) ==
  /\ publisher[p].step = "chosen" /\ pins[publisher[p].into] # {}
  /\ publisher' = [publisher EXCEPT ![p].step =
                     IF publisher[p].terminal THEN "due" ELSE "idle"]
  /\ UNCHANGED <<active, slot, pins, begun, current, poller>>

FillField(p, f) ==
  /\ publisher[p].step = "fill" /\ f \in publisher[p].left
  /\ slot' = [slot EXCEPT ![publisher[p].into][f] = publisher[p].number]
  /\ publisher' = [publisher EXCEPT ![p].left = @ \ {f}]
  /\ UNCHANGED <<active, pins, begun, current, poller>>

MoveIndex(p) ==
  /\ publisher[p].step = "fill" /\ publisher[p].left = {}
  /\ active' = publisher[p].into
  /\ publisher' = [publisher EXCEPT ![p].step =
                     IF publisher[p].terminal THEN "closed" ELSE "idle"]
  /\ current' = publisher[p].number
  /\ UNCHANGED <<slot, pins, begun, poller>>

-----------------------------------------------------------------------------
\* load, step by step.
StartPoll(r) ==
  /\ poller[r].step = "idle"
  /\ poller' = [poller EXCEPT ![r].step = "index"]
  /\ UNCHANGED <<active, slot, pins, begun, current, publisher>>

ReadIndex(r) ==
  /\ poller[r].step = "index"
  /\ poller' = [poller EXCEPT ![r].step = "pin", ![r].from = active]
  /\ UNCHANGED <<active, slot, pins, begun, current, publisher>>

Pin(r) ==
  /\ poller[r].step = "pin"
  /\ pins' = [pins EXCEPT ![poller[r].from] = @ \union {r}]
  /\ poller' = [poller EXCEPT ![r].step = "recheck"]
  /\ UNCHANGED <<active, slot, begun, current, publisher>>

\* The index moved between the load and the increment: give the slot back.
Recheck(r) ==
  /\ poller[r].step = "recheck"
  /\ poller' = IF active = poller[r].from
                 THEN [poller EXCEPT ![r].step = "copy", ![r].left = Fields]
                 ELSE [poller EXCEPT ![r].step = "retry"]
  /\ UNCHANGED <<active, slot, pins, begun, current, publisher>>

CopyField(r, f) ==
  /\ poller[r].step = "copy" /\ f \in poller[r].left
  /\ poller' = [poller EXCEPT ![r].copy[f] = slot[poller[r].from][f],
                              ![r].left = @ \ {f}]
  /\ UNCHANGED <<active, slot, pins, begun, current, publisher>>

\* The index is read a third time before the slot is given back.
Verify(r) ==
  /\ poller[r].step = "copy" /\ poller[r].left = {}
  /\ poller' = IF active = poller[r].from
                 THEN [poller EXCEPT ![r].step = "return", ![r].got = poller[r].copy]
                 ELSE [poller EXCEPT ![r].step = "retry"]
  /\ UNCHANGED <<active, slot, pins, begun, current, publisher>>

Unpin(r) ==
  /\ poller[r].step \in {"return", "retry"}
  /\ pins' = [pins EXCEPT ![poller[r].from] = @ \ {r}]
  /\ poller' = [poller EXCEPT ![r] =
                  IF @.step = "return" THEN Polled(@.got)
                  ELSE [@ EXCEPT !.step = "index"]]
  /\ UNCHANGED <<active, slot, begun, current, publisher>>

-----------------------------------------------------------------------------
Publishing(p) ==
  \/ ChooseSlot(p) \/ SlotIsFree(p) \/ SlotIsHeld(p) \/ MoveIndex(p)
  \/ \E f \in Fields : FillField(p, f)

Polling(r) ==
  \/ ReadIndex(r) \/ Pin(r) \/ Recheck(r) \/ Verify(r) \/ Unpin(r)
  \/ \E f \in Fields : CopyField(r, f)

BufferNext ==
  \/ \E p \in Publishers :
       Publishing(p) \/ \E terminal \in BOOLEAN : BeginSnapshot(p, terminal)
  \/ \E r \in Pollers : StartPoll(r) \/ Polling(r)

BufferSpec == BufferInit /\ [][BufferNext]_bufferVars

-----------------------------------------------------------------------------
\* Publications and loads are atomic although nobody waits: a load returns one
\* whole publication, the last complete one at some moment of the load
\* (metrics.rs:387 "an active slot is never concurrently overwritten").
Register == INSTANCE AtomicAnchor WITH
              Readers <- Pollers,
              anchor <- Snapshot(current),
              got <- [r \in Pollers |-> poller[r].got]

SnapshotsAreAtomic == Register!Spec

=============================================================================
