---------------------------- MODULE SessionProofs ----------------------------
(***************************************************************************)
(* Proofs about the session handle for any number of callers, stop         *)
(* commands, calls, words and publications: the sequence lock under it is  *)
(* atomic, and callers are told of the end as it was.                      *)
(***************************************************************************)
EXTENDS Session, TLAPS

(***************************************************************************)
(* ProgressClock.  The invariant says which publication each word belongs  *)
(* to, and that a load whose first sequence is still current has copied    *)
(* only words of the last complete publication.                            *)
(***************************************************************************)

ReaderRecord ==
  [step : {"idle", "retry", "copy"}, before : Nat, left : SUBSET Words,
   copy : [Words -> Nat], got : [Words -> Nat]]

Types ==
  /\ sequence \in Nat /\ published \in Nat
  /\ word \in [Words -> Nat]
  /\ unstored \in SUBSET Words
  /\ reader \in [Readers -> ReaderRecord]

WriterInv ==
  /\ sequence \in {2 * published, 2 * published + 1}
  /\ sequence = 2 * published => unstored = {} /\ word = Whole(published)
  /\ \A w \in Words :
       word[w] = IF sequence = 2 * published \/ w \in unstored
                   THEN published ELSE published + 1

ReaderInv ==
  \A r \in Readers :
    reader[r].step = "copy" =>
      /\ reader[r].before <= sequence
      /\ reader[r].before % 2 = 0
      /\ reader[r].before = sequence =>
           \A w \in Words \ reader[r].left : reader[r].copy[w] = published

CInv == Types /\ WriterInv /\ ReaderInv

\* Doubling and parity, once for all.
LEMMA Parity ==
  \A n \in Nat : /\ (2 * n) % 2 = 0 /\ (2 * n + 1) % 2 = 1
                 /\ ~Odd(2 * n) /\ Odd(2 * n + 1)
BY DEF Odd

\* A reader's record changed in one component keeps its shape.
LEMMA Retype ==
  ASSUME reader \in [Readers -> ReaderRecord], NEW r \in Readers,
         NEW rec \in ReaderRecord, reader' = [reader EXCEPT ![r] = rec]
  PROVE  reader' \in [Readers -> ReaderRecord]
OBVIOUS

LEMMA ClockInitInvariant == ClockInit => CInv
BY DEF ClockInit, CInv, Types, WriterInv, ReaderInv, ReaderRecord, Whole, Loaded

LEMMA PublishInvariant ==
  ASSUME CInv, Worker
  PROVE  CInv' /\ UNCHANGED reader /\ (UNCHANGED published \/ published' = published + 1)
<1>1. CASE BeginPublish
  <2>1. sequence = 2 * published /\ sequence' = 2 * published' + 1
        /\ published' = published /\ word' = word /\ reader' = reader
        /\ unstored' = Words
    BY <1>1, Parity DEF BeginPublish, CInv, WriterInv, Types
  <2>2. WriterInv'
    BY <2>1 DEF CInv, WriterInv, Types, Whole
  <2>3. ReaderInv'
    BY <2>1 DEF CInv, ReaderInv, Types, ReaderRecord
  <2>. QED BY <2>1, <2>2, <2>3 DEF CInv, Types
<1>2. ASSUME NEW w \in Words, StoreWord(w)
      PROVE  CInv' /\ UNCHANGED reader /\ UNCHANGED published
  <2>1. /\ sequence = 2 * published + 1 /\ sequence' = sequence
        /\ published' = published /\ reader' = reader
        /\ word' = [word EXCEPT ![w] = published + 1]
        /\ unstored' = unstored \ {w} /\ w \in unstored
    BY <1>2 DEF StoreWord, CInv, WriterInv
  <2>2. WriterInv'
    BY <2>1 DEF CInv, WriterInv, Types
  <2>3. ReaderInv'
    BY <2>1 DEF CInv, ReaderInv, Types
  <2>. QED BY <2>1, <2>2, <2>3 DEF CInv, Types
<1>3. CASE EndPublish
  <2>1. /\ sequence = 2 * published + 1 /\ sequence' = 2 * published'
        /\ published' = published + 1 /\ reader' = reader
        /\ word' = word /\ unstored' = unstored /\ unstored = {}
        /\ sequence < sequence'
    BY <1>3, Parity DEF EndPublish, CInv, WriterInv, Types
  <2>2. word = Whole(published + 1)
    BY <2>1 DEF CInv, WriterInv, Types, Whole
  <2>3. WriterInv'
    BY <2>1, <2>2 DEF CInv, WriterInv, Types, Whole
  <2>4. ReaderInv'
    BY <2>1 DEF CInv, ReaderInv, Types, ReaderRecord
  <2>. QED BY <2>1, <2>3, <2>4 DEF CInv, Types
<1>. QED BY <1>1, <1>2, <1>3 DEF Worker

LEMMA LoadInvariant ==
  ASSUME CInv, NEW r \in Readers, Load(r)
  PROVE  /\ CInv' /\ UNCHANGED published
         /\ \/ \A q \in Readers : reader'[q].got = reader[q].got
            \/ /\ reader'[r].got = Whole(published)
               /\ \A q \in Readers \ {r} : reader'[q].got = reader[q].got
<1>1. CASE StartLoad(r)
  <2>1. /\ reader' = [reader EXCEPT ![r].step = "copy", ![r].before = sequence,
                                    ![r].left = Words]
        /\ sequence % 2 = 0 /\ UNCHANGED <<sequence, word, unstored, published>>
    BY <1>1, Parity DEF StartLoad, CInv, WriterInv, Types
  <2>2. reader' \in [Readers -> ReaderRecord]
    <3>. DEFINE rec == [reader[r] EXCEPT !.step = "copy", !.before = sequence,
                                         !.left = Words]
    <3>1. rec \in ReaderRecord
      BY DEF CInv, Types, ReaderRecord
    <3>2. reader' = [reader EXCEPT ![r] = rec]
      BY <2>1
    <3>. HIDE DEF rec
    <3>. QED BY <3>1, <3>2, Retype DEF CInv, Types
  <2>. QED BY <2>1, <2>2
       DEF CInv, Types, WriterInv, ReaderInv, ReaderRecord
<1>2. ASSUME NEW w \in Words, LoadWord(r, w)
      PROVE  CInv' /\ UNCHANGED published
             /\ \A q \in Readers : reader'[q].got = reader[q].got
  <2>1. /\ reader' = [reader EXCEPT ![r].copy[w] = word[w], ![r].left = @ \ {w}]
        /\ reader[r].step = "copy"
        /\ UNCHANGED <<sequence, word, unstored, published>>
    BY <1>2 DEF LoadWord
  <2>2. word[w] \in Nat
    BY DEF CInv, Types
  <2>3. reader' \in [Readers -> ReaderRecord]
    <3>. DEFINE rec == [reader[r] EXCEPT !.copy = [@ EXCEPT ![w] = word[w]],
                                         !.left = @ \ {w}]
    <3>1. rec \in ReaderRecord
      BY <2>2 DEF CInv, Types, ReaderRecord
    <3>2. reader' = [reader EXCEPT ![r] = rec]
      BY <2>1
    <3>. HIDE DEF rec
    <3>. QED BY <3>1, <3>2, Retype DEF CInv, Types
  <2>4. /\ reader'[r].step = "copy" /\ reader'[r].before = reader[r].before
        /\ reader'[r].left = reader[r].left \ {w}
        /\ reader'[r].copy = [reader[r].copy EXCEPT ![w] = word[w]]
        /\ reader'[r].got = reader[r].got
        /\ \A q \in Readers \ {r} : reader'[q] = reader[q]
    BY <2>1 DEF CInv, Types, ReaderRecord
  <2>5. reader[r].before = sequence => word[w] = published
    <3>1. reader[r].before % 2 = 0
      BY <2>1 DEF CInv, ReaderInv
    <3>. QED BY <3>1, Parity DEF CInv, WriterInv, Types
  <2>6. ReaderInv'
    BY <2>1, <2>2, <2>3, <2>4, <2>5 DEF CInv, Types, ReaderInv, ReaderRecord
  <2>. QED BY <2>1, <2>3, <2>4, <2>6 DEF CInv, Types, WriterInv
<1>3. CASE EndLoad(r) /\ sequence = reader[r].before
  <2>1. /\ reader' = [reader EXCEPT ![r] = Loaded(reader[r].copy)]
        /\ reader[r].left = {} /\ reader[r].step = "copy"
        /\ UNCHANGED <<sequence, word, unstored, published>>
    BY <1>3 DEF EndLoad
  <2>2. reader[r].copy = Whole(published)
    BY <1>3, <2>1 DEF CInv, Types, ReaderInv, ReaderRecord, Whole
  <2>3. reader' \in [Readers -> ReaderRecord]
    <3>. DEFINE rec == Loaded(reader[r].copy)
    <3>1. rec \in ReaderRecord
      BY DEF CInv, Types, ReaderRecord, Loaded, Whole
    <3>2. reader' = [reader EXCEPT ![r] = rec]
      BY <2>1
    <3>. HIDE DEF rec
    <3>. QED BY <3>1, <3>2, Retype DEF CInv, Types
  <2>4. ReaderInv'
    BY <2>1, <2>3 DEF CInv, Types, ReaderInv, ReaderRecord, Loaded
  <2>5. reader'[r].got = Whole(published)
        /\ \A q \in Readers \ {r} : reader'[q].got = reader[q].got
    BY <2>1, <2>2 DEF CInv, Types, ReaderRecord, Loaded
  <2>. QED BY <2>1, <2>3, <2>4, <2>5 DEF CInv, Types, WriterInv
<1>4. CASE EndLoad(r) /\ sequence # reader[r].before
  <2>. DEFINE rec == [Loaded(reader[r].got) EXCEPT !.step = "retry"]
  <2>1. /\ reader' = [reader EXCEPT ![r] = rec]
        /\ UNCHANGED <<sequence, word, unstored, published>>
    BY <1>4 DEF EndLoad
  <2>2. reader' \in [Readers -> ReaderRecord]
    <3>1. rec \in ReaderRecord
      BY DEF CInv, Types, ReaderRecord, Loaded, Whole
    <3>. HIDE DEF rec
    <3>. QED BY <2>1, <3>1, Retype DEF CInv, Types
  <2>3. /\ reader'[r].step = "retry" /\ reader'[r].got = reader[r].got
        /\ \A q \in Readers \ {r} : reader'[q] = reader[q]
    BY <2>1 DEF CInv, Types, ReaderRecord, Loaded
  <2>4. ReaderInv'
    BY <2>1, <2>3 DEF CInv, ReaderInv
  <2>5. Types' /\ WriterInv'
    BY <2>1, <2>2 DEF CInv, Types, WriterInv, Whole
  <2>. QED BY <2>1, <2>3, <2>4, <2>5 DEF CInv
<1>. QED BY <1>1, <1>2, <1>3, <1>4 DEF Load

\* Every step keeps the invariant and is a step of the atomic anchor.
LEMMA ClockNextInvariant ==
  ASSUME CInv, [ClockNext]_clockVars
  PROVE  CInv' /\ [Anchor!Next]_<<Whole(published), [r \in Readers |-> reader[r].got]>>
<1>1. CASE UNCHANGED clockVars
  BY <1>1 DEF clockVars, CInv, Types, WriterInv, ReaderInv, Whole
<1>2. CASE Worker
  <2>1. CInv' /\ UNCHANGED reader
        /\ (UNCHANGED published \/ published' = published + 1)
    BY <1>2, PublishInvariant
  <2>2. published' = published + 1 => Whole(published') # Whole(published)
    <3>1. PICK w \in Words : TRUE
      BY ProgressClockAssumption
    <3>. QED BY <3>1 DEF Whole, CInv, Types
  <2>. QED BY <2>1, <2>2 DEF Anchor!Next, Anchor!Publish, Whole
<1>3. ASSUME NEW r \in Readers, Load(r)
      PROVE  CInv' /\ [Anchor!Next]_<<Whole(published), [q \in Readers |-> reader[q].got]>>
  <2>1. /\ CInv' /\ UNCHANGED published
        /\ \/ \A q \in Readers : reader'[q].got = reader[q].got
           \/ /\ reader'[r].got = Whole(published)
              /\ \A q \in Readers \ {r} : reader'[q].got = reader[q].got
    BY <1>3, LoadInvariant
  <2>2. UNCHANGED Whole(published)
    BY <2>1 DEF Whole
  <2>. QED BY <2>1, <2>2 DEF Anchor!Next, Anchor!Read
<1>. QED BY <1>1, <1>2, <1>3 DEF ClockNext

\* The sequence lock implements the atomic anchor: no load ever mixes two
\* publications or returns one that was not current during the load.
THEOREM ClockIsAtomic == ClockSpec => LoadsAreAtomic
<1>1. ClockInit => [r \in Readers |-> reader[r].got] = [r \in Readers |-> Whole(published)]
  BY DEF ClockInit, Loaded
<1>2. ClockInit => CInv
  BY ClockInitInvariant
<1>3. CInv /\ [ClockNext]_clockVars => CInv'
  BY ClockNextInvariant
<1>4. CInv /\ [ClockNext]_clockVars
        => [Anchor!Next]_<<Whole(published), [r \in Readers |-> reader[r].got]>>
  BY ClockNextInvariant
<1>. QED BY <1>1, <1>2, <1>3, <1>4, PTL DEF ClockSpec, LoadsAreAtomic, Anchor!Spec
-----------------------------------------------------------------------------
(***************************************************************************)
(* Session.  A caller reads the words of an end one by one, so the         *)
(* invariant says what each word implies about the thread that stores      *)
(* them: an outcome, that the thread has returned with it; a lifecycle     *)
(* that is over, that outcome and panic flag are already stored; the       *)
(* completed flag, that everything is.  What a caller has read of an end   *)
(* stays true because the words of an end are stored once.                 *)
(***************************************************************************)
Lifecycles == {"new", "running", "finished", "poisoned"}
Ends == {"finished", "quit", "skip", "error"}
Stored == {"panicked", "lifecycle", "done", "gone"}
Returned == {"outcome"} \cup Stored
Frozen == {"telemetry", "return"} \cup Returned
Loop == {"playing", "publishing", "finalize", "freezing", "telemetry", "return"}

ThreadRecord ==
  [at : {"unborn", "boot", "booting"} \cup Loop \cup Returned, booted : BOOLEAN,
   end : {"played", "failed", "panicked"}, result : Ends \cup {"none"}]

CallRecord ==
  [op : Ops \cup {"none"},
   at : {"idle", "config", "spawn", "handle", "wait", "thread", "anchor",
         "status", "store", "signal"},
   seen : Lifecycles \cup {"none"},
   result : Lifecycles \cup Ends \cup {"none", "ok", "timeout", "panicked"}]

SessionTypes ==
  /\ lifecycle \in Lifecycles
  /\ outcome \in Ends \cup {"none"}
  /\ panicked \in BOOLEAN /\ done \in BOOLEAN
  /\ telemetry \in {"none", "there", "taken"}
  /\ thread \in ThreadRecord
  /\ call \in [Callers -> CallRecord]

(* What the words say about the thread, whatever the callers do. *)
WordsInv ==
  /\ outcome = IF thread.at \in Stored THEN thread.result ELSE "none"
  /\ thread.at \in {"done", "gone"} =>
       lifecycle = IF thread.end = "panicked" THEN "poisoned" ELSE "finished"
  /\ thread.at \notin {"unborn", "done", "gone"} => lifecycle = "running"
  /\ thread.at = "unborn" => lifecycle # "finished"
  /\ thread.at \in {"lifecycle", "done", "gone"} /\ thread.end = "panicked" => panicked
  /\ done => thread.at = "gone"

(* What the thread has done when it returns. *)
ThreadInv ==
  /\ thread.at \in {"unborn", "boot", "booting"} => ~thread.booted
  /\ thread.at \in Loop => thread.booted
  /\ thread.at \in Returned => thread.result # "none"
  /\ thread.booted /\ thread.at \in Returned /\ thread.result # "error" =>
       thread.end = "played"
  /\ thread.booted /\ thread.at \in Frozen /\ thread.end = "played" =>
       terminal = published /\ terminal # 0
  /\ thread.booted /\ thread.at \in {"return"} \cup Returned /\ thread.end # "panicked" =>
       telemetry # "none"

Arming(c) == In(c, "arm", "config") \/ In(c, "arm", "spawn")

(* One caller at most arms the session, before the thread is there. *)
ArmInv ==
  /\ \A c \in Callers : Arming(c) => lifecycle = "running" /\ thread.at = "unborn"
  /\ \A c, d \in Callers : Arming(c) /\ Arming(d) => c = d

(* What a caller has read of an end, or was told of it, is still so. *)
CallerInv(c) ==
  /\ /\ In(c, "poll", "anchor") \/ In(c, "poll", "status")
     /\ call[c].seen \in {"finished", "poisoned"}
     => lifecycle = call[c].seen
  /\ In(c, "poll", "status") /\ call[c].seen = "finished" =>
       reader[c].got = Whole(published)
  /\ Polled(c, Ends) =>
       lifecycle = "finished" /\ call[c].result = outcome
         /\ reader[c].got = Whole(published)
  /\ Polled(c, {"poisoned"}) => lifecycle = "poisoned" /\ thread.at = "unborn"
  /\ In(c, "join", "thread") => done
  /\ In(c, "join", "idle") /\ call[c].result = "ok" => done

CallInv == \A c \in Callers : CallerInv(c)

SInv == CInv /\ SessionTypes /\ WordsInv /\ ThreadInv /\ ArmInv /\ CallInv

LEMMA OrderFacts ==
  /\ ReturnOrder[1] = "outcome"
  /\ After("outcome") = "panicked" /\ After("panicked") = "lifecycle"
  /\ After("lifecycle") = "done" /\ After("done") = "gone"
<1>1. Len(ReturnOrder) = 5
  BY DEF ReturnOrder
<1>2. /\ ReturnOrder[1] = "outcome" /\ ReturnOrder[2] = "panicked"
      /\ ReturnOrder[3] = "lifecycle" /\ ReturnOrder[4] = "done"
      /\ ReturnOrder[5] = "gone"
  BY DEF ReturnOrder
<1>3. ASSUME NEW n \in 1 .. 4
      PROVE  (CHOOSE i \in 1 .. 4 : ReturnOrder[i] = ReturnOrder[n]) = n
  <2>1. \A i \in 1 .. 4 : ReturnOrder[i] = ReturnOrder[n] => i = n
    BY <1>2
  <2>. QED BY <2>1
<1>. QED BY <1>1, <1>2, <1>3 DEF After

(* How the helpers of the callers change the record of a call. *)
LEMMA CallRecords ==
  ASSUME call \in [Callers -> CallRecord], NEW c \in Callers
  PROVE  /\ \A rec \in CallRecord :
              call' = [call EXCEPT ![c] = rec] =>
                /\ call' \in [Callers -> CallRecord] /\ call'[c] = rec
                /\ \A d \in Callers \ {c} : call'[d] = call[d]
         /\ \A at \in {"config", "spawn", "handle", "thread", "status", "signal"} :
              Goto(c, at) =>
                /\ call' \in [Callers -> CallRecord] /\ call'[c].at = at
                /\ call'[c].op = call[c].op /\ call'[c].seen = call[c].seen
                /\ \A d \in Callers \ {c} : call'[d] = call[d]
         /\ \A result \in Lifecycles \cup Ends \cup {"none", "ok", "timeout", "panicked"} :
              Return(c, result) =>
                /\ call' \in [Callers -> CallRecord] /\ call'[c].at = "idle"
                /\ call'[c].op = call[c].op /\ call'[c].result = result
                /\ \A d \in Callers \ {c} : call'[d] = call[d]
<1>1. call[c] \in CallRecord
  OBVIOUS
<1>2. ASSUME NEW at \in {"config", "spawn", "handle", "thread", "status", "signal"},
             Goto(c, at)
      PROVE  /\ call' \in [Callers -> CallRecord] /\ call'[c].at = at
             /\ call'[c].op = call[c].op /\ call'[c].seen = call[c].seen
             /\ \A d \in Callers \ {c} : call'[d] = call[d]
  <2>. DEFINE rec == [call[c] EXCEPT !.at = at]
  <2>1. call' = [call EXCEPT ![c] = rec]
    BY <1>2 DEF Goto
  <2>2. rec \in CallRecord /\ rec.at = at /\ rec.op = call[c].op /\ rec.seen = call[c].seen
    BY <1>1 DEF CallRecord
  <2>. HIDE DEF rec
  <2>. QED BY <2>1, <2>2
<1>3. ASSUME NEW result \in Lifecycles \cup Ends \cup {"none", "ok", "timeout", "panicked"},
             Return(c, result)
      PROVE  /\ call' \in [Callers -> CallRecord] /\ call'[c].at = "idle"
             /\ call'[c].op = call[c].op /\ call'[c].result = result
             /\ \A d \in Callers \ {c} : call'[d] = call[d]
  <2>. DEFINE rec == [call[c] EXCEPT !.at = "idle", !.seen = "none", !.result = result]
  <2>1. call' = [call EXCEPT ![c] = rec]
    BY <1>3 DEF Return
  <2>2. rec \in CallRecord /\ rec.at = "idle" /\ rec.op = call[c].op /\ rec.result = result
    BY <1>1 DEF CallRecord
  <2>. HIDE DEF rec
  <2>. QED BY <2>1, <2>2
<1>. QED BY <1>2, <1>3

LEMMA SessionInitInvariant == Init => SInv
<1> SUFFICES ASSUME Init PROVE SInv
  OBVIOUS
<1>1. CInv
  BY ClockInitInvariant DEF Init
<1>2. SessionTypes
  BY DEF Init, SessionTypes, Unborn, NoCall, ThreadRecord, CallRecord, Lifecycles,
         Ends
<1>3. WordsInv /\ ThreadInv
  BY DEF Init, WordsInv, ThreadInv, Unborn, Stored, Returned, Frozen, Loop
<1>4. ArmInv /\ CallInv
  BY DEF Init, ArmInv, CallInv, CallerInv, Arming, In, Polled, NoCall
<1>. QED BY <1>1, <1>2, <1>3, <1>4 DEF SInv

(* What others may not change under a caller that was told of an end. *)
Stays ==
  /\ lifecycle \in {"finished", "poisoned"} => lifecycle' = lifecycle
  /\ lifecycle = "finished" => outcome' = outcome /\ published' = published
  /\ lifecycle = "poisoned" /\ thread.at = "unborn" => thread'.at = "unborn"
  /\ done => done'

LEMMA CallerKept ==
  ASSUME NEW c \in Callers, CallerInv(c), Stays, call'[c] = call[c],
         reader'[c].got = reader[c].got
  PROVE  CallerInv(c)'
BY DEF CallerInv, Stays, In, Polled, Whole

(* A step of the thread that publishes nothing. *)
LEMMA QuietThreadStep ==
  ASSUME SInv,
         \/ BootRefuses \/ Panics \/ LoopEnds \/ FreezeFails \/ PublishTelemetry
         \/ Returns \/ StoreOutcome \/ StorePanicked \/ StoreLifecycle \/ StoreDone
  PROVE  /\ UNCHANGED <<clockVars, call, terminal>> /\ thread.at # "unborn"
         /\ SessionTypes' /\ WordsInv' /\ ThreadInv' /\ Stays
<1>. USE OrderFacts DEF SInv, SessionTypes, clockVars, words
<1>1. CASE BootRefuses
  <2>1. /\ thread.at = "boot" /\ thread'.at = "outcome"
        /\ thread'.booted = thread.booted /\ thread'.result = "finished"
        /\ thread'.end = thread.end /\ thread' \in ThreadRecord
        /\ UNCHANGED <<clockVars, words, terminal, call>>
    BY <1>1 DEF BootRefuses, ThreadRecord, Returned, Ends
  <2>. QED BY <2>1 DEF WordsInv, ThreadInv, Stays, Stored, Returned, Frozen, Loop
<1>8. CASE Panics
  <2>1. /\ thread.at \in {"boot", "finalize", "telemetry"} /\ thread'.at = "outcome"
        /\ thread'.booted = thread.booted /\ thread'.result = "error"
        /\ thread'.end = "panicked" /\ thread' \in ThreadRecord
        /\ UNCHANGED <<clockVars, words, terminal, call>>
    BY <1>8 DEF Panics, ThreadRecord, Returned, Ends
  <2>. QED BY <2>1 DEF WordsInv, ThreadInv, Stays, Stored, Returned, Frozen, Loop
<1>2. CASE LoopEnds \/ FreezeFails
  <2>1. /\ thread.at \in {"playing", "finalize"} /\ thread'.at \in {"finalize", "telemetry"}
        /\ thread'.booted = thread.booted /\ thread'.result = thread.result
        /\ thread'.at = "telemetry" => thread'.end # "played"
        /\ thread' \in ThreadRecord
        /\ UNCHANGED <<clockVars, words, terminal, call>>
    BY <1>2 DEF LoopEnds, FreezeFails, ThreadRecord, Loop
  <2>. QED BY <2>1 DEF WordsInv, ThreadInv, Stays, Stored, Returned, Frozen, Loop
<1>3. CASE PublishTelemetry
  <2>1. /\ thread.at = "telemetry" /\ thread'.at = "return" /\ telemetry' = "there"
        /\ thread'.booted = thread.booted /\ thread'.result = thread.result
        /\ thread'.end = thread.end /\ thread' \in ThreadRecord
        /\ UNCHANGED <<clockVars, lifecycle, outcome, panicked, done, terminal, call>>
    BY <1>3 DEF PublishTelemetry, ThreadRecord, Loop
  <2>. QED BY <2>1 DEF WordsInv, ThreadInv, Stays, Stored, Returned, Frozen, Loop
<1>4. CASE Returns
  <2>1. /\ thread.at = "return" /\ thread'.at = "outcome"
        /\ thread'.booted = thread.booted /\ thread'.end = thread.end
        /\ thread'.result \in Ends /\ (thread'.result # "error" => thread.end = "played")
        /\ thread' \in ThreadRecord
        /\ UNCHANGED <<clockVars, words, terminal, call>>
    BY <1>4 DEF Returns, ThreadRecord, Returned, Ends
  <2>. QED BY <2>1 DEF WordsInv, ThreadInv, Stays, Stored, Returned, Frozen, Loop, Ends
<1>5. CASE StoreOutcome \/ StorePanicked
  <2>1. /\ thread.at \in {"outcome", "panicked"}
        /\ thread.at = "outcome" => thread'.at = "panicked" /\ outcome' = thread.result
                                    /\ panicked' = panicked
        /\ thread.at = "panicked" => thread'.at = "lifecycle" /\ outcome' = outcome
                                     /\ panicked' = (thread.end = "panicked")
        /\ thread'.booted = thread.booted /\ thread'.result = thread.result
        /\ thread'.end = thread.end /\ thread' \in ThreadRecord
        /\ UNCHANGED <<clockVars, lifecycle, done, telemetry, terminal, call>>
    BY <1>5 DEF StoreOutcome, StorePanicked, ThreadRecord, Returned, Stored
  <2>2. SessionTypes'
    BY <2>1 DEF ThreadRecord
  <2>. QED BY <2>1, <2>2 DEF WordsInv, ThreadInv, Stays, Stored, Returned, Frozen, Loop
<1>6. CASE StoreLifecycle
  <2>1. /\ thread.at = "lifecycle" /\ thread'.at = "done" /\ lifecycle = "running"
        /\ lifecycle' = IF thread.end = "panicked" THEN "poisoned" ELSE "finished"
        /\ thread'.booted = thread.booted /\ thread'.result = thread.result
        /\ thread'.end = thread.end /\ thread' \in ThreadRecord
        /\ UNCHANGED <<clockVars, outcome, panicked, done, telemetry, terminal, call>>
    BY <1>6 DEF StoreLifecycle, ThreadRecord, Returned, Stored, WordsInv
  <2>2. SessionTypes'
    BY <2>1 DEF Lifecycles
  <2>. QED BY <2>1, <2>2 DEF WordsInv, ThreadInv, Stays, Stored, Returned, Frozen, Loop
<1>7. CASE StoreDone
  <2>1. /\ thread.at = "done" /\ thread'.at = "gone" /\ done' = TRUE
        /\ thread'.booted = thread.booted /\ thread'.result = thread.result
        /\ thread'.end = thread.end /\ thread' \in ThreadRecord
        /\ UNCHANGED <<clockVars, lifecycle, outcome, panicked, telemetry, terminal, call>>
    BY <1>7 DEF StoreDone, ThreadRecord, Returned, Stored
  <2>. QED BY <2>1 DEF WordsInv, ThreadInv, Stays, Stored, Returned, Frozen, Loop
<1>. QED BY <1>1, <1>2, <1>3, <1>4, <1>5, <1>6, <1>7, <1>8

(* A step of the thread that publishes: the number of publications moves only *)
(* while the thread is still in its loop.                                     *)
LEMMA PublishingThreadStep ==
  ASSUME SInv, BootPublishes \/ PauseOrResume \/ Freeze \/ PublishStep
  PROVE  /\ Worker /\ UNCHANGED call /\ thread.at # "unborn"
         /\ SessionTypes' /\ WordsInv' /\ ThreadInv' /\ Stays
<1>. USE DEF SInv, SessionTypes, words
<1>1. CASE BootPublishes \/ PauseOrResume \/ Freeze
  <2>1. /\ BeginPublish /\ UNCHANGED published
        /\ thread.at \in {"boot", "playing", "finalize"}
        /\ thread'.at = IF thread.at = "boot" THEN "booting"
                        ELSE IF thread.at = "playing" THEN "publishing" ELSE "freezing"
        /\ thread'.booted = thread.booted /\ thread'.result = thread.result
        /\ thread'.end = thread.end /\ thread' \in ThreadRecord
        /\ UNCHANGED <<words, terminal, call>>
    BY <1>1 DEF BootPublishes, PauseOrResume, Freeze, Publishes, BeginPublish,
                ThreadRecord, Loop
  <2>. QED BY <2>1 DEF Worker, WordsInv, ThreadInv, Stays, Stored, Returned, Frozen, Loop
<1>2. ASSUME Publishing, UNCHANGED <<words, call, terminal, thread>>,
             \E w \in Words : StoreWord(w)
      PROVE  Worker /\ UNCHANGED published /\ SessionTypes' /\ WordsInv' /\ ThreadInv' /\ Stays
  <2>1. Worker /\ UNCHANGED published
    BY <1>2 DEF Worker, StoreWord
  <2>. QED BY <1>2, <2>1
       DEF Publishing, WordsInv, ThreadInv, Stays, Stored, Returned, Frozen, Loop
<1>3. ASSUME Publishing, UNCHANGED <<words, call>>, EndPublish,
             IF thread.at = "freezing"
               THEN /\ terminal' = published'
                    /\ thread' = [thread EXCEPT !.at = "telemetry"]
               ELSE /\ thread' = [thread EXCEPT !.at = "playing", !.booted = TRUE]
                    /\ UNCHANGED terminal
      PROVE  Worker /\ SessionTypes' /\ WordsInv' /\ ThreadInv' /\ Stays
  <2>1. Worker /\ published' # 0
    BY <1>3 DEF Worker, EndPublish, CInv, Types
  <2>2. CASE thread.at = "freezing"
    <3>1. /\ thread'.at = "telemetry" /\ thread'.booted = thread.booted
          /\ thread'.result = thread.result /\ thread'.end = thread.end
          /\ thread' \in ThreadRecord /\ terminal' = published'
      BY <1>3, <2>2 DEF ThreadRecord, Loop
    <3>. QED BY <1>3, <2>1, <2>2, <3>1
         DEF WordsInv, ThreadInv, Stays, Stored, Returned, Frozen, Loop
  <2>3. CASE thread.at \in {"booting", "publishing"}
    <3>1. /\ thread'.at = "playing" /\ thread'.booted = TRUE
          /\ thread'.result = thread.result /\ thread'.end = thread.end
          /\ thread' \in ThreadRecord
      BY <1>3, <2>3 DEF ThreadRecord, Loop
    <3>. QED BY <1>3, <2>1, <2>3, <3>1
         DEF WordsInv, ThreadInv, Stays, Stored, Returned, Frozen, Loop
  <2>. QED BY <1>3, <2>2, <2>3, <2>1 DEF Publishing
<1>4. CASE PublishStep
  <2>1. Publishing /\ UNCHANGED <<words, call>> /\ thread.at # "unborn"
    BY <1>4 DEF PublishStep, Publishing
  <2>. QED BY <1>2, <1>3, <1>4, <2>1 DEF PublishStep
<1>. QED BY <1>1, <1>4

Others(c) == \A d \in Callers \ {c} : call'[d] = call[d]

(* The record of a call that begins, and what writing it leaves of the rest. *)
Rec(op, at, seen, result) ==
  [op |-> op, at |-> at, seen |-> seen, result |-> result]

Puts(c, rec) == call' = [call EXCEPT ![c] = rec]

LEMMA NewRecord ==
  ASSUME NEW op \in Ops, NEW seen \in Lifecycles \cup {"none"},
         NEW at \in {"idle", "config", "wait", "anchor", "store"},
         NEW result \in {"none", "error"}
  PROVE  Rec(op, at, seen, result) \in CallRecord
<1>1. op \in Ops \cup {"none"}
      /\ at \in {"idle", "config", "spawn", "handle", "wait", "thread",
                "anchor", "status", "store", "signal"}
      /\ result \in Lifecycles \cup Ends \cup {"none", "ok", "timeout", "panicked"}
  BY DEF Ends
<1>. QED BY <1>1 DEF CallRecord, Rec

LEMMA NewCall ==
  ASSUME call \in [Callers -> CallRecord], NEW c \in Callers,
         NEW op, NEW at, NEW seen, NEW result, Rec(op, at, seen, result) \in CallRecord,
         Puts(c, Rec(op, at, seen, result))
  PROVE  /\ call' \in [Callers -> CallRecord] /\ Others(c)
         /\ call'[c].op = op /\ call'[c].at = at /\ call'[c].seen = seen
         /\ call'[c].result = result
<1>1. call' \in [Callers -> CallRecord] /\ call'[c] = Rec(op, at, seen, result)
      /\ \A d \in Callers \ {c} : call'[d] = call[d]
  BY CallRecords DEF Puts
<1>. QED BY <1>1 DEF Others, Rec

(* A call that leaves the words of the end alone, and arms only if it did. *)
LEMMA QuietCall ==
  ASSUME SInv, NEW c \in Callers, Others(c), call' \in [Callers -> CallRecord],
         UNCHANGED <<lifecycle, outcome, panicked, done, thread, terminal, published>>,
         telemetry' \in {"none", "there", "taken"}, telemetry # "none" => telemetry' # "none",
         Arming(c)' => Arming(c)
  PROVE  SessionTypes' /\ WordsInv' /\ ThreadInv' /\ Stays /\ ArmInv'
<1>1. SessionTypes' /\ WordsInv' /\ ThreadInv' /\ Stays
  BY DEF SInv, SessionTypes, WordsInv, ThreadInv, Stays
<1>2. \A d \in Callers : Arming(d)' => Arming(d)
  BY DEF Others, Arming, In
<1>. QED BY <1>1, <1>2 DEF SInv, ArmInv

(* Calls that begin. *)
LEMMA CallStartsInvariant ==
  ASSUME SInv, NEW c \in Callers, CallStarts(c)
  PROVE  /\ UNCHANGED clockVars /\ Others(c)
         /\ SessionTypes' /\ WordsInv' /\ ThreadInv' /\ ArmInv' /\ Stays /\ CallerInv(c)'
<1>. USE DEF SInv, words, clockVars, In, Polled
<1>1. /\ call \in [Callers -> CallRecord]
      /\ Rec("arm", "config", "none", "none") \in CallRecord
      /\ Rec("arm", "idle", "none", "error") \in CallRecord
      /\ Rec("poll", "anchor", lifecycle, "none") \in CallRecord
      /\ Rec("telemetry", "idle", "none", "none") \in CallRecord
      /\ \A at \in {"idle", "wait"}, result \in {"none", "error"} :
           Rec("join", at, "none", result) \in CallRecord
      /\ \A op \in Stops, at \in {"idle", "store"}, result \in {"none", "error"} :
           Rec(op, at, "none", result) \in CallRecord
  <2>1. /\ "arm" \in Ops /\ "join" \in Ops /\ "poll" \in Ops /\ "telemetry" \in Ops
        /\ Stops \subseteq Ops
    BY DEF Ops
  <2>2. call \in [Callers -> CallRecord] /\ lifecycle \in Lifecycles \cup {"none"}
    BY DEF SessionTypes
  <2>. QED BY <2>1, <2>2, NewRecord
<1>2. CASE ArmCas(c) /\ lifecycle = "new"
  <2>1. /\ Puts(c, Rec("arm", "config", "none", "none"))
        /\ lifecycle' = "running"
        /\ UNCHANGED <<clockVars, outcome, panicked, done, telemetry, terminal, thread>>
    BY <1>2 DEF Puts, Rec, ArmCas, Starts
  <2>2. /\ call' \in [Callers -> CallRecord] /\ Others(c)
        /\ call'[c].op = "arm" /\ call'[c].at = "config"
        /\ call'[c].seen = "none" /\ call'[c].result = "none"
    BY <1>1, <2>1, NewCall
  <2>3. thread.at = "unborn"
    BY <1>2 DEF WordsInv
  <2>4. SessionTypes' /\ WordsInv' /\ ThreadInv' /\ Stays
    BY <1>2, <2>1, <2>2, <2>3 DEF SessionTypes, Lifecycles, WordsInv, ThreadInv, Stays
  <2>5. \A d \in Callers : Arming(d)' => d = c
    BY <1>2, <2>2 DEF ArmInv, Arming, Others
  <2>6. ArmInv'
    BY <2>1, <2>3, <2>5 DEF ArmInv
  <2>. QED BY <2>1, <2>2, <2>4, <2>6 DEF CallerInv
<1>3. CASE ArmCas(c) /\ lifecycle # "new"
  <2>1. /\ Puts(c, Rec("arm", "idle", "none", "error"))
        /\ UNCHANGED <<clockVars, lifecycle, outcome, panicked, done, telemetry, terminal,
                       thread>>
    BY <1>3 DEF Puts, Rec, ArmCas, Refused
  <2>2. /\ call' \in [Callers -> CallRecord] /\ Others(c)
        /\ call'[c].op = "arm" /\ call'[c].at = "idle"
        /\ call'[c].seen = "none" /\ call'[c].result = "error"
    BY <1>1, <2>1, NewCall
  <2>3. SessionTypes' /\ WordsInv' /\ ThreadInv' /\ Stays /\ ArmInv'
    <3>1. Arming(c)' => Arming(c)
      BY <2>2 DEF Arming
    <3>2. telemetry' \in {"none", "there", "taken"} /\ (telemetry # "none" => telemetry' # "none")
      BY <2>1 DEF SessionTypes
    <3>. QED BY <2>1, <2>2, <3>1, <3>2, QuietCall
  <2>4. CallerInv(c)'
    BY <2>2 DEF CallerInv
  <2>. QED BY <2>1, <2>2, <2>3, <2>4
<1>4. CASE JoinChecks(c)
  <2>1. /\ \E at \in {"idle", "wait"}, result \in {"none", "error"} :
             Puts(c, Rec("join", at, "none", result))
        /\ UNCHANGED <<clockVars, words, terminal, thread>>
    BY <1>4 DEF Puts, Rec, JoinChecks, Refused, Starts
  <2>2. PICK at \in {"idle", "wait"}, result \in {"none", "error"} :
          Puts(c, Rec("join", at, "none", result))
    BY <2>1
  <2>3. /\ call' \in [Callers -> CallRecord] /\ Others(c)
        /\ call'[c].op = "join" /\ call'[c].at = at
        /\ call'[c].seen = "none" /\ call'[c].result = result
    BY <1>1, <2>2, NewCall
  <2>4. SessionTypes' /\ WordsInv' /\ ThreadInv' /\ Stays /\ ArmInv'
    <3>1. Arming(c)' => Arming(c)
      BY <2>3 DEF Arming
    <3>2. telemetry' \in {"none", "there", "taken"} /\ (telemetry # "none" => telemetry' # "none")
      BY <2>1 DEF SessionTypes
    <3>. QED BY <2>1, <2>3, <3>1, <3>2, QuietCall
  <2>5. CallerInv(c)'
    BY <2>3 DEF CallerInv
  <2>. QED BY <2>1, <2>3, <2>4, <2>5
<1>5. CASE PollReadsLifecycle(c)
  <2>1. /\ Puts(c, Rec("poll", "anchor", lifecycle, "none"))
        /\ UNCHANGED <<clockVars, words, terminal, thread>>
    BY <1>5 DEF Puts, Rec, PollReadsLifecycle
  <2>2. /\ call' \in [Callers -> CallRecord] /\ Others(c)
        /\ call'[c].op = "poll" /\ call'[c].at = "anchor"
        /\ call'[c].seen = lifecycle /\ call'[c].result = "none"
    BY <1>1, <2>1, NewCall
  <2>3. SessionTypes' /\ WordsInv' /\ ThreadInv' /\ Stays /\ ArmInv'
    <3>1. Arming(c)' => Arming(c)
      BY <2>2 DEF Arming
    <3>2. telemetry' \in {"none", "there", "taken"} /\ (telemetry # "none" => telemetry' # "none")
      BY <2>1 DEF SessionTypes
    <3>. QED BY <2>1, <2>2, <3>1, <3>2, QuietCall
  <2>4. CallerInv(c)'
    BY <2>1, <2>2 DEF CallerInv, Ends
  <2>. QED BY <2>1, <2>2, <2>3, <2>4
<1>6. CASE TakeTelemetry(c)
  <2>1. /\ Puts(c, Rec("telemetry", "idle", "none", "none"))
        /\ telemetry' = IF telemetry = "there" THEN "taken" ELSE telemetry
        /\ UNCHANGED <<clockVars, lifecycle, outcome, panicked, done, terminal, thread>>
    BY <1>6 DEF Puts, Rec, TakeTelemetry, Starts
  <2>2. /\ call' \in [Callers -> CallRecord] /\ Others(c)
        /\ call'[c].op = "telemetry" /\ call'[c].at = "idle"
        /\ call'[c].seen = "none" /\ call'[c].result = "none"
    BY <1>1, <2>1, NewCall
  <2>3. SessionTypes' /\ WordsInv' /\ ThreadInv' /\ Stays /\ ArmInv'
    <3>1. Arming(c)' => Arming(c)
      BY <2>2 DEF Arming
    <3>2. telemetry' \in {"none", "there", "taken"} /\ (telemetry # "none" => telemetry' # "none")
      BY <2>1 DEF SessionTypes
    <3>. QED BY <2>1, <2>2, <3>1, <3>2, QuietCall
  <2>4. CallerInv(c)'
    BY <2>2 DEF CallerInv
  <2>. QED BY <2>1, <2>2, <2>3, <2>4
<1>7. ASSUME NEW op \in Stops, StopChecks(c, op)
      PROVE  /\ UNCHANGED clockVars /\ Others(c)
             /\ SessionTypes' /\ WordsInv' /\ ThreadInv' /\ ArmInv' /\ Stays /\ CallerInv(c)'
  <2>1. /\ \E at \in {"idle", "store"}, result \in {"none", "error"} :
             Puts(c, Rec(op, at, "none", result))
        /\ UNCHANGED <<clockVars, words, terminal, thread>>
    BY <1>7 DEF Puts, Rec, StopChecks, Refused, Starts
  <2>2. op \in Ops /\ op \notin {"poll", "join", "arm"}
    BY SessionAssumption DEF Ops
  <2>3. PICK at \in {"idle", "store"}, result \in {"none", "error"} :
          Puts(c, Rec(op, at, "none", result))
    BY <2>1
  <2>4. /\ call' \in [Callers -> CallRecord] /\ Others(c)
        /\ call'[c].op = op /\ call'[c].at = at
        /\ call'[c].seen = "none" /\ call'[c].result = result
    BY <1>1, <2>2, <2>3, NewCall
  <2>5. SessionTypes' /\ WordsInv' /\ ThreadInv' /\ Stays /\ ArmInv'
    <3>1. Arming(c)' => Arming(c)
      BY <2>4 DEF Arming
    <3>2. telemetry' \in {"none", "there", "taken"} /\ (telemetry # "none" => telemetry' # "none")
      BY <2>1 DEF SessionTypes
    <3>. QED BY <2>1, <2>4, <3>1, <3>2, QuietCall
  <2>6. CallerInv(c)'
    BY <2>2, <2>4 DEF CallerInv
  <2>. QED BY <2>1, <2>4, <2>5, <2>6
<1>. QED BY <1>2, <1>3, <1>4, <1>5, <1>6, <1>7 DEF CallStarts

(* A load that ends returns the last publication, and moves no other reader. *)
LEMMA LoadReturns ==
  ASSUME CInv, NEW r \in Readers, Load(r)
  PROVE  /\ UNCHANGED published
         /\ \A q \in Readers \ {r} : reader'[q].got = reader[q].got
         /\ reader'[r].step = "idle" => reader'[r].got = Whole(published)
<1>1. UNCHANGED published /\ \A q \in Readers \ {r} : reader'[q].got = reader[q].got
  BY LoadInvariant
<1>2. CASE StartLoad(r)
  <2>1. reader'[r].step = "copy"
    BY <1>2 DEF StartLoad, CInv, Types, ReaderRecord
  <2>. QED BY <1>1, <2>1
<1>5. ASSUME NEW w \in Words, LoadWord(r, w)
      PROVE  reader'[r].step # "idle"
  <2>1. reader' = [reader EXCEPT ![r].copy[w] = word[w], ![r].left = @ \ {w}]
        /\ reader[r].step = "copy"
    BY <1>5 DEF LoadWord
  <2>. QED BY <2>1 DEF CInv, Types, ReaderRecord
<1>3. CASE EndLoad(r) /\ sequence # reader[r].before
  <2>1. reader'[r].step = "retry"
    BY <1>3 DEF EndLoad, CInv, Types, ReaderRecord
  <2>. QED BY <1>1, <2>1
<1>4. CASE EndLoad(r) /\ sequence = reader[r].before
  <2>1. reader' = [reader EXCEPT ![r] = Loaded(reader[r].copy)]
        /\ reader[r].left = {} /\ reader[r].step = "copy"
    BY <1>4 DEF EndLoad
  <2>2. reader[r].copy = Whole(published)
    BY <1>4, <2>1 DEF CInv, Types, ReaderInv, ReaderRecord, Whole
  <2>3. reader'[r].got = Whole(published)
    BY <2>1, <2>2 DEF CInv, Types, Loaded
  <2>. QED BY <1>1, <2>3
<1>. QED BY <1>1, <1>2, <1>3, <1>4, <1>5 DEF Load

(* Steps of arm after its first: the thread starts, or never will. *)
LEMMA ArmStepInvariant ==
  ASSUME SInv, NEW c \in Callers, ArmTakesConfig(c) \/ ArmSpawns(c) \/ ArmStoresHandle(c)
  PROVE  /\ UNCHANGED clockVars /\ Others(c)
         /\ SessionTypes' /\ WordsInv' /\ ThreadInv' /\ ArmInv' /\ Stays /\ CallerInv(c)'
<1>. USE DEF SInv, words, clockVars, In, Polled
<1>1. CASE ArmTakesConfig(c) /\ config
  <2>1. /\ call[c].op = "arm" /\ call[c].at = "config" /\ Goto(c, "spawn")
        /\ UNCHANGED <<clockVars, lifecycle, outcome, panicked, done, telemetry, terminal,
                       thread>>
    BY <1>1 DEF ArmTakesConfig
  <2>2. /\ call' \in [Callers -> CallRecord] /\ Others(c)
        /\ call'[c].op = "arm" /\ call'[c].at = "spawn"
    BY <2>1, CallRecords DEF SessionTypes, Others
  <2>. QED BY <2>1, <2>2, QuietCall DEF CallerInv, Arming, SessionTypes
<1>2. CASE (ArmTakesConfig(c) /\ ~config) \/ (ArmSpawns(c) /\ lifecycle' = "poisoned")
  <2>1. /\ Arming(c) /\ lifecycle = "running" /\ thread.at = "unborn"
        /\ \A d \in Callers : Arming(d) => d = c
    BY <1>2 DEF ArmTakesConfig, ArmSpawns, ArmInv, Arming
  <2>2. /\ call[c].op = "arm" /\ Return(c, "error") /\ lifecycle' = "poisoned"
        /\ UNCHANGED <<clockVars, outcome, panicked, done, telemetry, terminal, thread>>
    BY <1>2, <2>1 DEF ArmTakesConfig, ArmSpawns
  <2>3. /\ call' \in [Callers -> CallRecord] /\ Others(c)
        /\ call'[c].op = "arm" /\ call'[c].at = "idle"
    BY <2>2, CallRecords DEF SessionTypes, Others, Ends
  <2>4. SessionTypes' /\ WordsInv' /\ ThreadInv' /\ Stays
    BY <2>1, <2>2, <2>3 DEF SessionTypes, Lifecycles, WordsInv, ThreadInv, Stays
  <2>5. \A d \in Callers : ~Arming(d)'
    BY <2>1, <2>3 DEF Arming, Others
  <2>. QED BY <2>2, <2>3, <2>4, <2>5 DEF ArmInv, CallerInv
<1>3. CASE ArmSpawns(c) /\ lifecycle' # "poisoned"
  <2>1. /\ Arming(c) /\ lifecycle = "running" /\ thread.at = "unborn"
        /\ \A d \in Callers : Arming(d) => d = c
    BY <1>3 DEF ArmSpawns, ArmInv, Arming
  <2>2. /\ call[c].op = "arm" /\ Goto(c, "handle")
        /\ thread' = [thread EXCEPT !.at = "boot"]
        /\ UNCHANGED <<clockVars, lifecycle, outcome, panicked, done, telemetry, terminal>>
    BY <1>3 DEF ArmSpawns
  <2>3. /\ call' \in [Callers -> CallRecord] /\ Others(c)
        /\ call'[c].op = "arm" /\ call'[c].at = "handle"
    BY <2>2, CallRecords DEF SessionTypes, Others
  <2>4. /\ thread'.at = "boot" /\ thread'.booted = thread.booted /\ thread'.end = thread.end
        /\ thread'.result = thread.result /\ thread' \in ThreadRecord
    BY <2>2 DEF SessionTypes, ThreadRecord
  <2>5. SessionTypes' /\ WordsInv' /\ ThreadInv' /\ Stays
    BY <2>1, <2>2, <2>3, <2>4
       DEF SessionTypes, WordsInv, ThreadInv, Stays, Stored, Returned, Frozen, Loop
  <2>6. \A d \in Callers : ~Arming(d)'
    BY <2>1, <2>3 DEF Arming, Others
  <2>. QED BY <2>2, <2>3, <2>5, <2>6 DEF ArmInv, CallerInv
<1>4. CASE ArmStoresHandle(c)
  <2>1. /\ call[c].op = "arm" /\ Return(c, "ok")
        /\ UNCHANGED <<clockVars, lifecycle, outcome, panicked, done, telemetry, terminal,
                       thread>>
    BY <1>4 DEF ArmStoresHandle
  <2>2. /\ call' \in [Callers -> CallRecord] /\ Others(c)
        /\ call'[c].op = "arm" /\ call'[c].at = "idle"
    BY <2>1, CallRecords DEF SessionTypes, Others
  <2>. QED BY <2>1, <2>2, QuietCall DEF CallerInv, Arming, SessionTypes
<1>. QED BY <1>1, <1>2, <1>3, <1>4

(* Steps of join, of the polls and of the stops. *)
LEMMA CallStepInvariant ==
  ASSUME SInv, NEW c \in Callers,
         \/ JoinTimesOut(c) \/ JoinWakes(c) \/ JoinsThread(c)
         \/ PollLoads(c) \/ PollReadsStatus(c)
         \/ \E op \in Stops : StopStores(c, op) \/ StopSignals(c, op)
  PROVE  /\ UNCHANGED clockVars \/ Load(c)
         /\ \A d \in Callers \ {c} : reader'[d].got = reader[d].got
         /\ Others(c)
         /\ SessionTypes' /\ WordsInv' /\ ThreadInv' /\ ArmInv' /\ Stays /\ CallerInv(c)'
<1>. USE DEF SInv, words, In, Polled
<1>1. CASE JoinTimesOut(c)
  <2>1. /\ call[c].op = "join" /\ Return(c, "timeout")
        /\ UNCHANGED <<clockVars, words, terminal, thread>>
    BY <1>1 DEF JoinTimesOut
  <2>2. /\ call' \in [Callers -> CallRecord] /\ Others(c)
        /\ call'[c].op = "join" /\ call'[c].at = "idle" /\ call'[c].result = "timeout"
    BY <2>1, CallRecords DEF SessionTypes, Others
  <2>. QED BY <2>1, <2>2, QuietCall DEF CallerInv, Arming, SessionTypes, clockVars
<1>2. CASE JoinWakes(c) \/ JoinsThread(c)
  <2>1. /\ call[c].op = "join" /\ done /\ (Goto(c, "thread") \/ Return(c, "ok"))
        /\ UNCHANGED <<clockVars, lifecycle, outcome, panicked, done, telemetry, terminal,
                       thread>>
    BY <1>2 DEF JoinWakes, JoinsThread, CallInv, CallerInv
  <2>2. /\ call' \in [Callers -> CallRecord] /\ Others(c) /\ call'[c].op = "join"
    BY <2>1, CallRecords DEF SessionTypes, Others
  <2>. QED BY <2>1, <2>2, QuietCall DEF CallerInv, Arming, SessionTypes, clockVars
<1>3. CASE PollLoads(c)
  <2>1. /\ call[c].op = "poll" /\ call[c].at = "anchor" /\ Load(c)
        /\ IF reader'[c].step = "idle" THEN Goto(c, "status") ELSE UNCHANGED call
        /\ UNCHANGED <<words, terminal, thread>>
    BY <1>3 DEF PollLoads
  <2>2. /\ UNCHANGED published
        /\ \A d \in Callers \ {c} : reader'[d].got = reader[d].got
        /\ reader'[c].step = "idle" => reader'[c].got = Whole(published)
    BY <2>1, LoadReturns DEF Callers
  <2>3. /\ call' \in [Callers -> CallRecord] /\ Others(c)
        /\ call'[c].op = "poll" /\ call'[c].seen = call[c].seen
        /\ \/ call'[c].at = "anchor"
           \/ call'[c].at = "status" /\ reader'[c].got = Whole(published)
    BY <2>1, <2>2, CallRecords DEF SessionTypes, Others
  <2>4. lifecycle' = lifecycle /\ Whole(published)' = Whole(published)
    BY <2>1, <2>2 DEF Whole
  <2>5. CallerInv(c)'
    BY <2>1, <2>3, <2>4 DEF CallInv, CallerInv
  <2>. QED BY <2>1, <2>2, <2>3, <2>5, QuietCall DEF Arming, SessionTypes
<1>4. CASE PollReadsStatus(c)
  <2>. DEFINE seen == call[c].seen
              told == CASE seen = "finished" -> IF outcome = "none" THEN "finished" ELSE outcome
                        [] seen = "poisoned" -> IF panicked THEN "panicked" ELSE "poisoned"
                        [] OTHER -> seen
  <2>1. /\ call[c].op = "poll" /\ call[c].at = "status" /\ Return(c, told)
        /\ UNCHANGED <<clockVars, words, terminal, thread>>
    BY <1>4 DEF PollReadsStatus, Seen
  <2>2. /\ seen \in {"finished", "poisoned"} => lifecycle = seen
        /\ seen = "finished" => reader[c].got = Whole(published)
    BY <2>1 DEF CallInv, CallerInv
  <2>3. lifecycle = "finished" =>
          outcome = thread.result /\ outcome \in Ends
    BY DEF WordsInv, ThreadInv, SessionTypes, Stored, Returned, ThreadRecord, Loop
  <2>4. lifecycle = "poisoned" /\ thread.at # "unborn" => panicked
    BY DEF WordsInv, SessionTypes, ThreadRecord, Loop, Returned, Stored
  <2>5. PICK result \in Lifecycles \cup Ends \cup {"none", "panicked"} :
          /\ Return(c, result)
          /\ result \in Ends => lifecycle = "finished" /\ result = outcome
                                /\ reader[c].got = Whole(published)
          /\ result = "poisoned" => lifecycle = "poisoned" /\ thread.at = "unborn"
    <3>1. seen \in Lifecycles \cup {"none"}
      BY DEF SessionTypes, CallRecord
    <3>. QED BY <2>1, <2>2, <2>3, <2>4, <3>1 DEF Ends, Lifecycles
  <2>6. /\ call' \in [Callers -> CallRecord] /\ Others(c)
        /\ call'[c].op = "poll" /\ call'[c].at = "idle" /\ call'[c].result = result
    BY <2>1, <2>5, CallRecords DEF SessionTypes, Others
  <2>7. CallerInv(c)'
    <3>1. /\ UNCHANGED <<lifecycle, outcome, thread, done, reader>>
          /\ Whole(published)' = Whole(published)
      BY <2>1 DEF Whole, clockVars
    <3>2. call'[c].op # "join"
      BY <2>6
    <3>. QED BY <3>1, <3>2, <2>5, <2>6 DEF CallerInv
  <2>. QED BY <2>1, <2>6, <2>7, QuietCall DEF Arming, SessionTypes, clockVars
<1>5. ASSUME NEW op \in Stops, StopStores(c, op) \/ StopSignals(c, op)
      PROVE  /\ UNCHANGED clockVars /\ Others(c)
             /\ SessionTypes' /\ WordsInv' /\ ThreadInv' /\ ArmInv' /\ Stays /\ CallerInv(c)'
  <2>1. /\ call[c].op = op /\ op \in {"skip", "quit"}
        /\ \/ Goto(c, "signal") \/ \E result \in {"ok", "error"} : Return(c, result)
        /\ UNCHANGED <<clockVars, lifecycle, outcome, panicked, done, telemetry, terminal,
                       thread>>
    BY <1>5, SessionAssumption DEF StopStores, StopSignals
  <2>2. /\ call' \in [Callers -> CallRecord] /\ Others(c) /\ call'[c].op = op
    BY <2>1, CallRecords DEF SessionTypes, Others, Ends
  <2>. QED BY <2>1, <2>2, QuietCall DEF CallerInv, Arming, SessionTypes, clockVars
<1>6. UNCHANGED clockVars => \A d \in Callers \ {c} : reader'[d].got = reader[d].got
  BY DEF clockVars
<1>. QED BY <1>1, <1>2, <1>3, <1>4, <1>5, <1>6

(* Every step of the session keeps the invariant and is a step of the clock. *)
LEMMA SessionNextInvariant ==
  ASSUME SInv, [Next]_vars
  PROVE  SInv' /\ [ClockNext]_clockVars
<1>1. ASSUME [ClockNext]_clockVars PROVE CInv'
  BY <1>1, ClockNextInvariant DEF SInv
<1>2. CASE UNCHANGED vars
  <2>1. UNCHANGED <<clockVars, lifecycle, outcome, panicked, done, telemetry, terminal,
                    thread, call>>
    BY <1>2 DEF vars
  <2>2. SessionTypes' /\ WordsInv' /\ ThreadInv' /\ ArmInv' /\ Stays
    BY <2>1 DEF SInv, SessionTypes, WordsInv, ThreadInv, ArmInv, Arming, In, Stays,
                clockVars
  <2>3. CallInv'
    BY <2>1, <2>2, CallerKept DEF SInv, CallInv, clockVars
  <2>. QED BY <1>1, <2>1, <2>2, <2>3 DEF SInv
<1>3. CASE ThreadStep
  <2>1. /\ UNCHANGED call /\ thread.at # "unborn"
        /\ (UNCHANGED clockVars \/ Worker)
        /\ SessionTypes' /\ WordsInv' /\ ThreadInv' /\ Stays
    BY <1>3, QuietThreadStep, PublishingThreadStep DEF ThreadStep
  <2>2. UNCHANGED reader
    <3>1. Worker => UNCHANGED reader
      BY PublishInvariant DEF SInv
    <3>. QED BY <2>1, <3>1 DEF clockVars
  <2>3. CallInv'
    BY <2>1, <2>2, CallerKept DEF SInv, CallInv
  <2>4. ArmInv'
    BY <2>1 DEF SInv, ArmInv, Arming, In
  <2>. QED BY <1>1, <2>1, <2>3, <2>4 DEF SInv, ClockNext
<1>4. ASSUME NEW c \in Callers, CallStarts(c) \/ CallStep(c)
      PROVE  SInv' /\ [ClockNext]_clockVars
  <2>1. /\ UNCHANGED clockVars \/ Load(c)
        /\ \A d \in Callers \ {c} : reader'[d].got = reader[d].got
        /\ Others(c)
        /\ SessionTypes' /\ WordsInv' /\ ThreadInv' /\ ArmInv' /\ Stays /\ CallerInv(c)'
    <3>1. CASE CallStarts(c)
      BY <3>1, CallStartsInvariant DEF clockVars
    <3>2. CASE ArmTakesConfig(c) \/ ArmSpawns(c) \/ ArmStoresHandle(c)
      BY <3>2, ArmStepInvariant DEF clockVars
    <3>. QED BY <1>4, <3>1, <3>2, CallStepInvariant DEF CallStep
  <2>2. CallInv'
    <3>1. ASSUME NEW d \in Callers \ {c} PROVE CallerInv(d)'
      BY <2>1, CallerKept DEF SInv, CallInv, Others
    <3>. QED BY <2>1, <3>1 DEF CallInv
  <2>3. [ClockNext]_clockVars
    BY <2>1 DEF ClockNext, Callers
  <2>. QED BY <1>1, <2>1, <2>2, <2>3 DEF SInv
<1>. QED BY <1>2, <1>3, <1>4 DEF Next

LEMMA SessionInvariance == Init /\ [][Next]_vars => []SInv
<1>1. SInv /\ [Next]_vars => SInv'
  BY SessionNextInvariant
<1>. QED BY <1>1, SessionInitInvariant, PTL

(***************************************************************************)
(* Whatever the interleaving with the last steps of the worker, a poll     *)
(* that reports an end reports the outcome and the frozen position, a      *)
(* panic is never taken for a thread that did not start, and a join that   *)
(* returns finds the results there (session.rs:190-330).                   *)
(***************************************************************************)
THEOREM CallersAreToldTheEnd == Spec => []CallersSeeTheEnd
<1>1. SInv => CallersSeeTheEnd
  <2> SUFFICES ASSUME SInv PROVE CallersSeeTheEnd
    OBVIOUS
  <2>. USE DEF SInv, CallInv, CallerInv
  <2>1. lifecycle = "finished" =>
          /\ thread.at \in {"done", "gone"} /\ thread.end # "panicked"
          /\ outcome = thread.result
    BY DEF WordsInv, SessionTypes, ThreadRecord, Stored
  <2>2. PollTellsTheOutcome
    BY <2>1 DEF PollTellsTheOutcome, Polled, Ends
  <2>3. EndedPositionIsFrozen
    <3>1. ASSUME NEW c \in Callers, Polled(c, {"finished", "quit", "skip"}), thread.booted
          PROVE  terminal # 0 /\ reader[c].got = Whole(terminal)
      <4>1. /\ lifecycle = "finished" /\ outcome # "error"
            /\ reader[c].got = Whole(published)
        BY <3>1 DEF Polled, Ends
      <4>2. thread.end = "played" /\ thread.at \in Frozen
        BY <2>1, <3>1, <4>1 DEF ThreadInv, Returned, Stored, Frozen
      <4>. QED BY <3>1, <4>1, <4>2 DEF ThreadInv
    <3>. QED BY <3>1 DEF EndedPositionIsFrozen
  <2>4. PoisonedMeansUnborn
    BY DEF PoisonedMeansUnborn
  <2>5. JoinedMeansOver
    <3>1. done => /\ lifecycle \in {"finished", "poisoned"} /\ thread.at = "gone"
                  /\ outcome = thread.result /\ outcome # "none"
      BY DEF WordsInv, ThreadInv, Stored, Returned
    <3>. QED BY <3>1 DEF JoinedMeansOver, In, ThreadInv, Returned, Stored
  <2>. QED BY <2>2, <2>3, <2>4, <2>5 DEF CallersSeeTheEnd
<1>. QED BY <1>1, SessionInvariance, PTL DEF Spec

(* The words the callers of a session load are those of one anchor, which *)
(* was the last complete one at some moment of the load (shared.rs:13).   *)
THEOREM SessionLoadsAreAtomic == Spec => LoadsAreAtomic
<1>1. Init => ClockInit
  BY DEF Init
<1>2. SInv /\ [Next]_vars => [ClockNext]_clockVars
  BY SessionNextInvariant
<1>3. Spec => ClockSpec
  BY <1>1, <1>2, SessionInvariance, PTL DEF Spec, ClockSpec
<1>. QED BY <1>3, ClockIsAtomic
=============================================================================
