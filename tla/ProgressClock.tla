---------------------------- MODULE ProgressClock ----------------------------
(***************************************************************************)
(* SharedProgressClock of sky_player (engine/shared.rs): a sequence lock   *)
(* between the worker, which publishes anchors, and any number of pollers. *)
(*                                                                         *)
(* An anchor is several words stored with relaxed ordering; a word holds   *)
(* the number of the publication that stored it, so a mixed anchor is one  *)
(* whose words hold different numbers.  Publication 0 is the initial       *)
(* state, whose valid word is false.  Relaxed accesses between the two     *)
(* accesses of the sequence may run in any order; that the second load of  *)
(* the sequence comes after them is what the x86-64 build gives.           *)
(***************************************************************************)
EXTENDS Integers

CONSTANTS
  Readers,          \* threads that poll
  Words,            \* the words of an anchor
  MaxPublications   \* bound: publications of one session

ASSUME ProgressClockAssumption ==
  /\ MaxPublications \in Nat
  /\ Words # {}

VARIABLES
  sequence,         \* odd while a publication is in progress
  word,             \* the publication that stored each word last
  unstored,         \* words the publication in progress has still to store
  published,        \* number of complete publications
  reader            \* locals of load, and what the last load returned

clockVars == <<sequence, word, unstored, published, reader>>

Odd(n) == n % 2 = 1

Whole(n) == [w \in Words |-> n]

\* A reader between two loads: only what it returned is left.
Loaded(anchor) ==
  [step |-> "idle", before |-> 0, left |-> {}, copy |-> Whole(0), got |-> anchor]

ClockInit ==
  /\ sequence = 0
  /\ word = Whole(0)
  /\ unstored = {}
  /\ published = 0
  /\ reader = [r \in Readers |-> Loaded(Whole(0))]

-----------------------------------------------------------------------------
\* publish_anchor, step by step.
BeginPublish ==
  /\ ~Odd(sequence)
  /\ published < MaxPublications
  /\ sequence' = sequence + 1
  /\ unstored' = Words
  /\ UNCHANGED <<word, published, reader>>

StoreWord(w) ==
  /\ w \in unstored
  /\ word' = [word EXCEPT ![w] = published + 1]
  /\ unstored' = unstored \ {w}
  /\ UNCHANGED <<sequence, published, reader>>

EndPublish ==
  /\ Odd(sequence) /\ unstored = {}
  /\ sequence' = sequence + 1
  /\ published' = published + 1
  /\ UNCHANGED <<word, unstored, reader>>

-----------------------------------------------------------------------------
\* load, step by step: an odd sequence is spun on.
StartLoad(r) ==
  /\ reader[r].step \in {"idle", "retry"}
  /\ ~Odd(sequence)
  /\ reader' = [reader EXCEPT ![r].step = "copy",
                              ![r].before = sequence,
                              ![r].left = Words]
  /\ UNCHANGED <<sequence, word, unstored, published>>

LoadWord(r, w) ==
  /\ reader[r].step = "copy" /\ w \in reader[r].left
  /\ reader' = [reader EXCEPT ![r].copy[w] = word[w],
                              ![r].left = @ \ {w}]
  /\ UNCHANGED <<sequence, word, unstored, published>>

\* MUTANT: only the parity of the sequence is looked at again.
BugEndLoad(r) ==
  /\ reader[r].step = "copy" /\ reader[r].left = {}
  /\ reader' = IF ~Odd(sequence)
                 THEN [reader EXCEPT ![r] = Loaded(reader[r].copy)]
                 ELSE [reader EXCEPT ![r] = [Loaded(@.got) EXCEPT !.step = "retry"]]
  /\ UNCHANGED <<sequence, word, unstored, published>>

EndLoad(r) ==
  /\ reader[r].step = "copy" /\ reader[r].left = {}
  /\ reader' = IF sequence = reader[r].before
                 THEN [reader EXCEPT ![r] = Loaded(reader[r].copy)]
                 ELSE [reader EXCEPT ![r] = [Loaded(@.got) EXCEPT !.step = "retry"]]
  /\ UNCHANGED <<sequence, word, unstored, published>>

-----------------------------------------------------------------------------
Worker == BeginPublish \/ EndPublish \/ \E w \in Words : StoreWord(w)

Load(r) == StartLoad(r) \/ EndLoad(r) \/ \E w \in Words : LoadWord(r, w)

ClockNext == Worker \/ \E r \in Readers : Load(r)

ClockSpec == ClockInit /\ [][ClockNext]_clockVars

-----------------------------------------------------------------------------
\* Publications and loads are atomic: a load returns the words of one anchor,
\* and that anchor was the last complete one at some moment of the load ("the
\* sequence protects readers from observing a mixed anchor", shared.rs:13).
Anchor == INSTANCE AtomicAnchor WITH
            anchor <- Whole(published),
            got <- [r \in Readers |-> reader[r].got]

LoadsAreAtomic == Anchor!Spec
=============================================================================
