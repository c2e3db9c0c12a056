---------------------------- MODULE HealthWindow -----------------------------
(***************************************************************************)
(* HealthWindow of sky_player (engine/worker/health.rs): a ring of verdicts *)
(* on the last samples of one signal, its running count of bad ones, and a *)
(* degraded flag that changes only after the window has been bad, or good  *)
(* again, for a while.  The code updates all of it sample by sample; the   *)
(* reference below is computed from the whole history.                     *)
(***************************************************************************)
EXTENDS Integers, Sequences, FiniteSets

CONSTANTS
  N,                \* HEALTH_WINDOW_CAPACITY
  MinimumSamples, BadSampleCount, DegradeHold, RecoveryHold,  \* the policy
  MaxGap,           \* bound: time between two samples
  MaxSamples        \* bound: samples of one signal

VARIABLES
  window,           \* the fields of HealthWindow
  samples           \* history: the verdicts and times of all samples

healthVars == <<window, samples>>

None == -1

Empty == [over |-> [i \in 0..N-1 |-> FALSE], next |-> 0, len |-> 0, bad |-> 0,
          degraded |-> FALSE, badSince |-> None, healthySince |-> None]

HealthInit == window = Empty /\ samples = <<>>

Least(a, b) == IF a < b THEN a ELSE b
Count(b) == IF b THEN 1 ELSE 0
OrInsert(since, now) == IF since = None THEN now ELSE since

\* MUTANT: the sample that leaves a full ring stays counted.
BugTaken(w, over) ==
  [w EXCEPT !.len = Least(N, @ + 1), !.bad = @ + Count(over),
            !.over[w.next] = over, !.next = (@ + 1) % N]

\* The ring takes a sample; a full ring gives one up.
Taken(w, over) ==
  [w EXCEPT !.len = Least(N, @ + 1),
            !.bad = @ - Count(w.len = N /\ w.over[w.next]) + Count(over),
            !.over[w.next] = over,
            !.next = (@ + 1) % N]

\* A bad window starts its time or keeps it, and ends that of a good one.
WhileBad(w, now) ==
  LET since == OrInsert(w.badSince, now)
  IN  [w EXCEPT !.badSince = since, !.healthySince = None,
                !.degraded = @ \/ now - since >= DegradeHold]

\* A good window counts only while degraded.
WhileGood(w, now) ==
  LET since == OrInsert(w.healthySince, now)
      recovers == w.degraded /\ now - since >= RecoveryHold
  IN  [w EXCEPT !.badSince = None,
                !.healthySince = IF w.degraded /\ ~recovers THEN since ELSE None,
                !.degraded = @ /\ ~recovers]

\* observe: with fewer samples than the minimum nothing is judged.
Observe(w, over, now) ==
  LET t == Taken(w, over)
  IN  IF t.len < Least(MinimumSamples, N)
        THEN [t EXCEPT !.badSince = None, !.healthySince = None]
        ELSE IF t.bad >= BadSampleCount THEN WhileBad(t, now) ELSE WhileGood(t, now)

\* Time does not run backwards.
Sample(over, gap) ==
  LET now == (IF samples = <<>> THEN 0 ELSE samples[Len(samples)].at) + gap
  IN  /\ Len(samples) < MaxSamples
      /\ window' = Observe(window, over, now)
      /\ samples' = Append(samples, [over |-> over, at |-> now])

HealthNext == \E over \in BOOLEAN, gap \in 0..MaxGap : Sample(over, gap)

HealthSpec == HealthInit /\ [][HealthNext]_healthVars

-----------------------------------------------------------------------------
\* The reference: what the window shows after the first i samples.
Overs(i) == Cardinality({j \in (IF i > N THEN i - N + 1 ELSE 1)..i : samples[j].over})

Judged(i) == i >= Least(MinimumSamples, N)

Bad(i) == Judged(i) /\ Overs(i) >= BadSampleCount

\* All of j..i are bad, or all are judged and good, and that for a while.
BadFor(j, i) ==
  (\A k \in j..i : Bad(k)) /\ samples[i].at - samples[j].at >= DegradeHold

GoodFor(j, i) ==
  (\A k \in j..i : Judged(k) /\ ~Bad(k)) /\ samples[i].at - samples[j].at >= RecoveryHold

Degraded[i \in 0..Len(samples)] ==
  IF i = 0 THEN FALSE
  ELSE IF Degraded[i - 1] THEN ~ \E j \in 1..i : GoodFor(j, i)
  ELSE \E j \in 1..i : BadFor(j, i)

\* The running window says what the whole history says: the count of bad
\* samples among the last N, and a degraded flag with its two holds.
WindowIsItsHistory ==
  /\ window.bad = Overs(Len(samples))
  /\ window.degraded = Degraded[Len(samples)]
=============================================================================
