------------------------------ MODULE Schedule ------------------------------
(***************************************************************************)
(* From a song to the key actions that are played (sky_app_core: song.rs,  *)
(* timing.rs): authored times are scaled by the tempo and rounded, notes   *)
(* that coincide are dropped, every note gets a press and a release, the   *)
(* actions of one time and kind are merged, and the result is analysed for *)
(* risks.  The song grows note by note; everything else is computed from   *)
(* it, as the code does, and checked against definitions of what it means. *)
(*                                                                         *)
(* The policy makes the target and the minimum hold equal, so the branch   *)
(* that compresses a hold is dead code and left out, with the counters it  *)
(* would raise.  Advice in words, averages and parsing are left out.       *)
(***************************************************************************)
EXTENDS Integers, Sequences, SequencesExt, FiniteSetsExt

CONSTANTS
  Keys,
  Frame, HoldQuarters, Grace, Margin,  \* MaterializedTimingPolicy
  Tempos,           \* pairs <<num, den>>: tempo_scale = num / den
  MaxTime, MaxNotes,\* bounds: the times and the number of notes of a song
  DenseWindow, DenseCount, DenseMerge, PeakWindow  \* 100 ms, 6, 50 ms, 1 s

VARIABLES
  notes,            \* Song.notes, sorted by time as the parser leaves them
  tempo

scheduleVars == <<notes, tempo>>

NoTime == -1

\* MaterializedTimingPolicy::from_calibration
CeilDiv(n, d) == (n + d - 1) \div d
MinHold == CeilDiv(HoldQuarters * Frame, 4) + Grace + Margin
MinReleaseGap == Frame + Grace + Margin

\* python_round_nonnegative of n / d: a half goes to the even neighbour.
Round(n, d) ==
  LET lower == n \div d
      rest  == 2 * (n % d)
  IN  IF rest < d THEN lower
      ELSE IF rest > d \/ lower % 2 = 1 THEN lower + 1 ELSE lower

ScheduleInit == notes = <<>> /\ tempo \in Tempos

AddNote(time, key) ==
  /\ Len(notes) < MaxNotes
  /\ notes # <<>> => time >= Last(notes).time
  /\ notes' = Append(notes, [time |-> time, key |-> key])
  /\ UNCHANGED tempo

ScheduleNext == \E time \in 0..MaxTime, key \in Keys : AddNote(time, key)
ScheduleSpec == ScheduleInit /\ [][ScheduleNext]_scheduleVars

-----------------------------------------------------------------------------
\* build_schedule_with_policy.  Of the notes of one rounded time and key the
\* first is kept.
At(n) == Round(n.time * tempo[2], tempo[1])
Drafts ==
  FoldLeft(LAMBDA kept, n : IF \E i \in DOMAIN kept : kept[i] = [at |-> At(n), key |-> n.key]
                              THEN kept ELSE Append(kept, [at |-> At(n), key |-> n.key]),
           <<>>, notes)

NextAt(drafts, i) ==
  LET later == {j \in DOMAIN drafts : j > i /\ drafts[j].key = drafts[i].key}
  IN  IF later = {} THEN NoTime ELSE drafts[Min(later)].at

\* MUTANT: the gap is not kept free in front of a repeat.
BugImpossible(drafts, i) ==
  NextAt(drafts, i) # NoTime /\ NextAt(drafts, i) - drafts[i].at < MinHold

\* A repeat that comes before the hold and the gap are over; its note is held
\* as long as the others all the same, and the schedule is not admitted.
Impossible(drafts, i) ==
  NextAt(drafts, i) # NoTime /\ NextAt(drafts, i) - drafts[i].at - MinReleaseGap < MinHold

ImpossibleRepeats ==
  LET drafts == Drafts IN Cardinality({i \in DOMAIN drafts : Impossible(drafts, i)})

\* The actions by time; the actions of one kind and time are merged.
Action(kind, at, keys) == IF keys = {} THEN <<>> ELSE <<[kind |-> kind, at |-> at, keys |-> keys]>>

\* Releases go before presses.
Merged(at, downs, ups) == Action("up", at, ups) \o Action("down", at, downs)

Actions ==
  LET drafts  == ToSet(Drafts)
      keys(t) == {d.key : d \in {e \in drafts : e.at = t}}
      end     == Max({0} \union {d.at + MinHold : d \in drafts})
  IN  FlattenSeq([i \in 1..end + 1 |-> Merged(i - 1, keys(i - 1), keys(i - 1 - MinHold))])

Duration(actions) == IF actions = <<>> THEN 0 ELSE Last(actions).at

\* max_polyphony
Sounding(actions, i) ==
  FoldLeft(LAMBDA active, a : IF a.kind = "down" THEN active \union a.keys ELSE active \ a.keys,
           {}, SubSeq(actions, 1, i))
MaxPolyphony(actions) ==
  Max({0} \union {Cardinality(Sounding(actions, i)) : i \in DOMAIN actions})

Downs(actions) == SelectSeq(actions, LAMBDA a : a.kind = "down")

\* analyze_schedule_with_context: the left end of the window that ends at right.
Left(downs, right, left) ==
  Min({l \in left..right : downs[right].at - downs[l].at <= DenseWindow})

\* Windows of more than DenseCount presses, each merged into the last cluster
\* when it begins within DenseMerge of its end.
AddDense(dense, start, end, count) ==
  IF dense # <<>> /\ start <= Last(dense).end + DenseMerge
    THEN [dense EXCEPT ![Len(dense)].end = end, ![Len(dense)].count = Max({@, count})]
    ELSE Append(dense, [start |-> start, end |-> end, count |-> count])

DenseClusters(downs) ==
  LET Slide(s, right) ==
        LET left  == Left(downs, right, s.left)
            count == right - left + 1
        IN  [left |-> left,
             dense |-> IF count > DenseCount
                         THEN AddDense(s.dense, downs[left].at, downs[right].at, count)
                         ELSE s.dense]
  IN  FoldLeft(Slide, [left |-> 1, dense |-> <<>>], [i \in 1..Len(downs) |-> i]).dense

PeakDensity(downs) ==
  Max({0} \union {Cardinality({j \in i..Len(downs) : downs[j].at - downs[i].at <= PeakWindow}) :
                    i \in DOMAIN downs})

-----------------------------------------------------------------------------
\* Reference definitions: the onsets of a key, and the actions on it.
Onsets(key) == {At(notes[i]) : i \in {j \in DOMAIN notes : notes[j].key = key}}
AllOnsets == UNION {Onsets(key) : key \in Keys}
SoundingAt(t) == {key \in Keys : \E a \in Onsets(key) : a <= t /\ t < a + MinHold}
Of(actions, key, kind) == {i \in DOMAIN actions : actions[i].kind = kind /\ key \in actions[i].keys}

\* What playback relies on.  A schedule that is admitted presses every key, up
\* by then, at every one of its onsets, and releases it next a full hold later;
\* a schedule is refused only when a key has no time for its hold and its gap.
AdmittedSchedulesArePlayable ==
  LET actions == Actions
      impossible == ImpossibleRepeats
  IN  /\ impossible = 0 <=>
           \A key \in Keys : \A a, b \in Onsets(key) : a < b => b - a >= MinHold + MinReleaseGap
      /\ impossible = 0 =>
           \A key \in Keys :
             LET downs == Of(actions, key, "down")
                 ups == Of(actions, key, "up")
             IN  /\ {actions[i].at : i \in downs} = Onsets(key)
                 /\ \A i \in downs :
                      /\ key \notin Sounding(actions, i - 1)
                      /\ \E j \in ups : /\ i < j /\ actions[j].at = actions[i].at + MinHold
                                        /\ \A k \in downs \union ups : k <= i \/ j <= k
                 /\ key \notin Sounding(actions, Len(actions))

\* The analysis of a schedule is true of the song: every window of more than
\* DenseCount presses lies in a cluster, clusters are apart and begin and end
\* with such a window, and in a schedule that is admitted the polyphony, the peak and the
\* length are those of the notes.
AnalysisIsTrue ==
  LET actions == Actions
      downs == Downs(actions)
      dense == DenseClusters(downs)
      windows == {w \in (DOMAIN downs) \X (DOMAIN downs) :
                    w[2] - w[1] >= DenseCount /\ downs[w[2]].at - downs[w[1]].at <= DenseWindow}
  IN  /\ \A w \in windows : \E i \in DOMAIN dense :
           dense[i].start <= downs[w[1]].at /\ downs[w[2]].at <= dense[i].end
      /\ \A i \in DOMAIN dense :
           /\ \E w \in windows : dense[i].start = downs[w[1]].at /\ w[2] - w[1] < dense[i].count
           /\ \E w \in windows : dense[i].end = downs[w[2]].at
           /\ i > 1 => dense[i].start > dense[i - 1].end + DenseMerge
      /\ PeakDensity(downs) =
           Max({0} \union {Cardinality({u \in AllOnsets : t <= u /\ u <= t + PeakWindow}) : t \in AllOnsets})
      /\ ImpossibleRepeats = 0 =>
           /\ MaxPolyphony(actions) = Max({0} \union {Cardinality(SoundingAt(t)) : t \in AllOnsets})
           /\ Duration(actions) = Max({0} \union {t + MinHold : t \in AllOnsets})
=============================================================================
