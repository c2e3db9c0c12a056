---------------------------- MODULE CalibrationRun ----------------------------
(***************************************************************************)
(* A calibration from the first packet to the cache file.  The child       *)
(* process (sky_dispatch_win32, calibration.rs) measures the buckets one   *)
(* after the other, all within one budget, and turns Down/Up pairs of      *)
(* packets into the counters and the worst shrink of a bucket; the worker  *)
(* of the desktop (NativeCalibrationService::run) checks its output,       *)
(* writes a cache document to a temporary file and moves it into place;    *)
(* every later playback reads the document through                         *)
(* load_calibration_resolution (sky_native_adapters, lib.rs), which        *)
(* recomputes what the document says.  The child may fail or be killed, a  *)
(* write may fail, the program may stop at any step and be started on      *)
(* another host.                                                           *)
(*                                                                         *)
(* Of each list of quantiles the maximum is kept.  Times are ticks.  The   *)
(* session that sends the packets is CalibrationSession; admission,        *)
(* cancellation and shutdown are CalibrationService.                       *)
(***************************************************************************)
EXTENDS AtomicReplace, Integers, Sequences, FiniteSets, SequencesExt, FiniteSetsExt

CONSTANTS
  Buckets,          \* CALIBRATION_REQUIRED_BUCKETS, in their order
  SampleCount,      \* CALIBRATION_SAMPLE_COUNT
  Guard, Floor, Ceiling,
  Threshold,        \* SEND_COLD_THRESHOLD_US
  GoodAids,         \* the scheduling aids a publishable measurement has had
  Absent,           \* no such value
  Presets,          \* CalibrationConfig: quick and full, with their gaps
  Lates, Durations, \* how late a call may enter, how long it may take
  Aids, Hosts,
  Priors,           \* cache files that may be there before the first run
  MaxRuns,          \* bound: calibrations
  MaxRestarts       \* bound: program starts

VARIABLES
  host,             \* the machine the program runs on
  runAt,            \* what the calibration does next
  config,           \* the preset of the run
  now, last,        \* QPC, and last_send_completed_ticks
  deadline,         \* the measurement deadline
  warmed,           \* warm-up pairs of the bucket
  pairs,            \* measured pairs of the bucket
  half,             \* the Down half of the pair under way
  output,           \* what the child has aggregated so far
  report,           \* what the last successful calibration on this host announced
  runs, restarts,
  started,          \* history: when the run began
  evidence          \* history: the pairs and the host of the run that was committed

childVars == <<config, now, last, deadline, warmed, pairs, half, output>>
countVars == <<runs, restarts>>
ghostVars == <<started, evidence>>
runVars == <<fileVars, host, runAt, childVars, report, countVars, ghostVars>>

-----------------------------------------------------------------------------
(* The evidence, and what is accepted of it.                               *)

Cold == "cold"
Hot == "hot"

(* sender_pair_evidence_ticks, of two samples [target, started, completed].*)
Late(s) == s.started - s.target
Duration(s) == s.completed - s.started
PairEvidence(press, release) ==
  [scheduler |-> Late(press) - Late(release),
   sendinput |-> Duration(press) - Duration(release),
   hold |-> (release.target - press.target) - (release.completed - press.completed)]

(* classify_idle_gap: between the last completion and the entry of a call. *)
ClassOf(gap) == IF gap >= Threshold THEN Cold ELSE Hot

(* MUTANT: the class of the Up packet is not looked at. *)
BugPair(press, release, class) ==
  [evidence |-> PairEvidence(press, release), gaps |-> {press.gap, release.gap},
   clean |-> ClassOf(press.gap) = class]

(* sender_pair_packets *)
Pair(press, release, class) ==
  [evidence |-> PairEvidence(press, release), gaps |-> {press.gap, release.gap},
   clean |-> \A s \in {press, release} : ClassOf(s.gap) = class]

Clean(measured) == SelectSeq(measured, LAMBDA p : p.clean)

(* aggregate_sender_pairs: every rejection is a class mismatch.  Without a *)
(* clean pair there are no quantiles.                                      *)
Aggregate(measured) ==
  LET shrinks == {p.evidence.sendinput : p \in Range(Clean(measured))}
  IN [attempted |-> Len(measured), clean |-> Len(Clean(measured)),
      rejected |-> Len(measured) - Len(Clean(measured)),
      shrink |-> IF shrinks = {} THEN Absent ELSE Max(shrinks)]

-----------------------------------------------------------------------------
(* A bucket that is publishable, for the writer and for the reader alike.  *)
Publishable(b) ==
  /\ b.attempted \in SampleCount .. 2 * SampleCount
  /\ b.clean = SampleCount
  /\ b.rejected = b.attempted - b.clean

(* The worst shrink of all buckets, never below zero, and the first bucket *)
(* that has it; without one above zero the first bucket of all.            *)
Worst(buckets) == Max({0} \union {b.shrink : b \in Range(buckets)})
WorstBucket(buckets) ==
  LET worst == {i \in DOMAIN buckets : buckets[i].shrink = Worst(buckets)}
  IN Buckets[IF Worst(buckets) = 0 \/ worst = {} THEN 1 ELSE Min(worst)]

(* qualification_values *)
Applied(worst) ==
  IF worst + Guard > Ceiling THEN Absent ELSE Max({Floor, worst + Guard})
Status(worst) == IF Applied(worst) = Absent THEN "out_of_envelope" ELSE "valid"

(* prepare_calibration_cache: the document made of a child's output.       *)
CacheOf(o) ==
  [current |-> TRUE, host |-> o.host, aids |-> o.aids, buckets |-> o.buckets,
   worst |-> Worst(o.buckets), worstBucket |-> WorstBucket(o.buckets),
   status |-> Status(Worst(o.buckets)), margin |-> Applied(Worst(o.buckets))]

(* valid_pair_buckets and qualification_matches *)
BucketsAreValid(c) == Len(c.buckets) = Len(Buckets) /\ \A b \in Range(c.buckets) : Publishable(b)
QualificationMatches(c) ==
  /\ c.worst = Worst(c.buckets) /\ c.worstBucket = WorstBucket(c.buckets)
  /\ c.status = Status(c.worst) /\ c.margin = Applied(c.worst)

AidsAreGood(c) == c.aids \in GoodAids      \* valid_scheduling_aids
HostMatches(c, on) == c.host = on      \* host_matches_current
Fallback(source) == [source |-> source, margin |-> Floor]

(* load_calibration_resolution, on a machine.  A file is Missing or Torn,  *)
(* or a document.                                                          *)
Resolution(f, on) ==
  IF f.kind = "missing" THEN Fallback("default")
  ELSE IF f.kind = "torn" THEN Fallback("invalid")
  ELSE LET c == f.is IN
       IF ~c.current THEN Fallback("incompatible")
       ELSE IF ~(AidsAreGood(c) /\ BucketsAreValid(c) /\ QualificationMatches(c))
         THEN Fallback("invalid")
       ELSE IF c.status = "out_of_envelope" THEN Fallback("out_of_envelope")
       ELSE IF ~HostMatches(c, on) THEN Fallback("incompatible")
       ELSE [source |-> "device", margin |-> c.margin]

-----------------------------------------------------------------------------
(* The run.                                                                *)

NoOutput == [host |-> Absent, aids |-> Absent, buckets |-> <<>>, pairs |-> <<>>]
NoEvidence == [host |-> Absent, pairs |-> <<>>]
Clear == /\ now' = 0 /\ last' = 0 /\ deadline' = 0 /\ warmed' = 0 /\ pairs' = <<>>
         /\ half' = Absent /\ started' = 0
Bucket == Buckets[Len(output.buckets) + 1]
Gap == IF Bucket.class = Hot THEN config.hotGap ELSE config.coldGap

RunInit ==
  /\ file \in Priors /\ temp = Missing /\ host \in Hosts
  /\ runAt = "idle" /\ config = Absent /\ now = 0 /\ last = 0 /\ deadline = 0 /\ warmed = 0
  /\ pairs = <<>> /\ half = Absent /\ output = NoOutput
  /\ report = (IF Resolution(file, host).source = "device"
                 THEN [margin |-> Resolution(file, host).margin] ELSE Absent)
  /\ runs = 0 /\ restarts = 0 /\ started = 0 /\ evidence = NoEvidence

Child == UNCHANGED <<fileVars, host, report, countVars, evidence>>

(* validate_calibration_config *)
Valid(c) == c.samples > 0 /\ c.hotGap < Threshold /\ Threshold <= c.coldGap

(* run_calibration: one deadline for all buckets. *)
StartRun(c) ==
  /\ runAt = "idle" /\ runs < MaxRuns /\ Valid(c)
  /\ runAt' = "open" /\ config' = c /\ runs' = runs + 1
  /\ started' = now /\ deadline' = now + c.budget
  /\ output' = NoOutput
  /\ UNCHANGED <<fileVars, host, now, last, warmed, pairs, half, report, restarts, evidence>>

(* run_calibration_pair_bucket_with_deadline: scheduling aids, a session,  *)
(* and the All-Up packet of the preflight.                                 *)
Open(aids, late) ==
  /\ runAt = "open"
  /\ runAt' = "warmup" /\ now' = now + 1 + late /\ last' = now + 1 + late
  /\ output' = [output EXCEPT !.aids = IF @ \in {Absent, aids} THEN aids ELSE "mismatch",
                              !.host = host]
  /\ warmed' = 0 /\ pairs' = <<>> /\ half' = Absent
  /\ UNCHANGED <<config, deadline, started>> /\ Child

(* measure_classified_sender_packet, the target a gap after the last       *)
(* completion.                                                             *)
Sample(late, duration) ==
  [target |-> last + Gap, started |-> last + Gap + late,
   completed |-> last + Gap + late + duration, gap |-> Gap + late]

MaxAttempts == 2 * config.samples
Enough == Len(Clean(pairs)) = config.samples \/ Len(pairs) = MaxAttempts
Wants == \/ runAt = "warmup" /\ warmed < config.warmup
         \/ runAt = "measure" /\ ~Enough

(* run_balanced_sender_pair, with the check of the budget before it. *)
SendDown(late, duration) ==
  /\ Wants /\ half = Absent /\ now < deadline
  /\ half' = Sample(late, duration)
  /\ now' = half'.completed /\ last' = now'
  /\ UNCHANGED <<runAt, config, deadline, warmed, pairs, output, started>> /\ Child

SendUp(late, duration) ==
  /\ half # Absent
  /\ LET up == Sample(late, duration)
         pair == Pair(half, up, Bucket.class)
     IN /\ now' = up.completed /\ last' = now'
        /\ IF runAt = "warmup" THEN warmed' = warmed + 1 /\ UNCHANGED pairs
                            ELSE pairs' = Append(pairs, pair) /\ UNCHANGED warmed
  /\ half' = Absent
  /\ UNCHANGED <<runAt, config, deadline, output, started>> /\ Child

WarmedUp ==
  /\ runAt = "warmup" /\ warmed = config.warmup /\ half = Absent
  /\ runAt' = "measure"
  /\ UNCHANGED <<childVars, started>> /\ Child

(* close_sender and the aggregation; after the last bucket the output is   *)
(* complete.  The aids of a bucket must be those of the first one.         *)
CloseBucket ==
  /\ runAt = "measure" /\ Enough /\ half = Absent
  /\ IF output.aids = "mismatch" THEN runAt' = "failed" /\ UNCHANGED output
     ELSE /\ output' = [output EXCEPT !.buckets = Append(@, Aggregate(pairs)),
                                      !.pairs = Append(@, pairs)]
          /\ runAt' = IF Len(output'.buckets) = Len(Buckets) THEN "output" ELSE "open"
  /\ UNCHANGED <<config, now, last, deadline, warmed, pairs, half, started>> /\ Child

(* A step of the session fails, the budget is spent, or the child is       *)
(* killed: no output.                                                      *)
Measuring == runAt \in {"open", "warmup", "measure"}
RunFails ==
  /\ Measuring
  /\ runAt' = "failed" /\ config' = Absent /\ output' = NoOutput /\ Clear
  /\ Child

-----------------------------------------------------------------------------
(* The worker of the desktop. *)

Desktop == UNCHANGED <<host, config, now, last, deadline, warmed, pairs, half, countVars, started>>

(* prepare_calibration_cache: what is written is read back by the loader.  *)
Acceptable(o) == \A b \in Range(o.buckets) : Publishable(b)

Prepare ==
  /\ runAt = "output" /\ Acceptable(output)
  /\ WriteTemp(CacheOf(output))
  /\ runAt' = IF Resolution(temp', host).source \in {"device", "out_of_envelope"}
             THEN "prepared" ELSE "refused"
  /\ UNCHANGED <<output, report, evidence>> /\ Desktop

PrepareFails ==
  /\ runAt = "output" /\ runAt' = "failed"
  /\ \/ ~Acceptable(output) /\ UNCHANGED fileVars
     \/ Acceptable(output) /\ temp' \in {Missing, Torn} /\ UNCHANGED file
  /\ UNCHANGED <<output, report, evidence>> /\ Desktop

(* PreparedCalibrationCache::commit, the announcement after it. *)
CommitCache ==
  /\ runAt = "prepared"
  /\ Replace
  /\ report' = [margin |-> temp.is.margin]
  /\ evidence' = [host |-> output.host, pairs |-> output.pairs]
  /\ runAt' = "done"
  /\ UNCHANGED output /\ Desktop

(* The rename fails, or the gate is closed: drop removes the file. *)
CommitFails ==
  /\ runAt = "prepared" /\ runAt' = "failed"
  /\ ReplaceFails
  /\ UNCHANGED <<output, report, evidence>> /\ Desktop

(* MUTANT: the old document goes before the new one is there. *)
BugSettleRun ==
  /\ runAt \in {"refused", "failed", "done"}
  /\ runAt' = "idle" /\ config' = Absent /\ output' = NoOutput /\ Clear
  /\ temp' = Missing /\ file' = IF runAt = "failed" THEN Missing ELSE file
  /\ UNCHANGED <<host, report, countVars, evidence>>

SettleRun ==
  /\ runAt \in {"refused", "failed", "done"}
  /\ runAt' = "idle" /\ config' = Absent /\ output' = NoOutput /\ Clear
  /\ temp' = Missing /\ UNCHANGED file
  /\ UNCHANGED <<host, report, countVars, evidence>>

(* The program stops, at any step, and starts again, perhaps on a machine  *)
(* that has changed.  The names of temporary files are never used again.   *)
Restart ==
  /\ restarts < MaxRestarts /\ restarts' = restarts + 1
  /\ host' \in Hosts
  /\ runAt' = "idle" /\ config' = Absent /\ output' = NoOutput /\ Clear
  /\ temp' = Missing /\ UNCHANGED file
  /\ report' = IF host' = host THEN report ELSE Absent
  /\ UNCHANGED <<runs, evidence>>

RunNext ==
  \/ \E c \in Presets : StartRun(c)
  \/ \E a \in Aids, l \in Lates : Open(a, l)
  \/ \E l \in Lates, d \in Durations : SendDown(l, d) \/ SendUp(l, d)
  \/ WarmedUp \/ CloseBucket \/ RunFails
  \/ Prepare \/ PrepareFails \/ CommitCache \/ CommitFails \/ SettleRun \/ Restart

RunSpec == RunInit /\ [][RunNext]_runVars

-----------------------------------------------------------------------------
Loaded == Resolution(file, host)

\* A margin that is in force as this device's own comes from a complete run on
\* this very host: every bucket has its clean pairs, each of them in the class
\* of the bucket, and no clean pair has shrunk by more than the margin less the
\* guard (aggregate_sender_pairs to load_calibration_resolution).
MarginCoversTheEvidence ==
  (Loaded.source = "device" /\ evidence # NoEvidence) =>
     /\ evidence.host = host
     /\ Len(evidence.pairs) = Len(Buckets)
     /\ \A i \in DOMAIN evidence.pairs :
          LET clean == Clean(evidence.pairs[i])
          IN /\ Len(clean) = SampleCount
             /\ \A p \in Range(clean) :
                  /\ p.evidence.sendinput + Guard <= Loaded.margin
                  /\ \A g \in p.gaps : (g >= Threshold) = (Buckets[i].class = Cold)
     /\ Loaded.margin \in Floor .. Ceiling

\* What the last successful calibration has announced is what every playback
\* loads from then on, over restarts, failed runs and crashes, for as long as
\* the host stays the same.
ReportIsWhatIsLoaded ==
  report # Absent =>
    Loaded = IF report.margin = Absent THEN Fallback("out_of_envelope")
             ELSE [source |-> "device", margin |-> report.margin]
=============================================================================
