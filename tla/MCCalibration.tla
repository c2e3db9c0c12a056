---------------------------- MODULE MCCalibration ----------------------------
(***************************************************************************)
(* A calibration session with packets of two keys, and a calibration run   *)
(* of two buckets, whose packets are pairs of samples.  They share no      *)
(* state here: a behaviour runs one of them, which says which.             *)
(***************************************************************************)
EXTENDS CalibrationSession, CalibrationRun

VARIABLE which

MCChord == <<"y", "u">>

\* The quick preset, and a full one with more samples than are published.
MCPresets ==
  {[samples |-> 1, warmup |-> 1, hotGap |-> 1, coldGap |-> 4, budget |-> 30],
   [samples |-> 2, warmup |-> 0, hotGap |-> 1, coldGap |-> 4, budget |-> 12]}

\* A cache of an older version, one whose margin was edited, and a good one of
\* another machine.
Document(h) ==
  [current |-> TRUE, host |-> h, aids |-> "good",
   buckets |-> [i \in 1..2 |-> [attempted |-> 1, clean |-> 1, rejected |-> 0, shrink |-> 2]],
   worst |-> 2, worstBucket |-> [keys |-> 1, class |-> "hot"], status |-> "valid", margin |-> 3]

Calibrated(d) == [kind |-> "document", is |-> d]

MCPriors ==
  {[kind |-> "missing"], [kind |-> "torn"],
   Calibrated([Document("here") EXCEPT !.current = FALSE]),
   Calibrated([Document("here") EXCEPT !.margin = 4]), Calibrated(Document("there"))}

MCBuckets == <<[keys |-> 1, class |-> "hot"], [keys |-> 1, class |-> "cold"]>>

-----------------------------------------------------------------------------
MCInit ==
  /\ which \in {"session", "run"}
  /\ SessionInit /\ (which = "session" \/ raw)
  /\ RunInit /\ (which = "run" \/ (file = Missing /\ host = "here"))

MCNext ==
  \/ which = "session" /\ UNCHANGED <<which, runVars>> /\ SessionNext
  \/ which = "run" /\ UNCHANGED <<which, sessionVars>> /\ RunNext

mcVars == <<which, sessionVars, runVars>>

MCSpec == MCInit /\ [][MCNext]_mcVars

\* Two states that differ differ in the part that runs: TLC need not look at
\* the other, which has not moved.
MCView == <<which, IF which = "session" THEN sessionVars ELSE runVars>>
=============================================================================
