-------------------------- MODULE CalibrationProofs --------------------------
(***************************************************************************)
(* The calibration service, for any number of operations, sessions and     *)
(* preparing calls: it uses the activity coordinator as ActivitySpec says, *)
(* so that no two leases live together in it, no physical session holds    *)
(* the boundary while a worker measures, commits or announces, and after   *)
(* the gate is shut nothing more is committed or announced.                *)
(* The measuring session, for any chord and any number of packets and of   *)
(* foreign inputs: its samples, its publishable close and its clean-up are *)
(* what the keyboard and the pump saw, and no key stays down.              *)
(* The calibration run, for any samples and hosts: what is reported is     *)
(* what the next start loads.                                              *)
(* The update service, which the same coordinator keeps apart from both,   *)
(* for any channels and updates: what is launched was asked for.           *)
(***************************************************************************)
EXTENDS CalibrationService, CalibrationSession, CalibrationRun, Update,
        SequenceTheorems, TLAPS

-----------------------------------------------------------------------------
(***************************************************************************)
(* The activity coordinator alone.  The flags say who holds the boundary   *)
(* only until the shutdown clears them; from then on the closing flag      *)
(* alone keeps newcomers out, so the invariant has a part for each.        *)
(***************************************************************************)

\* Until the shutdown the flags name exactly the leases that live.
FlagsTell ==
  ~closing =>
    /\ \A s \in Sessions : s \in leases <=> physical_playback = s
    /\ \A o \in Operations : o \in leases => calibration_active
    /\ \A u \in Updates : u \in leases => update_installing

ActivityInv == ActivityTypeOK /\ FlagsTell /\ OneOwner

\* Nothing is leased when a reservation is granted.
LEMMA GrantedMeansFree ==
  ASSUME ActivityInv, Admissible
  PROVE  leases = {}
BY OwnersDiffer DEF ActivityInv, ActivityTypeOK, FlagsTell, Admissible

LEMMA ActivityInvInit == ActivityInit => ActivityInv
BY OwnersDiffer DEF ActivityInit, ActivityInv, ActivityTypeOK, FlagsTell, OneOwner

LEMMA ActivityInvStep ==
  ASSUME ActivityInv, [ActivityNext]_activity
  PROVE  ActivityInv'
<1> USE OwnersDiffer DEF ActivityInv, ActivityTypeOK, FlagsTell, OneOwner
<1>1. ASSUME NEW s \in Sessions, ReservePlayback(s) PROVE ActivityInv'
  <2>1. leases = {}
    BY <1>1, GrantedMeansFree DEF ReservePlayback
  <2> QED BY <1>1, <2>1 DEF ReservePlayback, Admissible
<1>2. ASSUME NEW s \in Sessions, DropPlayback(s) PROVE ActivityInv'
  BY <1>2 DEF DropPlayback
<1>3. ASSUME NEW o \in Operations, ReserveCalibration(o) PROVE ActivityInv'
  <2>1. leases = {}
    BY <1>3, GrantedMeansFree DEF ReserveCalibration
  <2> QED BY <1>3, <2>1 DEF ReserveCalibration, Admissible
<1>4. ASSUME NEW o \in Operations, DropCalibration(o) PROVE ActivityInv'
  BY <1>4 DEF DropCalibration
<1>5. ASSUME NEW u \in Updates, ReserveUpdate(u) PROVE ActivityInv'
  <2>1. leases = {}
    BY <1>5, GrantedMeansFree DEF ReserveUpdate
  <2> QED BY <1>5, <2>1 DEF ReserveUpdate, Admissible
<1>6. ASSUME NEW u \in Updates, DropUpdate(u) PROVE ActivityInv'
  BY <1>6 DEF DropUpdate
<1>7. ASSUME BeginShutdown PROVE ActivityInv'
  BY <1>7 DEF BeginShutdown
<1>8. ASSUME UNCHANGED activity PROVE ActivityInv'
  BY <1>8 DEF activity
<1> QED
  BY <1>1, <1>2, <1>3, <1>4, <1>5, <1>6, <1>7, <1>8 DEF ActivityNext

(***************************************************************************)
(* Two owners never hold the physical boundary together.                   *)
(***************************************************************************)
THEOREM Exclusive == ActivitySpec => []OneOwner
<1>1. ActivityInv => OneOwner
  BY DEF ActivityInv
<1> QED
  BY ActivityInvInit, ActivityInvStep, <1>1, PTL DEF ActivitySpec

-----------------------------------------------------------------------------
(* The service implements the abstract coordinator. *)

LEMMA DropIsActivity ==
  ASSUME NEW o \in Operations, DropCalibration(o)
  PROVE  ActivityNext
BY DEF ActivityNext

LEMMA AbandonIsActivity ==
  ASSUME NEW o \in Operations, Abandon(o)
  PROVE  [ActivityNext]_activity
BY DropIsActivity DEF Abandon

LEMMA StepIsActivity ==
  ASSUME [Next]_vars
  PROVE  [ActivityNext]_activity
<1>1. ASSUME NEW o \in Operations, Start(o) PROVE ActivityNext
  BY <1>1 DEF Start, ActivityNext
<1>2. ASSUME NEW o \in Operations, Cancel(o) PROVE UNCHANGED activity
  BY <1>2 DEF Cancel
<1>3. ASSUME NEW o \in Operations, StartStep(o) PROVE [ActivityNext]_activity
  <2>1. CASE StartPublishes(o)  BY <2>1, AbandonIsActivity DEF StartPublishes
  <2>2. CASE StartSpawns(o)     BY <2>2, AbandonIsActivity DEF StartSpawns
  <2>3. CASE StartStores(o)     BY <2>3 DEF StartStores
  <2> QED BY <1>3, <2>1, <2>2, <2>3 DEF StartStep
<1>4. ASSUME NEW o \in Operations, WorkStep(o) PROVE [ActivityNext]_activity
  <2>1. CASE DropLease(o)
    BY <2>1, DropIsActivity DEF DropLease
  <2>2. CASE ~DropLease(o)
    BY <1>4, <2>2 DEF WorkStep, WorkEnters, ChildEnds, WorkSeesClosed, WorkJudges, Admit,
       Commit, Invalidate, Settle, PublishFinished, Release, WorkEnds
  <2> QED BY <2>1, <2>2
<1>5. ASSUME PlaybackStep PROVE [ActivityNext]_activity
  BY <1>5 DEF PlaybackStep, PrepareReads, PreparePushes, PlaybackStarts, PlaybackEnds, ActivityNext
<1>6. ASSUME Quiesce PROVE ActivityNext
  BY <1>6 DEF Quiesce, ActivityNext
<1>7. ASSUME ShutdownStep PROVE [ActivityNext]_activity
  <2>1. CASE DropTaken
    BY <2>1, DropIsActivity DEF DropTaken
  <2>2. CASE ~DropTaken
    BY <1>7, <2>2 DEF ShutdownStep, CloseService, CloseGate, AwaitCommit, CancelForShutdown,
       JoinWorker, CloseHub
  <2> QED BY <2>1, <2>2
<1>8. ASSUME UNCHANGED vars PROVE UNCHANGED activity
  BY <1>8 DEF vars
<1> QED
  BY <1>1, <1>2, <1>3, <1>4, <1>5, <1>6, <1>7, <1>8 DEF Next

(***************************************************************************)
(* Every behaviour of the service is one of the coordinator.               *)
(***************************************************************************)
THEOREM UsesActivity == Spec => ActivitySpec
<1>1. Init => ActivityInit
  BY DEF Init
<1> QED
  BY <1>1, StepIsActivity, PTL DEF Spec, ActivitySpec

(***************************************************************************)
(* Two owners never hold the physical boundary together in the service.    *)
(***************************************************************************)
THEOREM ServiceOneOwner == Spec => []OneOwner
BY UsesActivity, Exclusive, PTL

-----------------------------------------------------------------------------
(* A worker's reservation outlives its measurement. *)

Shape ==
  /\ start \in [Operations -> {Idle, "publish", "spawn", "store", "acked", "failed"}]
  /\ work \in [Operations -> {Idle, "entry", "ending", "ended"} \cup Publishing \cup Holding]
  /\ owner \in [Operations -> {"nobody", "operation", "worker", "shutdown"}]

\* From its reservation to the announcement of its result.
Live(o) == start[o] \in {"publish", "spawn"} \/ work[o] \in {"entry"} \cup Holding

\* No session holds a lease beside a live operation, whose own lease only the
\* shutdown may take.
Held(o) == Live(o) => leases \cap Sessions = {} /\ (~closing => o \in leases)

ShutdownOrder ==
  /\ quit # "open" => closing
  /\ \A o \in Operations : owner[o] = "shutdown" => closing

Unspawned == \A o \in Operations : start[o] \in {Idle, "publish", "spawn"} => work[o] = Idle

ServiceInv ==
  /\ ActivityInv
  /\ Shape
  /\ ShutdownOrder
  /\ Unspawned
  /\ \A o \in Operations : Held(o)

LEMMA ServiceInit == Init => ServiceInv
BY ActivityInvInit DEF Init, CalibrationInit, ActivityInit, ServiceInv, Shape, ShutdownOrder, Unspawned,
   Held, Live, Idle, Holding, Publishing

\* What a step of operation o may do to the others: nothing but drop its own lease.
LEMMA DropKeepsOthers ==
  ASSUME NEW o \in Operations, ActivityInv, DropCalibration(o), UNCHANGED closing
  PROVE  /\ leases' \cap Sessions \subseteq leases \cap Sessions
         /\ \A x \in Operations \ {o} : x \in leases => x \in leases'
BY DEF DropCalibration

LEMMA StartKeeps ==
  ASSUME ServiceInv, NEW o \in Operations, Start(o)
  PROVE  ServiceInv'
<1>1. ActivityInv'
  BY ActivityInvStep DEF ServiceInv, Start, ActivityNext
<1>2. leases = {} /\ ~closing
  BY GrantedMeansFree DEF ServiceInv, Start, ReserveCalibration, Admissible
<1>3. leases' = {o} /\ closing' = closing
  BY <1>2 DEF Start, ReserveCalibration
<1>4. (Shape /\ ShutdownOrder /\ Unspawned)'
  BY <1>3 DEF ServiceInv, Start, Shape, ShutdownOrder, Unspawned, Idle
<1>5. ASSUME NEW x \in Operations PROVE Held(x)'
  <2>1. leases' \cap Sessions = {}
    BY <1>3, OwnersDiffer
  <2>2. CASE x = o
    BY <2>1, <2>2, <1>3 DEF Held
  <2>3. CASE x # o
    BY <2>1, <2>3, <1>2 DEF ServiceInv, Held, Live, Start, Shape
  <2> QED BY <2>2, <2>3
<1> QED BY <1>1, <1>4, <1>5 DEF ServiceInv

LEMMA StartStepKeeps ==
  ASSUME ServiceInv, NEW o \in Operations, StartStep(o)
  PROVE  ServiceInv'
<1> USE DEF ServiceInv
<1>1. ASSUME Abandon(o), start[o] \in {"publish", "spawn"}, UNCHANGED <<work, quit>>
      PROVE  ServiceInv'
  <2>1. ActivityInv'
    BY <1>1, AbandonIsActivity, ActivityInvStep
  <2>2. UNCHANGED closing
    BY <1>1 DEF Abandon, DropCalibration, activity
  <2>3. (Shape /\ ShutdownOrder /\ Unspawned)'
    BY <1>1, <2>2 DEF Abandon, Shape, ShutdownOrder, Unspawned, Idle
  <2>4. ASSUME NEW x \in Operations PROVE Held(x)'
    <3>1. CASE x = o
      BY <1>1, <3>1 DEF Held, Live, Abandon, Unspawned, Shape, Idle, Holding
    <3>2. CASE x # o
      BY <1>1, <3>2, <2>2, DropKeepsOthers DEF Held, Live, Abandon, Shape, activity
    <3> QED BY <3>1, <3>2
  <2> QED BY <2>1, <2>3, <2>4
<1>2. ASSUME UNCHANGED <<activity, owner, quit>>,
             \/ start[o] = "publish" /\ start' = [start EXCEPT ![o] = "spawn"] /\ UNCHANGED work
             \/ /\ start[o] = "spawn" /\ start' = [start EXCEPT ![o] = "store"]
                /\ work' = [work EXCEPT ![o] = "entry"]
             \/ start[o] = "store" /\ start' = [start EXCEPT ![o] = "acked"] /\ UNCHANGED work
      PROVE  ServiceInv'
  <2>1. ActivityInv'
    BY <1>2, ActivityInvStep
  <2>2. (Shape /\ ShutdownOrder /\ Unspawned)'
    BY <1>2 DEF Shape, ShutdownOrder, Unspawned, Idle, activity
  <2>3. ASSUME NEW x \in Operations PROVE Held(x)'
    BY <1>2, <2>3 DEF Held, Live, Shape, activity
  <2> QED BY <2>1, <2>2, <2>3
<1>3. CASE StartPublishes(o)
  BY <1>1, <1>2, <1>3 DEF StartPublishes
<1>4. CASE StartSpawns(o)
  BY <1>1, <1>2, <1>4 DEF StartSpawns
<1>5. CASE StartStores(o)
  BY <1>2, <1>5 DEF StartStores
<1> QED BY <1>3, <1>4, <1>5 DEF StartStep

LEMMA WorkStepKeeps ==
  ASSUME ServiceInv, NEW o \in Operations, WorkStep(o)
  PROVE  ServiceInv'
<1> USE DEF ServiceInv
<1>1. CASE DropLease(o)
  <2>1. ActivityInv'
    BY <1>1, DropIsActivity, ActivityInvStep DEF DropLease
  <2>2. UNCHANGED <<closing, start, quit>> /\ work' = [work EXCEPT ![o] = "release"]
    BY <1>1 DEF DropLease, DropCalibration, activity, Goto
  <2>3. (Shape /\ ShutdownOrder /\ Unspawned)'
    BY <1>1, <2>2 DEF DropLease, Shape, ShutdownOrder, Unspawned, Idle, Publishing
  <2>4. ASSUME NEW x \in Operations PROVE Held(x)'
    <3>1. CASE x = o
      BY <1>1, <2>2, <3>1 DEF Held, Live, DropLease, Unspawned, Shape, Idle, Holding
    <3>2. CASE x # o
      BY <1>1, <3>2, <2>2, DropKeepsOthers DEF Held, Live, DropLease, Shape, activity
    <3> QED BY <3>1, <3>2
  <2> QED BY <2>1, <2>3, <2>4
<1>2. CASE ~DropLease(o)
  <2>1. /\ UNCHANGED <<activity, start, quit>>
        /\ work[o] \in {"entry", "ending"} \cup Holding \cup Publishing
        /\ \E pc \in {"ending", "ended"} \cup Holding \cup Publishing :
             /\ work' = [work EXCEPT ![o] = pc]
             /\ pc \in Holding => work[o] \in {"entry"} \cup Holding
        /\ owner' = owner \/ owner' = [owner EXCEPT ![o] = IF @ = "operation" THEN "worker" ELSE @]
    BY <1>2 DEF WorkStep, WorkEnters, ChildEnds, WorkSeesClosed, WorkJudges, Admit, Commit,
       Invalidate, Settle, PublishFinished, Release, WorkEnds, Goto, Holding, Publishing
  <2>2. ActivityInv'
    BY <2>1, ActivityInvStep
  <2>3. (Shape /\ ShutdownOrder /\ Unspawned)'
    BY <2>1 DEF Shape, ShutdownOrder, Unspawned, Idle, activity, Holding, Publishing
  <2>4. PICK pc \in {"ending", "ended"} \cup Holding \cup Publishing :
          /\ work' = [work EXCEPT ![o] = pc]
          /\ pc \in Holding => work[o] \in {"entry"} \cup Holding
    BY <2>1
  <2>5. ASSUME NEW x \in Operations PROVE Held(x)'
    <3>1. Live(x)' => Live(x)
      <4>1. CASE x = o
        BY <2>1, <2>4, <4>1 DEF Live, Shape, Holding, Publishing
      <4>2. CASE x # o
        BY <2>1, <2>4, <4>2 DEF Live, Shape
      <4> QED BY <4>1, <4>2
    <3> QED BY <2>1, <3>1 DEF Held, activity
  <2> QED BY <2>2, <2>3, <2>5
<1> QED BY <1>1, <1>2

LEMMA PlaybackKeeps ==
  ASSUME ServiceInv, PlaybackStep
  PROVE  ServiceInv'
<1> USE DEF ServiceInv
<1>1. ActivityInv'
  BY ActivityInvStep DEF PlaybackStep, PrepareReads, PreparePushes, PlaybackStarts, PlaybackEnds,
     ActivityNext
<1>2. UNCHANGED <<start, work, owner, quit, closing>>
  BY DEF PlaybackStep, PrepareReads, PreparePushes, PlaybackStarts, PlaybackEnds, service,
     activity, ReservePlayback, DropPlayback
<1>3. (Shape /\ ShutdownOrder /\ Unspawned)'
  BY <1>2 DEF Shape, ShutdownOrder, Unspawned
<1>4. ASSUME NEW x \in Operations PROVE Held(x)'
  <2>1. ASSUME NEW s \in Sessions, PlaybackStarts(s) PROVE ~Live(x)
    <3>1. leases = {} /\ ~closing
      BY <2>1, GrantedMeansFree DEF PlaybackStarts, ReservePlayback, Admissible
    <3> QED BY <3>1 DEF Held
  <2>2. ASSUME NEW s \in Sessions, PlaybackEnds(s) PROVE Held(x)'
    BY <2>2, <1>2, OwnersDiffer DEF Held, Live, PlaybackEnds, DropPlayback
  <2>3. CASE UNCHANGED activity
    BY <2>3, <1>2 DEF Held, Live, activity
  <2>4. CASE ~Live(x)
    BY <2>4, <1>2 DEF Held, Live
  <2> QED BY <2>1, <2>2, <2>3, <2>4 DEF PlaybackStep, PrepareReads, PreparePushes
<1> QED BY <1>1, <1>3, <1>4

LEMMA QuiesceKeeps ==
  ASSUME ServiceInv, Quiesce
  PROVE  ServiceInv'
<1>1. ActivityInv'
  BY ActivityInvStep DEF ServiceInv, Quiesce, ActivityNext
<1> QED
  BY <1>1 DEF ServiceInv, Quiesce, BeginShutdown, service, Shape, ShutdownOrder, Unspawned, Held, Live

LEMMA ShutdownKeeps ==
  ASSUME ServiceInv, ShutdownStep
  PROVE  ServiceInv'
<1> USE DEF ServiceInv
<1>1. quit # "open" /\ closing
  BY DEF ShutdownStep, CloseService, CloseGate, AwaitCommit, CancelForShutdown, JoinWorker,
     DropTaken, CloseHub, ShutdownOrder
<1>2. CASE DropTaken
  <2>1. ActivityInv'
    BY <1>2, DropIsActivity, ActivityInvStep DEF DropTaken
  <2>2. UNCHANGED <<closing, start, work>> /\ leases' \subseteq leases
    BY <1>2 DEF DropTaken, DropCalibration, activity
  <2>3. (Shape /\ ShutdownOrder /\ Unspawned)'
    BY <1>1, <1>2, <2>2 DEF DropTaken, Shape, ShutdownOrder, Unspawned
  <2>4. ASSUME NEW x \in Operations PROVE Held(x)'
    BY <1>1, <2>2 DEF Held, Live
  <2> QED BY <2>1, <2>3, <2>4
<1>3. CASE ~DropTaken
  <2>1. UNCHANGED <<activity, start, work>>
    BY <1>3 DEF ShutdownStep, CloseService, CloseGate, AwaitCommit, CancelForShutdown,
       JoinWorker, CloseHub, service
  <2>2. owner' \in [Operations -> {"nobody", "operation", "worker", "shutdown"}]
    BY <1>3 DEF ShutdownStep, CloseService, CloseGate, AwaitCommit, CancelForShutdown,
       JoinWorker, CloseHub, service, Shape
  <2>3. ActivityInv'
    BY <2>1, ActivityInvStep
  <2>4. (Shape /\ ShutdownOrder /\ Unspawned)'
    BY <1>1, <2>1, <2>2 DEF Shape, ShutdownOrder, Unspawned, activity
  <2>5. ASSUME NEW x \in Operations PROVE Held(x)'
    BY <2>1 DEF Held, Live, activity
  <2> QED BY <2>3, <2>4, <2>5
<1> QED BY <1>2, <1>3

LEMMA StutterKeeps ==
  ASSUME ServiceInv, UNCHANGED vars
  PROVE  ServiceInv'
<1>1. ActivityInv'
  BY ActivityInvStep DEF ServiceInv, vars
<1> QED
  BY <1>1 DEF ServiceInv, vars, service, activity, Shape, ShutdownOrder, Unspawned, Held, Live

LEMMA CancelKeeps ==
  ASSUME ServiceInv, NEW o \in Operations, Cancel(o)
  PROVE  ServiceInv'
<1>1. ActivityInv'
  BY ActivityInvStep DEF ServiceInv, Cancel
<1> QED
  BY <1>1 DEF ServiceInv, Cancel, activity, Shape, ShutdownOrder, Unspawned, Held, Live

(***************************************************************************)
(* No physical session holds the boundary beside a calibration's worker.   *)
(***************************************************************************)
THEOREM Measured == Spec => []MeasurementIsExclusive
<1>1. ServiceInv /\ [Next]_vars => ServiceInv'
  BY StartKeeps, StartStepKeeps, WorkStepKeeps, PlaybackKeeps, QuiesceKeeps, ShutdownKeeps,
     StutterKeeps, CancelKeeps DEF Next
<1>2. ServiceInv => MeasurementIsExclusive
  BY DEF ServiceInv, MeasurementIsExclusive, Held, Live
<1> QED
  BY ServiceInit, <1>1, <1>2, PTL DEF Spec

-----------------------------------------------------------------------------
(* The gate. *)

Reports == Outcomes \cup {"none", "measured", "diagnosed"}

Events == ({"progress"} \X Operations) \cup ({"finished"} \X Operations \X Reports)

Types ==
  /\ gate \in [closing : BOOLEAN, commit : BOOLEAN]
  /\ work \in [Operations -> {Idle, "entry", "ending", "ended"} \cup Publishing \cup Holding]
  /\ outcome \in [Operations -> Reports]
  /\ events \in Seq(Events)

\* One worker at a time is past its admission, and the gate knows of it.
Admitted ==
  /\ \A o \in Operations : work[o] \in Publishing => gate.commit
  /\ \A o, p \in Operations : work[o] \in Publishing /\ work[p] \in Publishing => o = p
  /\ gate.commit => \E o \in Operations : work[o] \in Publishing

\* The shutdown passes the gate when it is closed and nobody is inside.
Closed ==
  /\ quit = "waiting" => gate.closing
  /\ PastGate => gate.closing /\ ~gate.commit
  /\ quit = "aborted" => gate.commit

GateInv == Types /\ Admitted /\ Closed

LEMMA AppendStays == \A S : \A s \in Seq(S) : \A x \in S : Append(s, x) \in Seq(S)
OBVIOUS

LEMMA GateInit == Init => GateInv
BY DEF Init, CalibrationInit, GateInv, Types, Admitted, Closed, PastGate, Idle, Publishing, Reports

\* What cannot be seen from the gate.
LEMMA GateUnseen ==
  ASSUME GateInv, UNCHANGED <<gate, work, outcome, events, quit>>
  PROVE  GateInv'
BY DEF GateInv, Types, Admitted, Closed, PastGate

LEMMA GateStartStep ==
  ASSUME GateInv, ServiceInv, NEW o \in Operations, StartStep(o)
  PROVE  GateInv'
<1>1. UNCHANGED <<gate, outcome, quit>>
  BY DEF StartStep, StartPublishes, StartSpawns, StartStores
<1>2. work' = work \/ (work[o] = Idle /\ work' = [work EXCEPT ![o] = "entry"])
  <2>1. start[o] = "spawn" => work[o] = Idle
    BY DEF ServiceInv, Unspawned
  <2>. QED BY <2>1 DEF StartStep, StartPublishes, StartSpawns, StartStores
<1>3. events' = events \/ events' = Append(events, <<"progress", o>>)
  BY DEF StartStep, StartPublishes, StartSpawns, StartStores, Publish, PublishFails
<1>4. Types'
  <2>1. events' \in Seq(Events)
    <3>1. <<"progress", o>> \in Events
      BY DEF Events
    <3>. QED BY <1>3, <3>1 DEF GateInv, Types
  <2>. QED BY <1>1, <1>2, <2>1 DEF GateInv, Types
<1>5. Admitted'
  BY <1>1, <1>2 DEF GateInv, Types, Admitted, Publishing, Idle
<1>6. Closed'
  BY <1>1 DEF GateInv, Closed, PastGate
<1>. QED BY <1>4, <1>5, <1>6 DEF GateInv

LEMMA GateWorkStep ==
  ASSUME GateInv, NEW o \in Operations, WorkStep(o), quit # "aborted"
  PROVE  GateInv'
<1>1. UNCHANGED quit
  BY DEF WorkStep, WorkEnters, ChildEnds, WorkSeesClosed, WorkJudges, Admit, Commit, Invalidate,
     Settle, PublishFinished, DropLease, Release, WorkEnds
<1>2. PICK pc \in {"entry", "ending", "ended"} \cup Publishing \cup Holding :
        /\ work' = [work EXCEPT ![o] = pc]
        /\ \/ /\ UNCHANGED gate
              /\ work[o] \in Publishing <=> pc \in Publishing
           \/ /\ ~gate.closing /\ ~gate.commit
              /\ gate' = [gate EXCEPT !.commit = TRUE]
              /\ pc \in Publishing
           \/ /\ gate' = [gate EXCEPT !.commit = FALSE]
              /\ work[o] \in Publishing /\ pc \notin Publishing
  <2>. USE DEF Goto, Publishing, Holding
  <2>1. CASE Admit(o)
    BY <2>1 DEF Admit
  <2>2. CASE Release(o)
    BY <2>2 DEF Release
  <2>3. CASE ~ (Admit(o) \/ Release(o))
    BY <2>3 DEF WorkStep, WorkEnters, ChildEnds, WorkSeesClosed, WorkJudges, Commit, Invalidate,
       Settle, PublishFinished, DropLease, WorkEnds
  <2>. QED BY <2>1, <2>2, <2>3
<1>3. outcome' \in [Operations -> Reports]
  <2>1. CASE ChildEnds(o)
    BY <2>1 DEF ChildEnds, GateInv, Types, Reports, Outcomes
  <2>2. CASE WorkJudges(o)
    BY <2>2 DEF WorkJudges, GateInv, Types, Reports, Outcomes
  <2>3. CASE Commit(o)
    BY <2>3 DEF Commit, GateInv, Types, Reports, Outcomes
  <2>4. CASE ~ (ChildEnds(o) \/ WorkJudges(o) \/ Commit(o))
    BY <2>4 DEF WorkStep, WorkEnters, WorkSeesClosed, Admit, Invalidate, Settle, PublishFinished,
       DropLease, Release, WorkEnds, GateInv, Types
  <2>. QED BY <2>1, <2>2, <2>3, <2>4
<1>4. events' \in Seq(Events)
  <2>1. events' = events \/ events' = Append(events, <<"finished", o, outcome[o]>>)
    BY DEF WorkStep, WorkEnters, ChildEnds, WorkSeesClosed, WorkJudges, Admit, Commit, Invalidate,
       Settle, PublishFinished, DropLease, Release, WorkEnds, Publish, PublishFails
  <2>2. <<"finished", o, outcome[o]>> \in Events
    <3>1. outcome[o] \in Reports
      BY DEF GateInv, Types
    <3>. QED BY <3>1 DEF Events
  <2>3. Append(events, <<"finished", o, outcome[o]>>) \in Seq(Events)
    BY <2>2, AppendStays DEF GateInv, Types
  <2>. QED BY <2>1, <2>3, Zenon DEF GateInv, Types
<1>5. Types'
  BY <1>2, <1>3, <1>4 DEF GateInv, Types, Publishing, Holding
<1>6. Admitted'
  BY <1>2 DEF GateInv, Types, Admitted
<1>7. Closed'
  BY <1>1, <1>2 DEF GateInv, Types, Admitted, Closed, PastGate
<1>. QED BY <1>5, <1>6, <1>7 DEF GateInv

LEMMA GateShutdownStep ==
  ASSUME GateInv, ShutdownStep
  PROVE  GateInv'
<1>1. UNCHANGED <<work, outcome, events>>
  BY DEF ShutdownStep, CloseService, CloseGate, AwaitCommit, CancelForShutdown, JoinWorker,
     DropTaken, CloseHub, service
<1>2. CASE CloseGate
  <2>1. gate' = [gate EXCEPT !.closing = TRUE] /\ quit' = "waiting"
    BY <1>2 DEF CloseGate
  <2>. QED BY <1>1, <2>1 DEF GateInv, Types, Admitted, Closed, PastGate
<1>3. CASE AwaitCommit
  BY <1>1, <1>3 DEF AwaitCommit, service, GateInv, Types, Admitted, Closed, PastGate
<1>4. CASE ~ (CloseGate \/ AwaitCommit)
  <2>1. UNCHANGED gate
    BY <1>4 DEF ShutdownStep, CloseService, CancelForShutdown, JoinWorker, DropTaken, CloseHub,
       service
  <2>2. \/ quit = "quiesced" /\ quit' = "closed"
        \/ PastGate /\ quit' \in {"joining", "drop", "stopped", "exited"}
    BY <1>4 DEF ShutdownStep, CloseService, CancelForShutdown, JoinWorker, DropTaken, CloseHub,
       PastGate
  <2>. QED BY <1>1, <2>1, <2>2 DEF GateInv, Types, Admitted, Closed, PastGate
<1>. QED BY <1>2, <1>3, <1>4

LEMMA GateStep ==
  ASSUME GateInv, ServiceInv, [Next]_vars
  PROVE  GateInv'
<1>1. ASSUME NEW o \in Operations, Start(o) \/ Cancel(o) PROVE GateInv'
  BY <1>1, GateUnseen DEF Start, Cancel
<1>2. CASE PlaybackStep
  BY <1>2, GateUnseen
     DEF PlaybackStep, PrepareReads, PreparePushes, PlaybackStarts, PlaybackEnds, service
<1>3. CASE Quiesce
  BY <1>3 DEF Quiesce, service, GateInv, Types, Admitted, Closed, PastGate
<1>4. CASE UNCHANGED vars
  BY <1>4, GateUnseen DEF vars, service
<1>. QED
  BY <1>1, <1>2, <1>3, <1>4, GateStartStep, GateWorkStep, GateShutdownStep DEF Next

(***************************************************************************)
(* The shutdown aborts the process only over a writer that really is past  *)
(* its admission, and once past the gate nothing is committed and nothing  *)
(* announced, for any number of operations: the safety of                  *)
(* ShutdownIsOrderly (native_runtime.rs:437-514).                          *)
(***************************************************************************)
THEOREM ShutdownHasTheLastWord == Spec => []AbortMeansAWriter /\ QuietAfterShutdown
<1>1. ServiceInv /\ [Next]_vars => ServiceInv'
  BY StartKeeps, StartStepKeeps, WorkStepKeeps, PlaybackKeeps, QuiesceKeeps, ShutdownKeeps,
     StutterKeeps, CancelKeeps DEF Next
<1>2. GateInv => AbortMeansAWriter
  BY DEF GateInv, Admitted, Closed, AbortMeansAWriter
<1>3. GateInv /\ [Next]_vars => [PastGate => margin' = margin /\ ~Announces]_vars
  <2>. SUFFICES ASSUME GateInv, Next, PastGate
                PROVE  margin' = margin /\ ~Announces
    OBVIOUS
  <2>1. \A o \in Operations : work[o] \notin Publishing
    BY DEF GateInv, Admitted, Closed
  <2>2. ASSUME NEW o \in Operations, WorkStep(o) PROVE UNCHANGED <<margin, events>>
    BY <2>1, <2>2 DEF WorkStep, WorkEnters, ChildEnds, WorkSeesClosed, WorkJudges, Admit, Commit,
       Invalidate, Settle, PublishFinished, DropLease, Release, WorkEnds, plans, Publishing
  <2>3. ASSUME NEW o \in Operations, StartStep(o)
        PROVE  margin' = margin /\ ~Announces
    <3>1. margin' = margin
      BY <2>3 DEF StartStep, StartPublishes, StartSpawns, StartStores, plans
    <3>2. events' = events \/ events' = Append(events, <<"progress", o>>)
      BY <2>3 DEF StartStep, StartPublishes, StartSpawns, StartStores, Publish, PublishFails
    <3>3. events \in Seq(Events) /\ <<"progress", o>> \in Events
      BY DEF GateInv, Types, Events
    <3>4. \A i \in DOMAIN events' \ DOMAIN events : events'[i] = <<"progress", o>>
      BY <3>2, <3>3
    <3>. QED BY <3>1, <3>4 DEF Announces
  <2>4. CASE UNCHANGED <<margin, events>>
    BY <2>4 DEF Announces
  <2>5. ASSUME NEW o \in Operations, Start(o) \/ Cancel(o) PROVE UNCHANGED <<margin, events>>
    BY <2>5 DEF Start, Cancel, plans
  <2>6. PlaybackStep \/ Quiesce \/ ShutdownStep => UNCHANGED <<margin, events>>
    BY DEF PlaybackStep, PrepareReads, PreparePushes, PlaybackStarts, PlaybackEnds, Quiesce,
       ShutdownStep, CloseService, CloseGate, AwaitCommit, CancelForShutdown, JoinWorker,
       DropTaken, CloseHub, plans
  <2>. QED BY <2>2, <2>3, <2>4, <2>5, <2>6 DEF Next
<1>. QED
  BY ServiceInit, GateInit, <1>1, GateStep, <1>2, <1>3, PTL DEF Spec, QuietAfterShutdown
-----------------------------------------------------------------------------
(***************************************************************************)
(* The measuring session.  An accepted sample, a publishable close and the *)
(* success of a clean-up are judged by different threads at different      *)
(* times, so the invariant follows each of them through all places of the  *)
(* caller and of the pump:                                                 *)
(*   SessionTypes     the types, and which places belong to which mode;    *)
(*   ReceiptsInv      what is pending belongs to the active packet, and    *)
(*                    packets are armed in increasing order;               *)
(*   SealInv          what the seal has established about the registration *)
(*                    and the queue of the pump;                           *)
(*   AlienInv         while the boundary is not lost, an input that is not *)
(*                    the session's own is still in front of the pump;     *)
(*   CloseInv         what a close may rely on at each of its steps.       *)
(***************************************************************************)

Receipt == [tag : Nat, key : KeySet \cup {""}]

SharedState ==
  [active : Nat, pending : SUBSET Receipt, barrier : Nat, lost : BOOLEAN,
   failure : BOOLEAN, life : {"Active", "Sealing", "Sealed", "Failed"},
   exit : BOOLEAN, closed : BOOLEAN, unfocused : BOOLEAN,
   pumpFailed : BOOLEAN, restoreFailed : BOOLEAN]

Messages == [kind : {"barrier"}, generation : Nat]
              \cup [kind : {"exit", "close"} \cup (IF raw THEN {"seal"} ELSE {})]

InSeal == {"drain", "restore", "redrain", "decide", "refuse"}
PumpPlaces == {"loop", "match", "leaving", "gone"} \cup (IF raw THEN InSeal ELSE {})

ObservedPlaces == {"post", "barrier", "arm", "receipts", "expired", "boundary",
                   "seal", "sealing", "sealLate", "join", "joinUnsealed",
                   "check"}
SenderPlaces == {"stopSender", "awaitSender"}
SharedPlaces == {"idle", "precise", "send", "failing", "clean", "stop",
                 "awaitStop", "closed"}

SessionTypes ==
  /\ raw \in BOOLEAN /\ st \in SharedState
  /\ registered \in BOOLEAN /\ (registered => raw)
  /\ posted \in Seq(Messages) /\ input \in Seq(Receipt)
  /\ flying \in Seq(Receipt)
  /\ pump \in [at : PumpPlaces, holds : Receipt]
  /\ at \in SharedPlaces \cup (IF raw THEN ObservedPlaces ELSE SenderPlaces)
  /\ sequence \in Nat \ {0} /\ barrier \in Nat
  /\ cleanup \in [success : BOOLEAN, conclusive : BOOLEAN]
  /\ sent \in SUBSET [tag : Nat, key : KeySet]

Armed == raw /\ at \in {"precise", "send", "receipts"}

ReceiptsInv ==
  /\ SamplesAreTheirPackets
  /\ \A sample \in samples : sample.tag \in Nat /\ sample.tag < sequence
  /\ st.active # NoSequence =>
       /\ \A receipt \in st.pending :
            receipt.tag = st.active /\ receipt.key \in KeySet
       /\ \A sample \in samples : sample.tag < st.active
  /\ Armed => sequence > 1 /\ (st.lost \/ st.active = sequence - 1)

SealInv ==
  /\ pump.at \in InSeal => st.life \in {"Sealing", "Failed"}
  /\ pump.at \in {"redrain", "decide"} => ~registered
  /\ pump.at = "decide" => input = <<>>
  /\ st.life = "Sealed" =>
       ~registered /\ input = <<>> /\ pump.at \in {"loop", "leaving", "gone"}
  /\ pump.at = "gone" /\ registered => st.restoreFailed

Accepted == UNION {sample.receipts : sample \in samples}
Judged == st.pending \cup Accepted
InHand == pump.at = "match"

AlienIsAhead ==
  \/ \E i \in 1..Len(input) :
       \/ input[i].tag = 0
       \/ input[i] \in Judged
       \/ InHand /\ input[i] = pump.holds
  \/ \E i, j \in 1..Len(input) : i < j /\ input[i] = input[j]
  \/ InHand /\ pump.holds \in Judged

AlienInv ==
  ~st.lost /\ ~st.failure /\ at # "expired" =>
    /\ \A i \in queued :
         \/ i \in Judged
         \/ \E j \in 1..Len(input) : input[j] = i
         \/ InHand /\ pump.holds = i
    /\ alien => AlienIsAhead

Paired == {"idle", "post", "barrier", "arm", "precise", "send", "boundary",
           "seal", "sealing", "sealLate", "join", "clean", "check"}
Released == {"stop", "stopSender", "check", "awaitStop", "awaitSender", "closed"}

CloseInv ==
  /\ raw /\ at \in Paired => sent = Accepted
  /\ at = "receipts" => sent = Accepted \cup [tag : {sequence - 1}, key : KeySet]
  /\ at \in Released /\ (~refused \/ cleanup.success) => down = {}
  /\ raw /\ at \in {"clean", "check"} => pump.at = "gone"
  /\ at = "closed" /\ cleanup.success =>
       pump.at = "gone" /\ ~st.restoreFailed
  /\ result = "ok" => at = "closed"
  /\ result = "ok" /\ raw =>
       pump.at = "gone" /\ sent = Accepted /\ ~alien /\ ~registered

SessionInv ==
  SessionTypes /\ ReceiptsInv /\ SealInv /\ AlienInv /\ CloseInv
-----------------------------------------------------------------------------
LEMMA Edits ==
  ASSUME NEW s \in SharedState
  PROVE  /\ LoseBoundary(s) \in SharedState
         /\ SealFails(s) \in SharedState
         /\ IntegrityFailure(s) \in SharedState
         /\ \A i \in Receipt : Matched(s, i) \in SharedState
  BY DEF SharedState, LoseBoundary, SealFails, IntegrityFailure, Matched, NoSequence

LEMMA FieldEdits ==
  ASSUME NEW s \in SharedState
  PROVE  /\ \A n \in Nat : [s EXCEPT !.active = n, !.pending = {}] \in SharedState
         /\ [s EXCEPT !.pending = {}, !.active = NoSequence] \in SharedState
         /\ [s EXCEPT !.active = NoSequence] \in SharedState
         /\ [s EXCEPT !.exit = TRUE] \in SharedState
         /\ [s EXCEPT !.closed = TRUE, !.exit = TRUE] \in SharedState
         /\ [s EXCEPT !.pumpFailed = TRUE] \in SharedState
         /\ [s EXCEPT !.restoreFailed = TRUE] \in SharedState
         /\ [s EXCEPT !.unfocused = TRUE] \in SharedState
  BY DEF SharedState, NoSequence

LEMMA QueueEdits ==
  ASSUME NEW S, NEW q \in Seq(S)
  PROVE  /\ \A x \in S : Append(q, x) \in Seq(S)
         /\ q # <<>> => Head(q) \in S /\ Tail(q) \in Seq(S)
         /\ \A r \in Seq(S) : q \o r \in Seq(S)
         /\ <<>> \in Seq(S)
  OBVIOUS

LEMMA DrainTypes ==
  ASSUME SessionTypes, DrainQueue
  PROVE  Drained \in SharedState /\ input' \in Seq(Receipt)
<1>1. Drained \in SharedState
  BY Edits, FieldEdits DEF SessionTypes, Drained
<1>2. input' \in Seq(Receipt)
  BY QueueEdits DEF SessionTypes, DrainQueue
<1> QED BY <1>1, <1>2

(* What a step of the pump has to keep.                                    *)
PumpTypes ==
  /\ st' \in SharedState /\ posted' \in Seq(Messages) /\ input' \in Seq(Receipt)
  /\ registered' \in BOOLEAN /\ (registered' => raw)
  /\ pump' \in [at : PumpPlaces, holds : Receipt]

LEMMA PumpTypesSuffice ==
  ASSUME SessionTypes, UNCHANGED <<raw, flying, callerVars>>, PumpTypes
  PROVE  SessionTypes'
  BY DEF SessionTypes, PumpTypes, callerVars, Messages, PumpPlaces

LEMMA TakingTypes ==
  ASSUME SessionTypes, NEW kind, TakesMessage(kind)
  PROVE  /\ UNCHANGED <<raw, flying, callerVars>>
         /\ posted' \in Seq(Messages) /\ Next1 \in Messages /\ Next1.kind = kind
<1>1. posted \in Seq(Messages) /\ posted # <<>> /\ posted' = Tail(posted)
  BY DEF SessionTypes, TakesMessage
<1>2. Head(posted) \in Messages /\ Tail(posted) \in Seq(Messages)
  BY <1>1, QueueEdits
<1> QED BY <1>1, <1>2 DEF TakesMessage, Next1

LEMMA PumpKeepsTypes == SessionTypes /\ Pump => SessionTypes'
<1> SUFFICES ASSUME SessionTypes, Pump PROVE SessionTypes'
  OBVIOUS
<1>1. CASE PumpBarrier
  <2>1. UNCHANGED <<raw, flying, callerVars, registered, pump>> /\ posted' \in Seq(Messages)
    BY <1>1, TakingTypes DEF PumpBarrier
  <2>2. Next1.generation \in Nat
    BY <1>1, TakingTypes DEF PumpBarrier, Messages
  <2>3. st' \in SharedState
    BY <1>1, <2>2, DrainTypes DEF PumpBarrier, SessionTypes, SharedState
  <2>4. input' \in Seq(Receipt)
    BY <1>1, DrainTypes DEF PumpBarrier
  <2> QED BY <2>1, <2>3, <2>4, PumpTypesSuffice DEF PumpTypes, SessionTypes
<1>2. CASE PumpClose
  <2>1. UNCHANGED <<raw, flying, callerVars, input, registered, pump>> /\ posted' \in Seq(Messages)
    BY <1>2, TakingTypes DEF PumpClose
  <2>2. [st EXCEPT !.closed = TRUE, !.exit = TRUE] \in SharedState
    BY FieldEdits DEF SessionTypes
  <2>3. st' \in SharedState
    BY <1>2, <2>2, Edits DEF PumpClose
  <2> QED BY <2>1, <2>3, PumpTypesSuffice DEF PumpTypes, SessionTypes
<1>3. CASE PumpExit
  <2>1. UNCHANGED <<raw, flying, callerVars, input, registered, pump>> /\ posted' \in Seq(Messages)
    BY <1>3, TakingTypes DEF PumpExit
  <2>2. st' \in SharedState
    BY <1>3, FieldEdits DEF PumpExit, SessionTypes
  <2> QED BY <2>1, <2>2, PumpTypesSuffice DEF PumpTypes, SessionTypes
<1>4. CASE PumpSeal
  <2>1. UNCHANGED <<raw, flying, callerVars, input, registered>> /\ posted' \in Seq(Messages)
    BY <1>4, TakingTypes DEF PumpSeal
  <2>2. raw
    BY <1>4, TakingTypes DEF PumpSeal, Messages
  <2>3. st' \in SharedState
    BY <1>4, Edits DEF PumpSeal, SessionTypes, SharedState
  <2>4. pump' \in [at : PumpPlaces, holds : Receipt]
    BY <1>4, <2>2 DEF PumpSeal, SessionTypes, PumpPlaces, InSeal
  <2> QED BY <2>1, <2>3, <2>4, PumpTypesSuffice DEF PumpTypes, SessionTypes
<1>5. CASE SealDrainFirst \/ SealDrainLast
  <2>1. UNCHANGED <<raw, flying, callerVars, posted, registered>>
    BY <1>5 DEF SealDrainFirst, SealDrainLast, SealDrain, PumpStep
  <2>2. st' \in SharedState /\ input' \in Seq(Receipt)
    BY <1>5, DrainTypes DEF SealDrainFirst, SealDrainLast, SealDrain
  <2>3. pump' \in [at : PumpPlaces, holds : Receipt]
    BY <1>5 DEF SealDrainFirst, SealDrainLast, SealDrain, SessionTypes, PumpPlaces, InSeal
  <2> QED BY <2>1, <2>2, <2>3, PumpTypesSuffice DEF PumpTypes, SessionTypes
<1>6. CASE SealRestore
  <2>1. UNCHANGED <<raw, flying, callerVars, posted, input>> /\ registered' \in BOOLEAN
    BY <1>6 DEF SealRestore, PumpStep
  <2>2. raw
    BY <1>6 DEF SealRestore, SessionTypes, PumpPlaces
  <2>3. [st EXCEPT !.restoreFailed = TRUE] \in SharedState
    BY FieldEdits DEF SessionTypes
  <2>4. st' \in SharedState
    BY <1>6, <2>3, Edits DEF SealRestore, SessionTypes
  <2>5. pump' \in [at : PumpPlaces, holds : Receipt]
    BY <1>6, <2>2 DEF SealRestore, SessionTypes, PumpPlaces, InSeal
  <2> QED BY <2>1, <2>2, <2>4, <2>5, PumpTypesSuffice DEF PumpTypes, SessionTypes
<1>7. CASE SealDecide
  <2>1. UNCHANGED <<raw, flying, callerVars, posted, input, registered>>
    BY <1>7 DEF SealDecide, PumpStep
  <2>2. [st EXCEPT !.life = "Sealed"] \in SharedState /\ SealFails(st) \in SharedState
    BY Edits DEF SessionTypes, SharedState
  <2>3. PICK s \in SharedState : st' = [s EXCEPT !.exit = TRUE]
    BY <1>7, <2>2 DEF SealDecide
  <2>4. st' \in SharedState
    BY <2>3 DEF SharedState
  <2>5. pump' \in [at : PumpPlaces, holds : Receipt]
    BY <1>7 DEF SealDecide, SessionTypes, PumpPlaces
  <2> QED BY <2>1, <2>4, <2>5, PumpTypesSuffice DEF PumpTypes, SessionTypes
<1>8. CASE PumpInput
  <2>1. UNCHANGED <<raw, flying, callerVars, posted, registered>>
    BY <1>8 DEF PumpInput, PumpStep
  <2>2. input' \in Seq(Receipt) /\ Head(input) \in Receipt
    BY <1>8, QueueEdits DEF PumpInput, SessionTypes
  <2>3. st' \in SharedState
    BY <1>8, Edits DEF PumpInput, SessionTypes
  <2>4. pump' \in [at : PumpPlaces, holds : Receipt]
    BY <1>8, <2>2 DEF PumpInput, SessionTypes, PumpPlaces
  <2> QED BY <2>1, <2>2, <2>3, <2>4, PumpTypesSuffice DEF PumpTypes, SessionTypes
<1>9. CASE PumpMatch
  <2>1. UNCHANGED <<raw, flying, callerVars, posted, input, registered>>
    BY <1>9 DEF PumpMatch, PumpStep
  <2>2. st' \in SharedState
    BY <1>9, Edits DEF PumpMatch, SessionTypes
  <2>3. pump' \in [at : PumpPlaces, holds : Receipt]
    BY <1>9 DEF PumpMatch, PumpPlaces, Receipt, Nothing
  <2> QED BY <2>1, <2>2, <2>3, PumpTypesSuffice DEF PumpTypes, SessionTypes
<1>10. CASE PumpLeaves
  <2>1. UNCHANGED <<raw, flying, callerVars, posted, st, input, registered>>
    BY <1>10 DEF PumpLeaves, PumpStep
  <2>2. pump' \in [at : PumpPlaces, holds : Receipt]
    BY <1>10 DEF PumpLeaves, SessionTypes, PumpPlaces
  <2> QED BY <2>1, <2>2, PumpTypesSuffice DEF PumpTypes, SessionTypes
<1>11. CASE PumpRestores
  <2>1. UNCHANGED <<raw, flying, callerVars, posted, input>>
    BY <1>11 DEF PumpRestores, PumpStep
  <2>2. pump' \in [at : PumpPlaces, holds : Receipt]
    BY <1>11 DEF PumpRestores, SessionTypes, PumpPlaces
  <2>3. st' \in SharedState /\ registered' \in BOOLEAN /\ (registered' => raw)
    BY <1>11, FieldEdits DEF PumpRestores, SessionTypes
  <2> QED BY <2>1, <2>2, <2>3, PumpTypesSuffice DEF PumpTypes, SessionTypes
<1> QED BY <1>1, <1>2, <1>3, <1>4, <1>5, <1>6, <1>7, <1>8, <1>9, <1>10, <1>11 DEF Pump

LEMMA PumpBreakingKeepsTypes == SessionTypes /\ PumpBreaks => SessionTypes'
<1> SUFFICES ASSUME SessionTypes, PumpBreaks PROVE SessionTypes'
  OBVIOUS
<1>1. UNCHANGED <<raw, flying, callerVars, posted, input, registered>>
  BY DEF PumpBreaks, PumpStep
<1>2. [st EXCEPT !.pumpFailed = TRUE] \in SharedState
  BY FieldEdits DEF SessionTypes
<1>3. st' \in SharedState
  BY <1>2, Edits DEF PumpBreaks
<1>4. pump' \in [at : PumpPlaces, holds : Receipt]
  BY DEF PumpBreaks, SessionTypes, PumpPlaces
<1> QED BY <1>1, <1>3, <1>4, PumpTypesSuffice DEF PumpTypes, SessionTypes

Places == SharedPlaces \cup (IF raw THEN ObservedPlaces ELSE SenderPlaces)

(* What a step of the caller has to keep.                                  *)
CallerTypes ==
  /\ st' \in SharedState /\ posted' \in Seq(Messages)
  /\ flying' \in Seq(Receipt) /\ at' \in Places
  /\ sequence' \in Nat \ {0} /\ barrier' \in Nat
  /\ cleanup' \in [success : BOOLEAN, conclusive : BOOLEAN]
  /\ sent' \in SUBSET [tag : Nat, key : KeySet]

LEMMA CallerTypesSuffice ==
  ASSUME SessionTypes, Caller, CallerTypes
  PROVE  SessionTypes'
  BY DEF SessionTypes, Caller, CallerTypes, pumpVars, Messages, PumpPlaces, Places

LEMMA PostTypes ==
  ASSUME SessionTypes
  PROVE  /\ \A generation \in Nat :
              Append(posted, [kind |-> "barrier", generation |-> generation]) \in Seq(Messages)
         /\ Append(posted, [kind |-> "exit"]) \in Seq(Messages)
         /\ raw => Append(posted, [kind |-> "seal"]) \in Seq(Messages)
<1>1. posted \in Seq(Messages)
  BY DEF SessionTypes
<1>2. /\ \A generation \in Nat : [kind |-> "barrier", generation |-> generation] \in Messages
      /\ [kind |-> "exit"] \in Messages
      /\ raw => [kind |-> "seal"] \in Messages
  BY DEF Messages
<1> QED BY <1>1, <1>2, QueueEdits

LEMMA ChordKeys == /\ \A i \in 1..Len(Chord) : Chord[i] \in KeySet
                   /\ Len(Chord) \in Nat
  BY SessionAssumption DEF KeySet, ToSet

LEMMA FlyingTypes ==
  ASSUME SessionTypes, NEW n \in 0..Len(Chord), Packet \in Nat
  PROVE  Inserted(n) \in Seq(Receipt)
<1>1. n \in Nat /\ 1..n \subseteq 1..Len(Chord)
  BY ChordKeys
<1>2. \A i \in 1..n : [tag |-> Packet, key |-> Chord[i]] \in Receipt
  BY <1>1, ChordKeys DEF Receipt
<1> QED BY <1>1, <1>2 DEF Inserted

LEMMA WalkingKeepsTypes ==
  ASSUME SessionTypes,
         \/ Foreground \/ Finishes \/ PostBarrier \/ AwaitBarrier \/ Arm \/ Precise
         \/ ReceiptsFail \/ ReceiptsTimeOut \/ Expired \/ CheckBoundary
         \/ PostSeal \/ AwaitSeal \/ SealTimesOut \/ Join
  PROVE  SessionTypes'
<1>1. Caller /\ UNCHANGED <<flying, sent, cleanup>>
  BY DEF NoPacket, Foreground, Finishes, PostBarrier, AwaitBarrier, Arm, Precise,
         ReceiptsFail, ReceiptsTimeOut, Expired, CheckBoundary, PostSeal,
         AwaitSeal, SealTimesOut, Join
<1>2. at' \in Places
  BY DEF SessionTypes, Places, SharedPlaces, ObservedPlaces, SenderPlaces, Fails,
         Foreground, Finishes, PostBarrier, AwaitBarrier, Arm, Precise,
         ReceiptsFail, ReceiptsTimeOut, Expired, CheckBoundary, PostSeal,
         AwaitSeal, SealTimesOut, Join
<1>3. sequence' \in Nat \ {0} /\ barrier' \in Nat
  BY DEF SessionTypes, Foreground, Finishes, PostBarrier, AwaitBarrier, Arm, Precise,
         ReceiptsFail, ReceiptsTimeOut, Expired, CheckBoundary, PostSeal,
         AwaitSeal, SealTimesOut, Join
<1>4. st' \in SharedState
  <2>1. CASE Foreground
    BY <2>1, FieldEdits DEF Foreground, SessionTypes
  <2>2. CASE Arm
    <3>1. st' \in {st, LoseBoundary(st), [st EXCEPT !.active = sequence, !.pending = {}]}
      BY <2>2 DEF Arm
    <3>2. st \in SharedState /\ sequence \in Nat
      BY DEF SessionTypes
    <3>3. [st EXCEPT !.active = sequence, !.pending = {}] \in SharedState
      BY <3>2, FieldEdits
    <3> QED BY <3>1, <3>2, <3>3, Edits
  <2>3. CASE ReceiptsFail \/ ReceiptsTimeOut
    BY <2>3, FieldEdits DEF ReceiptsFail, ReceiptsTimeOut, SessionTypes
  <2>4. CASE Expired
    BY <2>4, Edits DEF Expired, SessionTypes
  <2>5. CASE SealTimesOut
    <3>1. [st EXCEPT !.exit = TRUE] \in SharedState
      BY FieldEdits DEF SessionTypes
    <3> QED BY <2>5, <3>1, Edits DEF SealTimesOut
  <2>6. CASE Finishes \/ PostBarrier \/ AwaitBarrier \/ Precise \/ CheckBoundary
             \/ PostSeal \/ AwaitSeal \/ Join
    BY <2>6 DEF SessionTypes, Finishes, PostBarrier, AwaitBarrier, Precise,
                CheckBoundary, PostSeal, AwaitSeal, Join
  <2> QED BY <2>1, <2>2, <2>3, <2>4, <2>5, <2>6
<1>5. posted' \in Seq(Messages)
  <2>1. barrier + 1 \in Nat /\ (at = "seal" => raw) /\ posted \in Seq(Messages)
    BY DEF SessionTypes, SharedPlaces, SenderPlaces
  <2>2. CASE PostBarrier
    BY <2>1, <2>2, PostTypes DEF PostBarrier, Post
  <2>3. CASE PostSeal
    BY <2>1, <2>3, PostTypes DEF PostSeal, Post
  <2>4. CASE SealTimesOut
    BY <2>1, <2>4, PostTypes DEF SealTimesOut, Post
  <2>5. CASE UNCHANGED posted
    BY <2>1, <2>5
  <2> QED
    BY <2>2, <2>3, <2>4, <2>5
    DEF Foreground, Finishes, AwaitBarrier, Arm, Precise, ReceiptsFail,
        ReceiptsTimeOut, Expired, CheckBoundary, AwaitSeal, Join
<1> QED
  BY <1>1, <1>2, <1>3, <1>4, <1>5, CallerTypesSuffice DEF CallerTypes, SessionTypes

LEMMA SendingKeepsTypes ==
  ASSUME SessionTypes, SendTagged \/ SendPrepared \/ ReceiptsComplete,
         raw /\ at = "send" => sequence > 1
  PROVE  SessionTypes'
<1>1. Caller /\ UNCHANGED <<posted, barrier, cleanup>>
  BY DEF SendTagged, SendPrepared, ReceiptsComplete
<1>2. at' \in Places /\ sequence' \in Nat \ {0}
  BY DEF SessionTypes, Places, SharedPlaces, ObservedPlaces, Fails,
         SendTagged, SendPrepared, ReceiptsComplete
<1>3. CASE SendTagged
  <2>1. Packet \in Nat /\ raw
    BY <1>3 DEF SendTagged, Packet, SessionTypes
  <2>2. PICK n \in 0..Len(Chord) :
          /\ flying' = flying \o (IF registered THEN Inserted(n) ELSE <<>>)
          /\ sent' = sent \cup [tag : {Packet}, key : KeySet]
          /\ st' = st \/ st' = LoseBoundary(st)
    BY <1>3 DEF SendTagged
  <2>3. flying' \in Seq(Receipt)
    <3>1. Inserted(n) \in Seq(Receipt) /\ <<>> \in Seq(Receipt)
      BY <2>1, FlyingTypes, QueueEdits
    <3> QED BY <2>2, <3>1, QueueEdits DEF SessionTypes
  <2>4. sent' \in SUBSET [tag : Nat, key : KeySet]
    BY <2>1, <2>2 DEF SessionTypes
  <2>5. st' \in SharedState
    BY <2>2, Edits DEF SessionTypes
  <2> QED
    BY <1>1, <1>2, <2>3, <2>4, <2>5, CallerTypesSuffice DEF CallerTypes, SessionTypes
<1>4. CASE SendPrepared
  <2>1. UNCHANGED <<st, flying, sent>>
    BY <1>4 DEF SendPrepared
  <2> QED
    BY <1>1, <1>2, <2>1, CallerTypesSuffice DEF CallerTypes, SessionTypes
<1>5. CASE ReceiptsComplete
  <2>1. UNCHANGED <<flying, sent>>
    BY <1>5 DEF ReceiptsComplete
  <2>2. st' \in SharedState
    BY <1>5, FieldEdits DEF ReceiptsComplete, SessionTypes
  <2> QED
    BY <1>1, <1>2, <2>1, <2>2, CallerTypesSuffice DEF CallerTypes, SessionTypes
<1> QED BY <1>3, <1>4, <1>5

LEMMA ClosingKeepsTypes ==
  ASSUME SessionTypes, CleanKeyboard \/ CheckSealed \/ StopPump \/ PumpStopped
  PROVE  SessionTypes'
<1>1. Caller /\ UNCHANGED <<barrier, sequence, sent>>
  BY DEF NoPacket, CleanKeyboard, CheckSealed, StopPump, PumpStopped
<1>2. at' \in Places
  BY DEF SessionTypes, Places, SharedPlaces, ObservedPlaces, SenderPlaces,
         CleanKeyboard, CheckSealed, StopPump, PumpStopped
<1>3. flying' \in Seq(Receipt)
  <2>1. Nothing \in Receipt /\ flying \in Seq(Receipt)
    BY DEF SessionTypes, Nothing, Receipt
  <2>2. Append(flying, Nothing) \in Seq(Receipt)
    BY <2>1, QueueEdits
  <2> QED
    BY <2>1, <2>2 DEF NoPacket, CleanKeyboard, CheckSealed, StopPump, PumpStopped
<1>4. cleanup' \in [success : BOOLEAN, conclusive : BOOLEAN]
  <2>1. cleanup \in [success : BOOLEAN, conclusive : BOOLEAN]
    BY DEF SessionTypes
  <2>2. CASE CleanKeyboard
    BY <2>2 DEF CleanKeyboard
  <2>3. CASE CheckSealed
    BY <2>1, <2>3 DEF CheckSealed
  <2>4. CASE StopPump
    BY <2>1, <2>4 DEF StopPump
  <2>5. CASE PumpStopped
    BY <2>1, <2>5 DEF PumpStopped
  <2> QED BY <2>2, <2>3, <2>4, <2>5
<1>5. st' \in SharedState
  BY FieldEdits DEF SessionTypes, NoPacket, CleanKeyboard, CheckSealed, StopPump, PumpStopped
<1>6. posted' \in Seq(Messages)
  BY PostTypes DEF Post, SessionTypes, CleanKeyboard, CheckSealed, StopPump, PumpStopped
<1> QED
  BY <1>1, <1>2, <1>3, <1>4, <1>5, <1>6, CallerTypesSuffice DEF CallerTypes, SessionTypes

LEMMA SystemKeepsTypes ==
  ASSUME SessionTypes, Deliver \/ Stray \/ UserCloses
  PROVE  SessionTypes'
<1>1. CASE Deliver
  <2>1. Head(flying) \in Receipt /\ flying' \in Seq(Receipt)
    BY <1>1, QueueEdits DEF Deliver, SessionTypes
  <2>2. input' \in Seq(Receipt)
    <3>1. input \in Seq(Receipt) /\ Append(input, Head(flying)) \in Seq(Receipt)
      BY <2>1, QueueEdits DEF SessionTypes
    <3> QED BY <1>1, <3>1 DEF Deliver
  <2>3. UNCHANGED <<raw, st, posted, callerVars, registered, pump>>
    BY <1>1 DEF Deliver
  <2> QED BY <2>1, <2>2, <2>3 DEF SessionTypes, callerVars, Messages, PumpPlaces
<1>2. CASE Stray
  <2>1. {Nothing} \cup sent \subseteq Receipt
    <3>1. Nothing \in Receipt
      BY DEF Receipt, Nothing
    <3>2. [tag : Nat, key : KeySet] \subseteq Receipt
      BY DEF Receipt
    <3> QED BY <3>1, <3>2 DEF SessionTypes
  <2>2. flying' \in Seq(Receipt)
    BY <1>2, <2>1, QueueEdits DEF Stray, SessionTypes
  <2>3. UNCHANGED <<raw, st, posted, callerVars, pumpVars>>
    BY <1>2 DEF Stray
  <2> QED BY <2>2, <2>3 DEF SessionTypes, callerVars, pumpVars, Messages, PumpPlaces
<1>3. CASE UserCloses
  <2>1. [kind |-> "close"] \in Messages
    BY DEF Messages
  <2>2. posted' \in Seq(Messages)
    BY <1>3, <2>1, QueueEdits DEF UserCloses, Post, SessionTypes
  <2>3. UNCHANGED <<raw, st, flying, callerVars, pumpVars>>
    BY <1>3 DEF UserCloses
  <2> QED BY <2>2, <2>3 DEF SessionTypes, callerVars, pumpVars, Messages, PumpPlaces
<1> QED BY <1>1, <1>2, <1>3

-----------------------------------------------------------------------------
(* What nearly every step leaves of the receipts: the same ones, unless    *)
(* the boundary is lost.                                                   *)
Keeps(s, t) ==
  /\ t.pending = s.pending
  /\ \/ t.active = s.active /\ t.lost = s.lost
     \/ t.active = NoSequence /\ t.lost = TRUE
  /\ s.failure => t.failure
  /\ s.restoreFailed => t.restoreFailed

LEMMA EditsKeep ==
  ASSUME NEW s \in SharedState
  PROVE  /\ Keeps(s, s)
         /\ Keeps(s, LoseBoundary(s)) /\ Keeps(s, SealFails(s))
         /\ Keeps(s, IntegrityFailure(s))
         /\ Keeps(s, [s EXCEPT !.exit = TRUE])
         /\ Keeps(s, [s EXCEPT !.closed = TRUE, !.exit = TRUE])
         /\ Keeps(s, [s EXCEPT !.pumpFailed = TRUE])
         /\ Keeps(s, [s EXCEPT !.unfocused = TRUE])
         /\ Keeps(s, [s EXCEPT !.restoreFailed = TRUE])
         /\ Keeps(s, [s EXCEPT !.life = "Sealing"])
         /\ Keeps(s, [s EXCEPT !.life = "Sealed"])
         /\ \A n \in Nat : Keeps(s, [s EXCEPT !.barrier = n])
  BY DEF SharedState, Keeps, LoseBoundary, SealFails, IntegrityFailure

LEMMA KeepingTwice ==
  ASSUME NEW s, NEW t, NEW u, Keeps(s, t), Keeps(t, u)
  PROVE  Keeps(s, u)
  BY DEF Keeps

LEMMA Edited ==
  ASSUME NEW s \in SharedState
  PROVE  /\ LoseBoundary(s).lost /\ SealFails(s).lost /\ IntegrityFailure(s).lost
         /\ IntegrityFailure(s).failure /\ SealFails(s).life = "Failed"
  BY DEF SharedState, LoseBoundary, SealFails, IntegrityFailure

(* Only the seal changes the life of the observer.                         *)
SameLife(s, t) == t.life = s.life

LEMMA EditsKeepLife ==
  ASSUME NEW s \in SharedState
  PROVE  /\ SameLife(s, s)
         /\ SameLife(s, LoseBoundary(s)) /\ SameLife(s, IntegrityFailure(s))
         /\ SameLife(s, [s EXCEPT !.exit = TRUE])
         /\ SameLife(s, [s EXCEPT !.closed = TRUE, !.exit = TRUE])
         /\ SameLife(s, [s EXCEPT !.pumpFailed = TRUE])
         /\ SameLife(s, [s EXCEPT !.unfocused = TRUE])
         /\ SameLife(s, [s EXCEPT !.restoreFailed = TRUE])
         /\ \A n \in Nat : SameLife(s, [s EXCEPT !.barrier = n])
  BY DEF SharedState, SameLife, LoseBoundary, IntegrityFailure

LEMMA SameLifeTwice ==
  ASSUME NEW s, NEW t, NEW u, SameLife(s, t), SameLife(t, u)
  PROVE  SameLife(s, u)
  BY DEF SameLife

LEMMA DrainKeeps ==
  ASSUME SessionTypes
  PROVE  /\ Keeps(st, Drained) /\ SameLife(st, Drained)
         /\ DrainQueue => input' = <<>> \/ input' = input
         /\ DrainQueue /\ ~Drained.lost => input' = input
<1> st \in SharedState
  BY DEF SessionTypes
<1>1. Keeps(st, Drained) /\ SameLife(st, Drained)
  BY EditsKeep, EditsKeepLife DEF Drained
<1>2. DrainQueue /\ ~Drained.lost => input' = input
  BY Edited DEF Drained, DrainQueue
<1>3. DrainQueue => input' = <<>> \/ input' = input
  BY DEF DrainQueue
<1> QED BY <1>1, <1>2, <1>3

(* PumpMatch apart, the pump keeps the receipts.                           *)
LEMMA PumpKeeps ==
  ASSUME SessionTypes, Pump \/ PumpBreaks, ~PumpMatch
  PROVE  Keeps(st, st')
<1> st \in SharedState
  BY DEF SessionTypes
<1>1. CASE PumpBarrier
  <2>1. PICK n \in Nat : st' = [st EXCEPT !.barrier = n] \/ st' = Drained
    <3>1. Next1.generation \in Nat /\ st.barrier \in Nat
      BY <1>1, TakingTypes DEF PumpBarrier, Messages, SharedState
    <3> QED BY <1>1, <3>1 DEF PumpBarrier
  <2> QED BY <2>1, EditsKeep, DrainKeeps
<1>2. CASE PumpClose
  <2>1. [st EXCEPT !.closed = TRUE, !.exit = TRUE] \in SharedState
    BY FieldEdits
  <2> QED BY <1>2, <2>1, EditsKeep, KeepingTwice DEF PumpClose
<1>3. CASE PumpExit \/ PumpSeal
  BY <1>3, EditsKeep DEF PumpExit, PumpSeal
<1>4. CASE SealDrainFirst \/ SealDrainLast
  BY <1>4, DrainKeeps DEF SealDrainFirst, SealDrainLast, SealDrain
<1>5. CASE SealRestore
  <2>1. [st EXCEPT !.restoreFailed = TRUE] \in SharedState
    BY FieldEdits
  <2>2. Keeps(st, SealFails([st EXCEPT !.restoreFailed = TRUE]))
    BY <2>1, EditsKeep, KeepingTwice
  <2> QED BY <1>5, <2>2, EditsKeep DEF SealRestore
<1>6. CASE SealDecide
  <2>1. PICK s \in SharedState : Keeps(st, s) /\ st' = [s EXCEPT !.exit = TRUE]
    <3>1. [st EXCEPT !.life = "Sealed"] \in SharedState
      BY DEF SharedState
    <3>2. SealFails(st) \in SharedState
      BY Edits
    <3> QED BY <1>6, <3>1, <3>2, EditsKeep DEF SealDecide
  <2> QED BY <2>1, EditsKeep, KeepingTwice
<1>7. CASE PumpInput
  BY <1>7, EditsKeep DEF PumpInput
<1>8. CASE PumpLeaves
  BY <1>8, EditsKeep DEF PumpLeaves
<1>9. CASE PumpRestores
  BY <1>9, EditsKeep DEF PumpRestores
<1>10. CASE PumpBreaks
  <2>1. [st EXCEPT !.pumpFailed = TRUE] \in SharedState
    BY FieldEdits
  <2> QED BY <1>10, <2>1, EditsKeep, KeepingTwice DEF PumpBreaks
<1> QED BY <1>1, <1>2, <1>3, <1>4, <1>5, <1>6, <1>7, <1>8, <1>9, <1>10 DEF Pump

-----------------------------------------------------------------------------
(* The receipts.                                                           *)
LEMMA ReceiptsStay ==
  ASSUME ReceiptsInv, Keeps(st, st'), UNCHANGED <<samples, sequence>>, Armed' => Armed
  PROVE  ReceiptsInv'
<1>1. SamplesAreTheirPackets'
  BY DEF ReceiptsInv, SamplesAreTheirPackets
<1>2. (\A sample \in samples : sample.tag \in Nat /\ sample.tag < sequence)'
  BY DEF ReceiptsInv
<1>3. st'.active # NoSequence =>
        /\ \A receipt \in st'.pending : receipt.tag = st'.active /\ receipt.key \in KeySet
        /\ \A sample \in samples' : sample.tag < st'.active
  BY DEF ReceiptsInv, Keeps
<1>4. Armed' => sequence' > 1 /\ (st'.lost \/ st'.active = sequence' - 1)
  BY DEF ReceiptsInv, Keeps
<1> QED BY <1>1, <1>2, <1>3, <1>4 DEF ReceiptsInv

LEMMA CallerKeeps ==
  ASSUME SessionTypes,
         \/ Foreground \/ Finishes \/ PostBarrier \/ AwaitBarrier \/ Precise
         \/ SendTagged \/ SendPrepared \/ Expired \/ CheckBoundary \/ PostSeal
         \/ AwaitSeal \/ SealTimesOut \/ Join \/ CleanKeyboard \/ CheckSealed
         \/ StopPump \/ PumpStopped
  PROVE  Keeps(st, st')
<1> st \in SharedState
  BY DEF SessionTypes
<1>1. CASE SealTimesOut
  <2>1. [st EXCEPT !.exit = TRUE] \in SharedState
    BY FieldEdits
  <2>2. Keeps(st, SealFails([st EXCEPT !.exit = TRUE]))
    BY <2>1, EditsKeep, KeepingTwice
  <2> QED BY <1>1, <2>2 DEF SealTimesOut
<1>2. CASE Foreground \/ Expired \/ SendTagged \/ StopPump
  BY <1>2, EditsKeep DEF Foreground, Expired, SendTagged, StopPump
<1>3. CASE PumpStopped
  BY <1>3, EditsKeep DEF PumpStopped
<1>4. CASE UNCHANGED st
  BY <1>4, EditsKeep
<1> QED
  BY <1>1, <1>2, <1>3, <1>4
  DEF Finishes, PostBarrier, AwaitBarrier, Precise, SendPrepared, CheckBoundary,
      PostSeal, AwaitSeal, Join, CleanKeyboard, CheckSealed

LEMMA Matching ==
  ASSUME NEW s \in SharedState, NEW i
  PROVE  \/ /\ Keeps(s, Matched(s, i)) /\ Matched(s, i).lost
         \/ /\ s.active # NoSequence /\ i.tag = s.active /\ i.key \in KeySet
            /\ i \notin s.pending
            /\ Matched(s, i) = [s EXCEPT !.pending = @ \cup {i}]
<1>1. LoseBoundary(s).lost /\ Keeps(s, LoseBoundary(s))
  BY EditsKeep, Edited
<1>2. CASE s.active = NoSequence \/ i.tag # s.active \/ Incompatible(s, i)
  BY <1>1, <1>2 DEF Matched
<1>3. CASE ~(s.active = NoSequence \/ i.tag # s.active \/ Incompatible(s, i))
  BY <1>3 DEF Matched, Incompatible
<1> QED BY <1>2, <1>3

LEMMA PumpKeepsReceipts ==
  ASSUME SessionTypes, ReceiptsInv, Pump \/ PumpBreaks
  PROVE  ReceiptsInv'
<1>1. UNCHANGED <<raw, callerVars>>
  BY DEF Pump, PumpBarrier, PumpClose, PumpExit, PumpSeal, TakesMessage, PumpStep,
         SealDrainFirst, SealDrainLast, SealDrain, SealRestore, SealDecide,
         PumpInput, PumpMatch, PumpLeaves, PumpRestores, PumpBreaks
<1>2. UNCHANGED <<samples, sequence>> /\ (Armed' => Armed)
  BY <1>1 DEF callerVars, Armed
<1>3. CASE Keeps(st, st')
  BY <1>2, <1>3, ReceiptsStay
<1>4. CASE PumpMatch /\ ~Keeps(st, st')
  <2> st \in SharedState
    BY DEF SessionTypes
  <2>1. /\ st.active # NoSequence /\ pump.holds.tag = st.active
        /\ pump.holds.key \in KeySet
        /\ st' = [st EXCEPT !.pending = @ \cup {pump.holds}]
    BY <1>4, Matching DEF PumpMatch
  <2>2. /\ st'.active = st.active /\ st'.lost = st.lost
        /\ st'.pending = st.pending \cup {pump.holds}
    BY <2>1 DEF SharedState
  <2>3. SamplesAreTheirPackets'
    BY <1>2 DEF ReceiptsInv, SamplesAreTheirPackets
  <2>4. \A receipt \in st'.pending : receipt.tag = st'.active /\ receipt.key \in KeySet
    BY <2>1, <2>2 DEF ReceiptsInv
  <2> QED BY <1>2, <2>1, <2>2, <2>3, <2>4 DEF ReceiptsInv
<1> QED BY <1>3, <1>4, PumpKeeps

LEMMA AcceptedGrows ==
  ASSUME NEW packet, samples' = samples \cup {[tag |-> packet, receipts |-> st.pending]}
  PROVE  Accepted' = Accepted \cup st.pending
<1> DEFINE receipts(S) == {sample.receipts : sample \in S}
<1> DEFINE new == [tag |-> packet, receipts |-> st.pending]
<1>1. receipts(samples') = receipts(samples) \cup {st.pending}
  <2>1. new.receipts = st.pending
    OBVIOUS
  <2> HIDE DEF new
  <2>2. samples' = samples \cup {new}
    BY DEF new
  <2> QED BY <2>1, <2>2
<1>2. UNION receipts(samples') = (UNION receipts(samples)) \cup st.pending
  BY <1>1
<1> QED BY <1>2 DEF Accepted

LEMMA Complete ==
  ASSUME SessionTypes, ReceiptsInv, ReceiptsComplete
  PROVE  /\ Packet = sequence - 1 /\ Packet \in Nat \ {0} /\ Packet < sequence
         /\ st.active = Packet
         /\ st.pending = [tag : {Packet}, key : KeySet]
<1>1. raw /\ Armed /\ ~st.lost
  BY DEF SessionTypes, ReceiptsComplete, SharedPlaces, SenderPlaces, Armed
<1>2. /\ Packet = sequence - 1 /\ sequence \in Nat /\ sequence > 1
      /\ st.active = sequence - 1
  BY <1>1 DEF ReceiptsInv, Packet, SessionTypes
<1>3. Packet \in Nat \ {0} /\ Packet < sequence /\ st.active = Packet
  BY <1>2
<1>4. \A receipt \in st.pending : receipt.tag = Packet /\ receipt.key \in KeySet
  BY <1>3 DEF ReceiptsInv, NoSequence
<1>5. st.pending \subseteq [tag : Nat, key : KeySet \cup {""}]
  BY DEF SessionTypes, SharedState, Receipt
<1>6. st.pending \subseteq [tag : {Packet}, key : KeySet]
  BY <1>4, <1>5
<1>7. [tag : {Packet}, key : KeySet] \subseteq st.pending
  BY DEF ReceiptsComplete, Received
<1> QED BY <1>2, <1>3, <1>6, <1>7

LEMMA CallerKeepsReceipts ==
  ASSUME SessionTypes, ReceiptsInv, CallerThread
  PROVE  ReceiptsInv'
<1> st \in SharedState /\ sequence \in Nat \ {0}
  BY DEF SessionTypes
<1>1. CASE /\ Keeps(st, st') /\ UNCHANGED samples /\ ~SendPrepared
           /\ ~Arm /\ ~ReceiptsFail /\ ~ReceiptsTimeOut /\ ~ReceiptsComplete
  <2>1. UNCHANGED sequence
    BY <1>1 DEF CallerThread, Foreground, Finishes, PostBarrier, AwaitBarrier, Precise,
       SendTagged, Expired, CheckBoundary, PostSeal, AwaitSeal, SealTimesOut, Join,
       CleanKeyboard, CheckSealed, StopPump, PumpStopped
  <2>2. Armed' => Armed
    BY <1>1 DEF Armed, Caller, Fails, CallerThread, Foreground, Finishes, PostBarrier,
       AwaitBarrier, Precise, SendTagged, Expired, CheckBoundary, PostSeal, AwaitSeal,
       SealTimesOut, Join, CleanKeyboard, CheckSealed, StopPump, PumpStopped
  <2> QED BY <1>1, <2>1, <2>2, ReceiptsStay
<1>2. CASE SendPrepared
  <2>1. UNCHANGED <<st, samples>> /\ ~Armed' /\ sequence' \in {sequence, sequence + 1}
    BY <1>2 DEF SendPrepared, Armed, Caller
  <2>2. SamplesAreTheirPackets'
    BY <2>1 DEF ReceiptsInv, SamplesAreTheirPackets
  <2> QED BY <2>1, <2>2 DEF ReceiptsInv
<1>3. CASE Arm
  <2>1. UNCHANGED samples
    BY <1>3 DEF Arm, NoPacket
  <2>2. CASE st' \in {st, LoseBoundary(st)} /\ Fails /\ UNCHANGED sequence
    BY <2>1, <2>2, EditsKeep, ReceiptsStay DEF Fails, Armed
  <2>3. CASE /\ st' = [st EXCEPT !.active = sequence, !.pending = {}]
             /\ sequence' = sequence + 1
    <3>1. st'.active = sequence /\ st'.pending = {}
      BY <2>3 DEF SharedState
    <3>2. SamplesAreTheirPackets'
      BY <2>1 DEF ReceiptsInv, SamplesAreTheirPackets
    <3> QED BY <2>1, <2>3, <3>1, <3>2 DEF ReceiptsInv
  <2> QED BY <1>3, <2>2, <2>3 DEF Arm
<1>4. CASE ReceiptsFail \/ ReceiptsTimeOut
  <2>1. UNCHANGED <<samples, sequence>> /\ ~Armed'
    BY <1>4 DEF ReceiptsFail, ReceiptsTimeOut, NoPacket, Fails, Armed
  <2>2. st'.active = NoSequence
    BY <1>4 DEF ReceiptsFail, ReceiptsTimeOut, SharedState
  <2>3. SamplesAreTheirPackets'
    BY <2>1 DEF ReceiptsInv, SamplesAreTheirPackets
  <2> QED BY <2>1, <2>2, <2>3 DEF ReceiptsInv
<1>5. CASE ReceiptsComplete
  <2>1. /\ UNCHANGED sequence /\ ~Armed'
        /\ samples' = samples \cup {[tag |-> Packet, receipts |-> st.pending]}
    BY <1>5 DEF ReceiptsComplete, Armed
  <2>2. st'.active = NoSequence
    BY <1>5 DEF ReceiptsComplete, SharedState
  <2>3. SamplesAreTheirPackets'
    <3> DEFINE new == [tag |-> Packet, receipts |-> st.pending]
    <3>1. new.receipts = [tag : {new.tag}, key : KeySet]
      BY <1>5, Complete
    <3>2. \A sample \in samples : sample.receipts = [tag : {sample.tag}, key : KeySet]
      BY DEF ReceiptsInv, SamplesAreTheirPackets
    <3> QED BY <2>1, <3>1, <3>2 DEF SamplesAreTheirPackets
  <2>4. \A sample \in samples' : sample.tag \in Nat /\ sample.tag < sequence'
    BY <1>5, <2>1, Complete DEF ReceiptsInv
  <2> QED BY <2>1, <2>2, <2>3, <2>4 DEF ReceiptsInv
<1>6. UNCHANGED samples \/ ReceiptsComplete
  BY DEF NoPacket, CallerThread, Foreground, Finishes, PostBarrier, AwaitBarrier, Arm,
     Precise, SendTagged, SendPrepared, ReceiptsFail, ReceiptsTimeOut, Expired,
     CheckBoundary, PostSeal, AwaitSeal, SealTimesOut, Join, CleanKeyboard, CheckSealed,
     StopPump, PumpStopped
<1> QED BY <1>1, <1>2, <1>3, <1>4, <1>5, <1>6, CallerKeeps DEF CallerThread

LEMMA SystemKeepsReceipts ==
  ASSUME SessionTypes, ReceiptsInv, Deliver \/ Stray \/ UserCloses
  PROVE  ReceiptsInv'
<1>1. UNCHANGED <<raw, st, callerVars>>
  BY DEF Deliver, Stray, UserCloses
<1>2. UNCHANGED <<samples, sequence>> /\ (Armed' => Armed)
  BY <1>1 DEF callerVars, Armed
<1> QED BY <1>1, <1>2, EditsKeep, ReceiptsStay DEF SessionTypes

-----------------------------------------------------------------------------
(* The seal.                                                               *)
LEMMA SealStays ==
  ASSUME SealInv, UNCHANGED <<registered, pump>>, st'.life \in {st.life, "Failed"},
         st.restoreFailed => st'.restoreFailed,
         input = <<>> => input' = <<>> \/ registered
  PROVE  SealInv'
  BY DEF SealInv

LEMMA TakingKeepsSeal ==
  ASSUME SessionTypes, SealInv, PumpBarrier \/ PumpClose \/ PumpExit
  PROVE  SealInv'
<1> st \in SharedState
  BY DEF SessionTypes
<1>1. UNCHANGED <<registered, pump>>
  BY DEF PumpBarrier, PumpClose, PumpExit
<1>2. Keeps(st, st')
  BY PumpKeeps DEF Pump, PumpBarrier, PumpClose, PumpExit, PumpMatch, TakesMessage
<1>3. SameLife(st, st')
  <2>1. CASE PumpBarrier
    <3>1. PICK n \in Nat : st' = [st EXCEPT !.barrier = n] \/ st' = Drained
      <4>1. Next1.generation \in Nat /\ st.barrier \in Nat
        BY <2>1, TakingTypes DEF PumpBarrier, Messages, SharedState
      <4> QED BY <2>1, <4>1 DEF PumpBarrier
    <3> QED BY <3>1, EditsKeepLife, DrainKeeps
  <2>2. CASE PumpClose
    <3>1. [st EXCEPT !.closed = TRUE, !.exit = TRUE] \in SharedState
      BY FieldEdits
    <3> QED BY <2>2, <3>1, EditsKeepLife, SameLifeTwice DEF PumpClose
  <2>3. CASE PumpExit
    BY <2>3, EditsKeepLife DEF PumpExit
  <2> QED BY <2>1, <2>2, <2>3
<1>4. input' = <<>> \/ input' = input
  BY DrainKeeps DEF PumpBarrier, PumpClose, PumpExit
<1> QED BY <1>1, <1>2, <1>3, <1>4, SealStays DEF Keeps, SameLife

LEMMA PumpKeepsSeal ==
  ASSUME SessionTypes, SealInv, Pump \/ PumpBreaks
  PROVE  SealInv'
<1> st \in SharedState
  BY DEF SessionTypes
<1> DEFINE Goes(to) == pump'.at = to
<1>0. pump \in [at : PumpPlaces, holds : Receipt]
  BY DEF SessionTypes
<1>1. CASE PumpSeal
  <2>1. UNCHANGED <<input, registered>>
    BY <1>1 DEF PumpSeal
  <2>2. \/ Goes("drain") /\ st'.life = "Sealing"
        \/ Goes("refuse") /\ st'.life = "Failed"
    <3>1. [st EXCEPT !.life = "Sealing"].life = "Sealing"
      BY DEF SharedState
    <3> QED BY <1>0, <1>1, <3>1, Edited DEF PumpSeal
  <2> QED BY <2>1, <2>2 DEF SealInv
<1>2. CASE SealDrainFirst \/ SealDrainLast
  <2>1. /\ UNCHANGED registered /\ SameLife(st, st') /\ DrainQueue
        /\ pump.at \in {"drain", "redrain"} 
    BY <1>2, DrainKeeps DEF SealDrainFirst, SealDrainLast, SealDrain
  <2>2. \/ Goes("refuse")
        \/ Goes("restore") /\ pump.at = "drain"
        \/ Goes("decide") /\ pump.at = "redrain" /\ input = <<>>
    BY <1>0, <1>2 DEF SealDrainFirst, SealDrainLast, SealDrain, DrainIsClean
  <2>3. input' = <<>> \/ input' = input
    BY <2>1, DrainKeeps
  <2> QED BY <2>1, <2>2, <2>3 DEF SealInv, InSeal, SameLife
<1>3. CASE SealRestore
  <2>1. UNCHANGED input /\ pump.at = "restore"
    BY <1>3 DEF SealRestore
  <2>2. \/ Goes("redrain") /\ registered' = FALSE /\ UNCHANGED st
        \/ Goes("refuse") /\ st'.life = "Failed"
    <3>1. [st EXCEPT !.restoreFailed = TRUE] \in SharedState
      BY FieldEdits
    <3> QED BY <1>0, <1>3, <3>1, Edited DEF SealRestore
  <2> QED BY <2>1, <2>2 DEF SealInv, InSeal
<1>4. CASE SealDecide
  <2>1. UNCHANGED <<input, registered>> /\ Goes("loop") /\ pump.at \in {"decide", "refuse"}
    BY <1>0, <1>4 DEF SealDecide
  <2>2. \/ st'.life = "Failed"
        \/ st'.life = "Sealed" /\ pump.at = "decide"
    <3>1. [st EXCEPT !.life = "Sealed"] \in SharedState
      BY DEF SharedState
    <3>2. SealFails(st) \in SharedState
      BY Edits
    <3>3. CASE st' = [SealFails(st) EXCEPT !.exit = TRUE]
      <4>1. SameLife(SealFails(st), st')
        BY <3>2, <3>3, EditsKeepLife
      <4>2. SealFails(st).life = "Failed"
        BY Edited
      <4> QED BY <4>1, <4>2 DEF SameLife
    <3>4. CASE /\ pump.at = "decide"
               /\ st' = [[st EXCEPT !.life = "Sealed"] EXCEPT !.exit = TRUE]
      <4>1. SameLife([st EXCEPT !.life = "Sealed"], st')
        BY <3>1, <3>4, EditsKeepLife
      <4>2. [st EXCEPT !.life = "Sealed"].life = "Sealed"
        BY DEF SharedState
      <4> QED BY <3>4, <4>1, <4>2 DEF SameLife
    <3> QED BY <1>4, <3>3, <3>4 DEF SealDecide
  <2> QED BY <2>1, <2>2 DEF SealInv, InSeal
<1>5. CASE PumpInput
  <2>1. /\ UNCHANGED registered /\ pump.at = "loop" /\ input # <<>>
        /\ SameLife(st, st')
    BY <1>5, EditsKeepLife DEF PumpInput
  <2>2. Goes("loop") \/ Goes("match")
    BY <1>5 DEF PumpInput
  <2> QED BY <2>1, <2>2 DEF SealInv, InSeal, SameLife
<1>6. CASE PumpMatch
  <2>1. UNCHANGED <<registered, input>> /\ pump.at = "match" /\ Goes("loop")
    BY <1>6 DEF PumpMatch
  <2>2. st'.life = st.life
    BY <1>6 DEF PumpMatch, Matched, LoseBoundary, SharedState
  <2> QED BY <2>1, <2>2 DEF SealInv, InSeal
<1>7. CASE PumpLeaves
  <2>1. UNCHANGED <<st, registered, input>> /\ pump.at = "loop" /\ Goes("leaving")
    BY <1>0, <1>7 DEF PumpLeaves
  <2> QED BY <2>1 DEF SealInv, InSeal
<1>8. CASE PumpBreaks
  <2>1. UNCHANGED <<registered, input>> /\ pump.at = "loop" /\ Goes("leaving")
    BY <1>0, <1>8 DEF PumpBreaks
  <2>2. SameLife(st, st')
    <3>1. [st EXCEPT !.pumpFailed = TRUE] \in SharedState
      BY FieldEdits
    <3> QED BY <1>8, <3>1, EditsKeepLife, SameLifeTwice DEF PumpBreaks
  <2> QED BY <2>1, <2>2 DEF SealInv, InSeal, SameLife
<1>9. CASE PumpRestores
  <2>1. UNCHANGED input /\ pump.at = "leaving" /\ Goes("gone") /\ SameLife(st, st')
    BY <1>0, <1>9, EditsKeepLife DEF PumpRestores
  <2>2. \/ UNCHANGED registered /\ (~registered \/ st.life = "Sealed")
        \/ st.life # "Sealed" /\ (registered' = FALSE \/ st'.restoreFailed)
    <3>1. [st EXCEPT !.restoreFailed = TRUE].restoreFailed
      BY DEF SharedState
    <3> QED BY <1>9, <3>1 DEF PumpRestores, SessionTypes
  <2> QED BY <2>1, <2>2 DEF SealInv, InSeal, SameLife
<1> QED
  BY <1>1, <1>2, <1>3, <1>4, <1>5, <1>6, <1>7, <1>8, <1>9, TakingKeepsSeal DEF Pump

LEMMA CallerKeepsSeal ==
  ASSUME SessionTypes, SealInv, CallerThread
  PROVE  SealInv'
<1> st \in SharedState
  BY DEF SessionTypes
<1>1. UNCHANGED <<registered, pump, input>>
  BY DEF CallerThread, Caller, pumpVars, Foreground, Finishes, PostBarrier, AwaitBarrier,
     Arm, Precise, SendTagged, SendPrepared, ReceiptsFail, ReceiptsComplete, ReceiptsTimeOut,
     Expired, CheckBoundary, PostSeal, AwaitSeal, SealTimesOut, Join, CleanKeyboard,
     CheckSealed, StopPump, PumpStopped
<1>2. st.restoreFailed => st'.restoreFailed
  <2>1. CASE Arm \/ ReceiptsFail \/ ReceiptsComplete \/ ReceiptsTimeOut
    BY <2>1 DEF Arm, ReceiptsFail, ReceiptsComplete, ReceiptsTimeOut, LoseBoundary,
       SharedState
  <2> QED BY <2>1, CallerKeeps DEF Keeps, CallerThread
<1>3. st'.life \in {st.life, "Failed"}
  <2>1. CASE Arm \/ ReceiptsFail \/ ReceiptsComplete \/ ReceiptsTimeOut
    BY <2>1 DEF Arm, ReceiptsFail, ReceiptsComplete, ReceiptsTimeOut, LoseBoundary,
       SharedState
  <2>2. CASE SealTimesOut
    <3>1. [st EXCEPT !.exit = TRUE] \in SharedState
      BY FieldEdits
    <3> QED BY <2>2, <3>1, Edited DEF SealTimesOut
  <2>3. CASE Foreground \/ Expired \/ SendTagged \/ StopPump \/ PumpStopped
    BY <2>3, EditsKeepLife
       DEF Foreground, Expired, SendTagged, StopPump, PumpStopped, SameLife
  <2> QED
    BY <2>1, <2>2, <2>3
    DEF CallerThread, Finishes, PostBarrier, AwaitBarrier, Precise, SendPrepared,
        CheckBoundary, PostSeal, AwaitSeal, Join, CleanKeyboard, CheckSealed
<1> QED BY <1>1, <1>2, <1>3, SealStays

LEMMA SystemKeepsSeal ==
  ASSUME SessionTypes, SealInv, Deliver \/ Stray \/ UserCloses
  PROVE  SealInv'
<1>1. UNCHANGED <<registered, pump, st>> /\ (input' = input \/ registered)
  BY DEF Deliver, Stray, UserCloses, pumpVars
<1> QED BY <1>1, SealStays

-----------------------------------------------------------------------------
(* The inputs of others.                                                   *)
Sound == ~st.lost /\ ~st.failure /\ at # "expired"

Seen(i) == \/ i \in Judged
           \/ \E j \in 1..Len(input) : input[j] = i
           \/ InHand /\ pump.holds = i

LEMMA AlienInvIs ==
  AlienInv <=> (Sound => (\A i \in queued : Seen(i)) /\ (alien => AlienIsAhead))
  BY DEF AlienInv, Sound, Seen

(* Nothing reaches or leaves the pump, and nothing is judged.              *)
LEMMA AlienStays ==
  ASSUME AlienInv, Sound' => Sound /\ Judged' = Judged, UNCHANGED <<queued, alien, input>>,
         InHand' <=> InHand, InHand => pump'.holds = pump.holds
  PROVE  AlienInv'
<1> SUFFICES ASSUME Sound' PROVE (\A i \in queued' : Seen(i)') /\ (alien' => AlienIsAhead')
  BY DEF AlienInv, Sound, Seen
<1>1. (\A i \in queued : Seen(i)) /\ (alien => AlienIsAhead)
  BY AlienInvIs
<1>2. \A i : Seen(i)' <=> Seen(i)
  BY DEF Seen
<1>3. AlienIsAhead' <=> AlienIsAhead
  BY DEF AlienIsAhead
<1> QED BY <1>1, <1>2, <1>3

LEMMA KeepingIsSound ==
  ASSUME st \in SharedState, Keeps(st, st'), UNCHANGED samples, at' # "expired" => at # "expired"
  PROVE  Sound' => Sound /\ Judged' = Judged
  BY DEF SharedState, Keeps, Sound, Judged, Accepted

LEMMA TailIs ==
  ASSUME NEW q \in Seq(Receipt), q # <<>>
  PROVE  /\ Len(q) \in Nat \ {0} /\ Head(q) = q[1] /\ Len(Tail(q)) = Len(q) - 1
         /\ \A i \in 1..Len(Tail(q)) : i + 1 \in 1..Len(q) /\ Tail(q)[i] = q[i + 1]
         /\ \A i \in 1..Len(q) : i # 1 => i - 1 \in 1..Len(Tail(q)) /\ Tail(q)[i - 1] = q[i]
  OBVIOUS

(* The pump takes an input out of its queue to match it.                   *)
LEMMA HoldingIsAhead ==
  ASSUME SessionTypes, AlienInv, PumpInput, st' = st,
         pump' = [at |-> "match", holds |-> Head(input)],
         Head(input).tag # 0
  PROVE  AlienInv'
<1> SUFFICES ASSUME Sound' PROVE (\A i \in queued' : Seen(i)') /\ (alien' => AlienIsAhead')
  BY DEF AlienInv, Sound, Seen
<1>1. /\ UNCHANGED <<queued, alien, samples, at>> /\ ~InHand
      /\ input \in Seq(Receipt) /\ input # <<>> /\ input' = Tail(input)
  BY DEF PumpInput, PumpStep, callerVars, InHand, SessionTypes
<1>2. Sound /\ Judged' = Judged
  BY <1>1 DEF Sound, Judged, Accepted
<1>3. (\A i \in queued : Seen(i)) /\ (alien => AlienIsAhead)
  BY <1>2, AlienInvIs
<1>4. /\ InHand' /\ pump'.holds = input[1]
      /\ Len(input') = Len(input) - 1 /\ Len(input) \in Nat \ {0}
      /\ \A i \in 1..Len(input) : i # 1 => i - 1 \in 1..Len(input') /\ input'[i - 1] = input[i]
  BY <1>1, TailIs DEF InHand
<1>5. ASSUME NEW i \in queued PROVE Seen(i)'
  BY <1>1, <1>2, <1>3, <1>4 DEF Seen
<1>6. ASSUME alien PROVE AlienIsAhead'
  <2>1. CASE \E i \in 1..Len(input) : input[i].tag = 0 \/ input[i] \in Judged
    <3>1. PICK i \in 1..Len(input) : input[i].tag = 0 \/ input[i] \in Judged
      BY <2>1
    <3>2. CASE i = 1
      BY <1>1, <1>2, <1>4, <3>1, <3>2, TailIs DEF AlienIsAhead
    <3>3. CASE i # 1
      BY <1>2, <1>4, <3>1, <3>3 DEF AlienIsAhead
    <3> QED BY <3>2, <3>3
  <2>2. CASE \E i, j \in 1..Len(input) : i < j /\ input[i] = input[j]
    <3>1. PICK i \in 1..Len(input), j \in 1..Len(input) : i < j /\ input[i] = input[j]
      BY <2>2
    <3>2. j # 1 /\ j - 1 \in 1..Len(input') /\ input'[j - 1] = input[j]
      BY <1>4, <3>1
    <3>3. CASE i = 1
      BY <1>4, <3>1, <3>2, <3>3 DEF AlienIsAhead
    <3>4. CASE i # 1
      <4>1. i - 1 \in 1..Len(input') /\ input'[i - 1] = input[i] /\ i - 1 < j - 1
        BY <1>4, <3>1, <3>4
      <4> QED BY <3>1, <3>2, <4>1 DEF AlienIsAhead
    <3> QED BY <3>3, <3>4
  <2> QED BY <1>1, <1>3, <1>6, <2>1, <2>2 DEF AlienIsAhead
<1> QED BY <1>1, <1>5, <1>6

(* It matches it: a receipt more is pending.                               *)
LEMMA MatchingIsSound ==
  ASSUME SessionTypes, ReceiptsInv, AlienInv, PumpMatch
  PROVE  AlienInv'
<1> SUFFICES ASSUME Sound' PROVE (\A i \in queued' : Seen(i)') /\ (alien' => AlienIsAhead')
  BY DEF AlienInv, Sound, Seen
<1> st \in SharedState /\ pump \in [at : PumpPlaces, holds : Receipt]
  BY DEF SessionTypes
<1>1. /\ UNCHANGED <<queued, alien, samples, at, input>> /\ InHand /\ ~InHand'
  BY DEF PumpMatch, PumpStep, callerVars, InHand
<1>2. /\ st.active # NoSequence /\ pump.holds.tag = st.active
      /\ pump.holds \notin st.pending
      /\ st' = [st EXCEPT !.pending = @ \cup {pump.holds}]
  BY Matching DEF PumpMatch, Sound
<1>3. Sound /\ Judged' = Judged \cup {pump.holds}
  BY <1>1, <1>2 DEF Sound, Judged, Accepted, SharedState
<1>4. (\A i \in queued : Seen(i)) /\ (alien => AlienIsAhead)
  BY <1>3, AlienInvIs
<1>5. pump.holds \notin Judged
  <2>1. ASSUME NEW sample \in samples, pump.holds \in sample.receipts PROVE FALSE
    <3>1. pump.holds \in [tag : {sample.tag}, key : KeySet]
      BY <2>1 DEF ReceiptsInv, SamplesAreTheirPackets
    <3>2. sample.tag \in Nat /\ sample.tag < st.active
      BY <1>2 DEF ReceiptsInv
    <3> QED BY <1>2, <3>1, <3>2 DEF SharedState
  <2> QED BY <1>2, <2>1 DEF Judged, Accepted
<1>6. ASSUME NEW i \in queued PROVE Seen(i)'
  BY <1>1, <1>3, <1>4 DEF Seen
<1>7. ASSUME alien PROVE AlienIsAhead'
  BY <1>1, <1>3, <1>4, <1>5, <1>7 DEF AlienIsAhead
<1> QED BY <1>1, <1>6, <1>7

LEMMA PumpKeepsAlien ==
  ASSUME SessionTypes, ReceiptsInv, AlienInv, Pump \/ PumpBreaks
  PROVE  AlienInv'
<1> st \in SharedState /\ pump \in [at : PumpPlaces, holds : Receipt]
  BY DEF SessionTypes
<1>1. UNCHANGED <<queued, alien, samples, at>>
  BY DEF Pump, PumpBarrier, PumpClose, PumpExit, PumpSeal, TakesMessage, PumpStep, callerVars,
         SealDrainFirst, SealDrainLast, SealDrain, SealRestore, SealDecide,
         PumpInput, PumpMatch, PumpLeaves, PumpRestores, PumpBreaks
<1>2. ASSUME ~PumpMatch, UNCHANGED input, ~InHand, ~InHand' PROVE AlienInv'
  <2>1. Sound' => Sound /\ Judged' = Judged
    BY <1>1, <1>2, PumpKeeps, KeepingIsSound
  <2> QED BY <1>1, <1>2, <2>1, AlienStays
<1>3. ASSUME ~PumpMatch, ~PumpInput PROVE ~InHand /\ ~InHand'
  BY <1>3 DEF Pump, PumpBarrier, PumpClose, PumpExit, PumpSeal, TakesMessage, PumpStep,
         SealDrainFirst, SealDrainLast, SealDrain, SealRestore, SealDecide,
         PumpLeaves, PumpRestores, PumpBreaks, InHand
<1>4. CASE PumpMatch
  BY <1>4, MatchingIsSound
<1>5. CASE PumpInput
  <2>1. CASE st'.lost
    BY <2>1 DEF AlienInv
  <2> QED BY <1>5, <2>1, HoldingIsAhead, Edited DEF PumpInput
<1>6. CASE PumpBarrier \/ SealDrainFirst \/ SealDrainLast
  <2>1. CASE st'.lost
    BY <2>1 DEF AlienInv
  <2>2. CASE ~st'.lost
    <3>1. DrainQueue
      BY <1>6 DEF PumpBarrier, SealDrainFirst, SealDrainLast, SealDrain
    <3>2. UNCHANGED input
      <4>1. CASE DrainIsClean
        BY <3>1, <4>1 DEF DrainQueue, DrainIsClean
      <4>2. CASE ~DrainIsClean
        BY <1>6, <2>2, <3>1, <4>2, DrainKeeps
           DEF PumpBarrier, SealDrainFirst, SealDrainLast, SealDrain
      <4> QED BY <4>1, <4>2
    <3>3. ~PumpMatch /\ ~PumpInput
      BY <1>6 DEF PumpBarrier, SealDrainFirst, SealDrainLast, SealDrain, PumpMatch, PumpInput,
         TakesMessage
    <3> QED BY <1>2, <1>3, <3>2, <3>3
  <2> QED BY <2>1, <2>2
<1>7. CASE PumpClose \/ PumpExit \/ PumpSeal \/ SealRestore \/ SealDecide \/ PumpLeaves
             \/ PumpRestores \/ PumpBreaks
  <2>1. UNCHANGED input
    BY <1>7 DEF PumpClose, PumpExit, PumpSeal, SealRestore, SealDecide, PumpLeaves,
       PumpRestores, PumpBreaks
  <2> QED BY <1>2, <1>3, <1>4, <1>5, <2>1
<1> QED BY <1>4, <1>5, <1>6, <1>7 DEF Pump

LEMMA CallerKeepsAlien ==
  ASSUME SessionTypes, ReceiptsInv, AlienInv, CallerThread
  PROVE  AlienInv'
<1> st \in SharedState
  BY DEF SessionTypes
<1>1. UNCHANGED <<queued, alien, pump, input>>
  BY DEF CallerThread, Caller, pumpVars, Foreground, Finishes, PostBarrier, AwaitBarrier,
     Arm, Precise, SendTagged, SendPrepared, ReceiptsFail, ReceiptsComplete, ReceiptsTimeOut,
     Expired, CheckBoundary, PostSeal, AwaitSeal, SealTimesOut, Join, CleanKeyboard,
     CheckSealed, StopPump, PumpStopped
<1>2. ASSUME Sound' => Sound /\ Judged' = Judged PROVE AlienInv'
  BY <1>1, <1>2, AlienStays DEF InHand
<1>3. CASE ReceiptsComplete
  <2>1. /\ samples' = samples \cup {[tag |-> Packet, receipts |-> st.pending]}
        /\ at # "expired"
        /\ st'.pending = {} /\ st'.lost = st.lost /\ st'.failure = st.failure
    BY <1>3 DEF ReceiptsComplete, SharedState
  <2>2. Accepted' = Accepted \cup st.pending
    BY <2>1, AcceptedGrows
  <2> QED BY <1>2, <2>1, <2>2 DEF Sound, Judged
<1>4. CASE ReceiptsTimeOut
  BY <1>2, <1>4 DEF ReceiptsTimeOut, Sound
<1>5. CASE ReceiptsFail
  <2>1. /\ UNCHANGED samples /\ at # "expired"
        /\ st'.pending = st.pending /\ st'.lost = st.lost /\ st'.failure = st.failure
    BY <1>5 DEF ReceiptsFail, NoPacket, SharedState
  <2> QED BY <1>2, <2>1 DEF Sound, Judged, Accepted
<1>6. CASE Arm
  <2>1. UNCHANGED samples /\ at # "expired"
    BY <1>6 DEF Arm, NoPacket
  <2>2. CASE st' \in {st, LoseBoundary(st)}
    BY <1>2, <2>1, <2>2, Edited DEF Sound, Judged, Accepted
  <2>3. CASE st' = [st EXCEPT !.active = sequence, !.pending = {}] /\ st.pending = {}
    <3>1. st'.pending = st.pending /\ st'.lost = st.lost /\ st'.failure = st.failure
      BY <2>3 DEF SharedState
    <3> QED BY <1>2, <2>1, <3>1 DEF Sound, Judged, Accepted
  <2> QED BY <1>6, <2>2, <2>3 DEF Arm
<1>7. CASE Expired
  <2>1. st'.lost
    BY <1>7, Edited DEF Expired
  <2> QED BY <1>2, <2>1 DEF Sound
<1>8. CASE \/ Foreground \/ Finishes \/ PostBarrier \/ AwaitBarrier \/ Precise
           \/ SendTagged \/ SendPrepared \/ CheckBoundary \/ PostSeal \/ AwaitSeal
           \/ SealTimesOut \/ Join \/ CleanKeyboard \/ CheckSealed \/ StopPump \/ PumpStopped
  <2>1. UNCHANGED samples /\ at # "expired"
    BY <1>8 DEF NoPacket, Foreground, Finishes, PostBarrier, AwaitBarrier, Precise, SendTagged,
       SendPrepared, CheckBoundary, PostSeal, AwaitSeal, SealTimesOut, Join, CleanKeyboard,
       CheckSealed, StopPump, PumpStopped
  <2> QED BY <1>2, <1>8, <2>1, CallerKeeps, KeepingIsSound
<1> QED BY <1>3, <1>4, <1>5, <1>6, <1>7, <1>8 DEF CallerThread

LEMMA AppendIs ==
  ASSUME NEW q \in Seq(Receipt), NEW x \in Receipt
  PROVE  /\ Len(Append(q, x)) = Len(q) + 1 /\ Len(q) \in Nat
         /\ Append(q, x)[Len(q) + 1] = x
         /\ \A i \in 1..Len(q) : Append(q, x)[i] = q[i]
  OBVIOUS

LEMMA SystemKeepsAlien ==
  ASSUME SessionTypes, AlienInv, Deliver \/ Stray \/ UserCloses
  PROVE  AlienInv'
<1>1. UNCHANGED <<st, samples, at, pump>>
  BY DEF Deliver, Stray, UserCloses, callerVars, pumpVars
<1>2. (Sound' <=> Sound) /\ Judged' = Judged /\ (InHand' <=> InHand)
  BY <1>1 DEF Sound, Judged, Accepted, InHand
<1>3. CASE UNCHANGED <<queued, alien, input>>
  BY <1>1, <1>2, <1>3, AlienStays
<1>4. CASE /\ flying # <<>> /\ input' = Append(input, Head(flying))
           /\ alien' = (alien \/ Head(flying).tag = 0 \/ Head(flying) \in queued)
           /\ queued' = queued \cup {Head(flying)}
  <2> SUFFICES ASSUME Sound PROVE (\A i \in queued' : Seen(i)') /\ (alien' => AlienIsAhead')
    BY <1>2 DEF AlienInv, Sound, Seen
  <2> PICK h : h = Head(flying)
    OBVIOUS
  <2> PICK n : n = Len(input)
    OBVIOUS
  <2>1. (\A i \in queued : Seen(i)) /\ (alien => AlienIsAhead)
    BY AlienInvIs
  <2>2. input \in Seq(Receipt) /\ h \in Receipt
    BY <1>4, QueueEdits DEF SessionTypes
  <2>3. /\ n \in Nat /\ Len(input') = n + 1 /\ input'[n + 1] = h
        /\ \A i \in 1..n : i \in 1..Len(input') /\ input'[i] = input[i]
        /\ n + 1 \in 1..Len(input')
    BY <1>4, <2>2, AppendIs
  <2>4. \A i : Seen(i) => Seen(i)'
    BY <1>1, <1>2, <2>3 DEF Seen
  <2>5. Seen(h)'
    BY <2>3 DEF Seen
  <2>6. AlienIsAhead => AlienIsAhead'
    BY <1>1, <1>2, <2>3 DEF AlienIsAhead
  <2>7. h.tag = 0 => AlienIsAhead'
    BY <2>3 DEF AlienIsAhead
  <2>8. ASSUME h \in queued PROVE AlienIsAhead'
    <3>1. CASE h \in Judged
      BY <1>2, <2>3, <3>1 DEF AlienIsAhead
    <3>2. CASE \E j \in 1..n : input[j] = h
      <4>1. PICK j \in 1..n : input[j] = h
        BY <3>2
      <4>2. j \in 1..Len(input') /\ j < n + 1 /\ input'[j] = input'[n + 1]
        BY <2>3, <4>1
      <4> QED BY <2>3, <4>2 DEF AlienIsAhead
    <3>3. CASE InHand /\ pump.holds = h
      BY <1>1, <1>2, <2>3, <3>3 DEF AlienIsAhead
    <3> QED BY <2>1, <2>8, <3>1, <3>2, <3>3 DEF Seen
  <2> QED BY <1>4, <2>1, <2>4, <2>5, <2>6, <2>7, <2>8
<1> QED BY <1>3, <1>4 DEF Deliver, Stray, UserCloses, pumpVars

-----------------------------------------------------------------------------
(* The close.                                                              *)
LEMMA PumpIsThere == Pump \/ PumpBreaks => pump.at # "gone"
  BY DEF Pump, PumpBarrier, PumpClose, PumpExit, PumpSeal, TakesMessage,
         SealDrainFirst, SealDrainLast, SealDrain, SealRestore, SealDecide,
         PumpInput, PumpMatch, PumpLeaves, PumpRestores, PumpBreaks

LEMMA PumpKeepsClose ==
  ASSUME CloseInv, Pump \/ PumpBreaks
  PROVE  CloseInv'
<1>1. UNCHANGED <<raw, callerVars>>
  BY DEF Pump, PumpBarrier, PumpClose, PumpExit, PumpSeal, TakesMessage, PumpStep,
         SealDrainFirst, SealDrainLast, SealDrain, SealRestore, SealDecide,
         PumpInput, PumpMatch, PumpLeaves, PumpRestores, PumpBreaks
<1>2. pump.at # "gone"
  BY PumpIsThere
<1> QED BY <1>1, <1>2 DEF CloseInv, callerVars, Accepted

LEMMA SystemKeepsClose ==
  ASSUME CloseInv, Deliver \/ Stray \/ UserCloses
  PROVE  CloseInv'
<1>1. UNCHANGED <<raw, st, callerVars, pump, registered>>
  BY DEF Deliver, Stray, UserCloses, pumpVars
<1>2. pump.at = "gone" => UNCHANGED alien
  BY DEF Deliver, Stray, UserCloses
<1> QED BY <1>1, <1>2 DEF CloseInv, callerVars, Accepted

(* Before the clean-up nothing but a packet changes what was sent.         *)
LEMMA WalkingKeepsClose ==
  ASSUME SessionTypes, CloseInv,
         \/ Foreground \/ Finishes \/ PostBarrier \/ AwaitBarrier \/ Arm \/ Precise
         \/ ReceiptsFail \/ ReceiptsTimeOut \/ Expired \/ CheckBoundary
         \/ PostSeal \/ AwaitSeal \/ SealTimesOut \/ Join
  PROVE  CloseInv'
<1>1. /\ UNCHANGED <<raw, samples, sent, pump, down, cleanup, result>>
      /\ at # "closed" /\ at' \notin Released \cup {"receipts"}
  BY DEF Caller, NoPacket, pumpVars, Fails, Released, Foreground, Finishes, PostBarrier, AwaitBarrier,
         Arm, Precise, ReceiptsFail, ReceiptsTimeOut, Expired, CheckBoundary,
         PostSeal, AwaitSeal, SealTimesOut, Join
<1>2. raw /\ at' \in Paired => at \in Paired
  BY DEF Fails, Paired, Foreground, Finishes, PostBarrier, AwaitBarrier,
         Arm, Precise, ReceiptsFail, ReceiptsTimeOut, Expired, CheckBoundary,
         PostSeal, AwaitSeal, SealTimesOut, Join
<1>3. raw /\ at' \in {"clean", "check"} => pump.at = "gone"
  BY DEF Fails, Foreground, Finishes, PostBarrier, AwaitBarrier,
         Arm, Precise, ReceiptsFail, ReceiptsTimeOut, Expired, CheckBoundary,
         PostSeal, AwaitSeal, SealTimesOut, Join
<1> QED BY <1>1, <1>2, <1>3 DEF CloseInv, Accepted, Released

LEMMA SendingKeepsClose ==
  ASSUME SessionTypes, ReceiptsInv, CloseInv, SendTagged \/ SendPrepared \/ ReceiptsComplete
  PROVE  CloseInv'
<1>1. UNCHANGED <<raw, pump, cleanup, result>> /\ at # "closed"
  BY DEF Caller, pumpVars, SendTagged, SendPrepared, ReceiptsComplete
<1>2. at' \notin Released \cup {"clean"}
  BY DEF Fails, Released, SendTagged, SendPrepared, ReceiptsComplete
<1>3. CASE SendTagged
  <2>1. /\ UNCHANGED <<samples, sequence>> /\ raw /\ at \in Paired
        /\ sent' = sent \cup [tag : {sequence - 1}, key : KeySet]
        /\ at' \in {"receipts", "failing"}
    BY <1>3 DEF SendTagged, Packet, Paired, Fails
  <2> QED BY <1>1, <1>2, <2>1 DEF CloseInv, Accepted, Released, Paired
<1>4. CASE SendPrepared
  <2>1. UNCHANGED <<samples, sent>> /\ ~raw /\ at' \in {"idle", "failing"}
    BY <1>4 DEF SendPrepared, Fails
  <2> QED BY <1>1, <1>2, <2>1 DEF CloseInv, Accepted, Released
<1>5. CASE ReceiptsComplete
  <2>1. /\ UNCHANGED sent /\ at = "receipts" /\ at' = "idle"
        /\ samples' = samples \cup {[tag |-> Packet, receipts |-> st.pending]}
    BY <1>5 DEF ReceiptsComplete
  <2>2. Accepted' = Accepted \cup [tag : {sequence - 1}, key : KeySet]
    <3>1. Accepted' = Accepted \cup st.pending
      BY <2>1, AcceptedGrows
    <3> QED BY <1>5, <3>1, Complete
  <2>3. sent' = Accepted'
    BY <2>1, <2>2 DEF CloseInv
  <2> QED BY <1>1, <1>2, <2>1, <2>3 DEF CloseInv, Released
<1> QED BY <1>3, <1>4, <1>5

LEMMA CleaningKeepsClose ==
  ASSUME SessionTypes, CloseInv, CleanKeyboard
  PROVE  CloseInv'
<1>1. /\ UNCHANGED <<raw, samples, sent, pump, result>> /\ at \in {"clean", "failing"}
      /\ at' \in {"stop", "check", "stopSender"}
      /\ at' = "check" => raw /\ at = "clean"
  BY DEF Caller, pumpVars, CleanKeyboard
<1>2. ~refused' \/ cleanup'.success => down' = {}
  <2>1. PICK left \in SUBSET down, conclusive \in BOOLEAN, all \in BOOLEAN :
          /\ all => left = {}
          /\ down' = left /\ refused' = ~all
          /\ cleanup' = [success |-> all /\ left = {} /\ conclusive,
                         conclusive |-> conclusive]
    BY DEF CleanKeyboard
  <2>2. cleanup'.success => left = {}
    BY <2>1
  <2> QED BY <2>1, <2>2
<1> QED BY <1>1, <1>2 DEF CloseInv, Accepted, Paired

(* The last look at the boundary: nothing of others can be ahead.          *)
LEMMA CheckingKeepsClose ==
  ASSUME SessionTypes, SealInv, AlienInv, CloseInv, CheckSealed
  PROVE  CloseInv'
<1>1. /\ UNCHANGED <<raw, st, samples, sent, pump, registered, alien, down, refused>>
      /\ at = "check" /\ at' = "closed" /\ result' \in {"ok", "failed"}
  BY DEF Caller, NoPacket, pumpVars, CheckSealed
<1>2. raw /\ pump.at = "gone" /\ sent = Accepted
  BY <1>1 DEF SessionTypes, CloseInv, SharedPlaces, SenderPlaces, Paired
<1>3. cleanup'.success => cleanup.success /\ ~st.restoreFailed
  BY DEF CheckSealed, SessionTypes
<1>4. ASSUME result' = "ok" PROVE ~alien /\ ~registered
  <2>1. BoundaryAfter(st)
    BY <1>4 DEF CheckSealed
  <2>2. st.life = "Sealed" /\ ~st.lost /\ ~st.failure
    BY <2>1 DEF BoundaryAfter, Closable
  <2>3. ~registered /\ input = <<>> /\ pump.at # "match"
    BY <2>2 DEF SealInv
  <2>4. ~AlienIsAhead
    BY <2>3 DEF AlienIsAhead, InHand
  <2> QED BY <1>1, <2>2, <2>3, <2>4 DEF AlienInv
<1>5. ~refused' \/ cleanup'.success => down' = {}
  BY <1>1, <1>3 DEF CloseInv, Released
<1> QED BY <1>1, <1>2, <1>3, <1>4, <1>5 DEF CloseInv, Accepted, Paired

LEMMA StoppingKeepsClose ==
  ASSUME SessionTypes, CloseInv, StopPump \/ PumpStopped
  PROVE  CloseInv'
<1> st \in SharedState /\ cleanup \in [success : BOOLEAN, conclusive : BOOLEAN]
  BY DEF SessionTypes
<1>1. UNCHANGED <<raw, samples, sent, pump, down, refused>> /\ at # "closed" /\ at \in Released
  BY DEF Caller, NoPacket, pumpVars, StopPump, PumpStopped, Released
<1>2. CASE StopPump
  <2>1. UNCHANGED <<cleanup, result>> /\ at' \in {"awaitStop", "awaitSender"}
    BY <1>2 DEF StopPump
  <2> QED BY <1>1, <2>1 DEF CloseInv, Accepted, Released, Paired
<1>3. CASE PumpStopped
  <2>1. at' = "closed" /\ (result' = "ok" => ~raw)
    BY <1>3 DEF PumpStopped, SessionTypes, SharedPlaces, ObservedPlaces
  <2>2. cleanup'.success =>
          cleanup.success /\ pump.at = "gone" /\ ~st'.restoreFailed
    <3>1. CASE pump.at = "gone"
      BY <1>3, <3>1 DEF PumpStopped
    <3>2. CASE pump.at # "gone"
      <4>1. st' = [st EXCEPT !.pumpFailed = TRUE] /\ st'.pumpFailed
        BY <1>3, <3>2 DEF PumpStopped, SharedState
      <4> QED BY <1>3, <3>2, <4>1 DEF PumpStopped
    <3> QED BY <3>1, <3>2
  <2> QED BY <1>1, <2>1, <2>2 DEF CloseInv, Accepted, Paired, Released
<1> QED BY <1>2, <1>3

-----------------------------------------------------------------------------
LEMMA SessionInvHoldsFirst == SessionInit => SessionInv
<1> SUFFICES ASSUME SessionInit PROVE SessionInv
  OBVIOUS
<1> USE DEF SessionInit, PumpReady
<1>1. SessionTypes
  <2>1. st \in SharedState
    BY DEF SharedState, NoSequence
  <2>2. pump \in [at : PumpPlaces, holds : Receipt]
    BY DEF PumpPlaces, Receipt, Nothing
  <2>3. at \in SharedPlaces
    BY DEF SharedPlaces
  <2> QED BY <2>1, <2>2, <2>3, QueueEdits DEF SessionTypes
<1>2. ReceiptsInv
  BY DEF ReceiptsInv, SamplesAreTheirPackets, NoSequence, Armed
<1>3. SealInv
  BY DEF SealInv, InSeal
<1>4. AlienInv
  BY DEF AlienInv
<1>5. CloseInv
  BY DEF CloseInv, Accepted, Released, Paired
<1> QED BY <1>1, <1>2, <1>3, <1>4, <1>5 DEF SessionInv

LEMMA StandingStill == SessionInv /\ UNCHANGED sessionVars => SessionInv'
<1> SUFFICES ASSUME SessionInv, UNCHANGED sessionVars PROVE SessionInv'
  OBVIOUS
<1>1. UNCHANGED <<raw, st, posted, flying, queued, alien>> /\ UNCHANGED <<callerVars, pumpVars>>
  BY DEF sessionVars
<1>2. SessionTypes'
  BY <1>1 DEF SessionInv, SessionTypes, callerVars, pumpVars, Messages, PumpPlaces
<1>3. ReceiptsInv'
  BY <1>1 DEF SessionInv, ReceiptsInv, SamplesAreTheirPackets, callerVars, Armed
<1>4. SealInv'
  BY <1>1 DEF SessionInv, SealInv, pumpVars
<1>5. AlienInv'
  BY <1>1 DEF SessionInv, AlienInv, callerVars, pumpVars, Judged, Accepted, InHand, AlienIsAhead
<1>6. CloseInv'
  BY <1>1 DEF SessionInv, CloseInv, callerVars, pumpVars, Accepted
<1> QED BY <1>2, <1>3, <1>4, <1>5, <1>6 DEF SessionInv

LEMMA CallerKeepsTypes ==
  ASSUME SessionTypes, ReceiptsInv, CallerThread
  PROVE  SessionTypes'
<1>1. raw /\ at = "send" => sequence > 1
  BY DEF ReceiptsInv, Armed
<1> QED
  BY <1>1, WalkingKeepsTypes, SendingKeepsTypes, ClosingKeepsTypes DEF CallerThread

LEMMA CallerKeepsClose ==
  ASSUME SessionInv, CallerThread
  PROVE  CloseInv'
  BY WalkingKeepsClose, SendingKeepsClose, CleaningKeepsClose, CheckingKeepsClose,
     StoppingKeepsClose DEF SessionInv, CallerThread

LEMMA SessionInvStays == SessionInv /\ [SessionNext]_sessionVars => SessionInv'
<1> SUFFICES ASSUME SessionInv, [SessionNext]_sessionVars PROVE SessionInv'
  OBVIOUS
<1>1. CASE Pump \/ PumpBreaks
  BY <1>1, PumpKeepsTypes, PumpBreakingKeepsTypes, PumpKeepsReceipts, PumpKeepsSeal,
     PumpKeepsAlien, PumpKeepsClose DEF SessionInv
<1>2. CASE CallerThread
  BY <1>2, CallerKeepsTypes, CallerKeepsReceipts, CallerKeepsSeal, CallerKeepsAlien,
     CallerKeepsClose DEF SessionInv
<1>3. CASE Deliver \/ Stray \/ UserCloses
  BY <1>3, SystemKeepsTypes, SystemKeepsReceipts, SystemKeepsSeal, SystemKeepsAlien,
     SystemKeepsClose DEF SessionInv
<1> QED BY <1>1, <1>2, <1>3, StandingStill DEF SessionNext

LEMMA SessionInvHolds == SessionSpec => []SessionInv
  BY SessionInvHoldsFirst, SessionInvStays, PTL DEF SessionSpec

(* What a session hands out as measured and as closed was, for any chord,  *)
(* any number of packets and any number of foreign inputs: every accepted  *)
(* sample has exactly the receipts of its packet, a publishable close      *)
(* received all that was sent and nothing else, and a clean-up reported as *)
(* a success has the keys up, the pump gone and the registration given     *)
(* back (calibration.rs:1559-1600, 2109-2205, 3508-3577, 3634-3656).       *)
THEOREM SessionsTellTheTruth == SessionSpec => []ResultsAreReal
<1>1. SessionInv => SamplesAreTheirPackets
  BY DEF SessionInv, ReceiptsInv
<1>2. SessionInv => PublishedIsComplete
  BY DEF SessionInv, CloseInv, Accepted, PublishedIsComplete
<1>3. SessionInv => SuccessIsReal
  BY DEF SessionInv, CloseInv, SealInv, Released, SuccessIsReal
<1> QED BY <1>1, <1>2, <1>3, SessionInvHolds, PTL DEF ResultsAreReal

(* A closed session leaves no instrument key down unless every All-Up call *)
(* was refused (calibration.rs:3018-3066, 3140-3165, 3303-3340).           *)
THEOREM SessionsReleaseTheKeys == SessionSpec => []NothingStaysDown
<1>1. SessionInv => NothingStaysDown
  BY DEF SessionInv, CloseInv, Released, NothingStaysDown
<1> QED BY <1>1, SessionInvHolds, PTL

-----------------------------------------------------------------------------
(***************************************************************************)
(* The calibration run.  The loader recomputes what a document says, so a  *)
(* document it takes has a margin exactly if its status is valid; what was *)
(* announced from the temporary file is what the loader makes of it once   *)
(* it is in place.                                                         *)
(***************************************************************************)

\* The document made ready is one the loader takes.
PreparedIsLoadable ==
  runAt = "prepared" => Resolution(temp, host).source \in {"device", "out_of_envelope"}

RunInv == ReportIsWhatIsLoaded /\ PreparedIsLoadable

\* A document taken for this device's has a margin, one that is out of the
\* envelope has none.
LEMMA TakenMeansConsistent ==
  ASSUME NEW f, NEW h
  PROVE  /\ Resolution(f, h).source = "device" =>
              f.is.margin # Absent /\ Resolution(f, h) = [source |-> "device", margin |-> f.is.margin]
         /\ Resolution(f, h).source = "out_of_envelope" =>
              f.is.margin = Absent /\ Resolution(f, h) = Fallback("out_of_envelope")
BY DEF Resolution, Fallback, QualificationMatches, Status

LEMMA RunInvInit == RunInit => RunInv
BY TakenMeansConsistent DEF RunInit, RunInv, ReportIsWhatIsLoaded, PreparedIsLoadable, Loaded

LEMMA RunInvNext == RunInv /\ [RunNext]_runVars => RunInv'
<1> SUFFICES ASSUME RunInv, [RunNext]_runVars
             PROVE  RunInv'
  OBVIOUS
<1> USE DEF RunInv, ReportIsWhatIsLoaded, PreparedIsLoadable, Loaded
\* The child neither touches the files nor makes anything ready.
<1>1. CASE /\ UNCHANGED <<file, temp, host, report>>
           /\ runAt' # "prepared"
  BY <1>1
<1>2. ASSUME NEW c \in Presets, StartRun(c) PROVE RunInv'
  BY <1>1, <1>2 DEF StartRun, fileVars
<1>3. ASSUME NEW a \in Aids, NEW l \in Lates, Open(a, l) PROVE RunInv'
  BY <1>1, <1>3 DEF Open, Child, fileVars
<1>4. ASSUME NEW l \in Lates, NEW d \in Durations, SendDown(l, d) \/ SendUp(l, d) PROVE RunInv'
  BY <1>4 DEF SendDown, SendUp, Child, fileVars
<1>5. CASE WarmedUp \/ CloseBucket \/ RunFails
  BY <1>1, <1>5 DEF WarmedUp, CloseBucket, RunFails, Child, fileVars
<1>6. CASE Prepare
  BY <1>6 DEF Prepare, WriteTemp, Desktop
<1>7. CASE PrepareFails
  BY <1>7 DEF PrepareFails, Desktop, fileVars
<1>8. CASE CommitCache
  BY <1>8, TakenMeansConsistent DEF CommitCache, Replace, Desktop
<1>9. CASE CommitFails
  BY <1>9 DEF CommitFails, ReplaceFails, Desktop
<1>10. CASE SettleRun
  BY <1>10 DEF SettleRun
<1>11. CASE Restart
  BY <1>11 DEF Restart
<1>12. CASE UNCHANGED runVars
  BY <1>12 DEF runVars, fileVars
<1>13. QED
  BY <1>2, <1>3, <1>4, <1>5, <1>6, <1>7, <1>8, <1>9, <1>10, <1>11, <1>12 DEF RunNext

\* What the last successful calibration announced is what playback loads, over
\* failed runs, crashes and restarts on the same host (calibration.rs of the
\* desktop, load_calibration_resolution).
THEOREM WhatIsReportedIsLoaded == RunSpec => []ReportIsWhatIsLoaded
<1>1. RunInit => RunInv
  BY RunInvInit
<1>2. RunInv /\ [RunNext]_runVars => RunInv'
  BY RunInvNext
<1>3. RunInv => ReportIsWhatIsLoaded
  BY DEF RunInv
<1>4. QED
  BY <1>1, <1>2, <1>3, PTL DEF RunSpec

-----------------------------------------------------------------------------
(***************************************************************************)
(* The update service.  Whoever is between the change of something the     *)
(* preferences and the service share and the end of it holds the settings  *)
(* lock; an installation works on the copy it took, whose updates come     *)
(* from one check.                                                         *)
(***************************************************************************)
Preferences == [channel : Channels, skip : Versions \cup {None}]

CheckRecord == [pc : {"ready", "ask", "done"}, channel : Channels \cup {None}, root : Nat,
                found : Seq(Offers), failed : BOOLEAN]

InstallRecord ==
  [pc : {"ready", "take", "reserve", "begin", "download", "publish", "launch", "exited", "done"},
   target : Nat \cup {None}, settings : Preferences \cup {None}, candidate : Offers \cup {None},
   updates : Seq(Offers)]

UpdateTypes ==
  /\ authority \in [Channels -> Nat]
  /\ preferences \in Preferences
  /\ offered \in Nat \cup {None}
  /\ candidate \in Offers \cup {None} /\ updates \in Seq(Offers)
  /\ check \in [Checks -> CheckRecord]
  /\ patch \in [Patches -> {"ready", "reset", "done"}]
  /\ install \in [Updates -> InstallRecord]
  /\ installed \in Offers \cup {None}

\* All of these come from one check, the one of this offer.
FromCheckOf(offers, offer) == \A i \in 1 .. Len(offers) : offers[i].check = offer.check

\* A check that is asking, or a patch that has stored, holds the lock; what the
\* check has found is of the preferred channel.
LockInv ==
  /\ \A c \in Checks : check[c].pc = "ask" =>
       /\ lock = c /\ check[c].channel = preferences.channel
       /\ \A i \in 1 .. Len(check[c].found) :
            check[c].found[i].check = c /\ check[c].found[i].channel = check[c].channel
  /\ \A p \in Patches : patch[p] = "reset" => lock = p

\* The service's updates are those of its candidate's check, and the candidate
\* fits unless a patch is about to reset it.
UpdaterInv ==
  /\ FromCheckOf(updates, candidate)
  /\ candidate # None /\ (\A p \in Patches : patch[p] # "reset") =>
       candidate.channel = preferences.channel /\ candidate.version # preferences.skip

\* An installation that goes on has taken what was asked for.
InstallInv ==
  \A u \in Updates :
    LET r == install[u] IN
    /\ r.pc \in {"reserve", "begin", "download", "publish", "launch", "exited"} =>
         r.candidate.version = r.target /\ FromCheckOf(r.updates, r.candidate)
    /\ r.pc \in {"publish", "launch"} => r.updates # <<>>
    /\ r.pc = "exited" => installed # None /\ installed.check = r.candidate.check

UpdateInv == UpdateTypes /\ LockInv /\ UpdaterInv /\ InstallInv

LEMMA UpdateInvInit == UpdateInit => UpdateInv
<1> SUFFICES ASSUME UpdateInit PROVE UpdateInv
  OBVIOUS
<1> USE DEF UpdateInit
<1>1. NoCheck \in CheckRecord /\ NoCheck.pc = "ready"
  BY DEF NoCheck, CheckRecord
<1>2. NoInstall \in InstallRecord /\ NoInstall.pc = "ready"
  BY DEF NoInstall, InstallRecord
<1>3. UpdateTypes
  BY <1>1, <1>2 DEF UpdateTypes, Preferences, Versions
<1>4. LockInv /\ UpdaterInv /\ InstallInv
  BY <1>1, <1>2 DEF LockInv, UpdaterInv, InstallInv, FromCheckOf
<1>5. QED
  BY <1>3, <1>4 DEF UpdateInv

\* A step of the other owners of the boundary, or of the authority.
LEMMA OthersKeepUpdates ==
  ASSUME UpdateInv, UNCHANGED <<preferences, lock, candidate, updates, offered, check, patch,
                                install, installed>>,
         authority' \in [Channels -> Nat]
  PROVE  UpdateInv'
BY DEF UpdateInv, UpdateTypes, LockInv, UpdaterInv, InstallInv, FromCheckOf

\* A step of one check that goes on.
LEMMA CheckGoesOn ==
  ASSUME UpdateInv, NEW c \in Checks, NEW r \in CheckRecord, check' = [check EXCEPT ![c] = r],
         UNCHANGED <<authority, preferences, offerVars, offered, patch, install, installed>>,
         \/ lock' = lock /\ r.pc # "ask"
         \/ lock = None /\ lock' = c /\ r.pc = "ask" /\ r.found = <<>>
         \/ lock' = lock /\ check[c].pc = "ask",
         r.pc = "ask" =>
           /\ r.channel = preferences.channel
           /\ \A i \in 1 .. Len(r.found) : r.found[i].check = c /\ r.found[i].channel = r.channel
  PROVE  UpdateInv'
<1> USE DEF UpdateInv
<1>1. UpdateTypes'
  BY DEF UpdateTypes, offerVars
<1>2. LockInv'
  BY CallsDiffer DEF LockInv, UpdateTypes
<1>3. UpdaterInv' /\ InstallInv'
  BY DEF UpdaterInv, InstallInv, FromCheckOf, offerVars
<1>4. QED
  BY <1>1, <1>2, <1>3

LEMMA CheckKeepsUpdates ==
  ASSUME UpdateInv, NEW c \in Checks, CheckStep(c)
  PROVE  UpdateInv'
<1> USE DEF UpdateInv
<1>1. check[c] \in CheckRecord /\ NoCheck \in CheckRecord
  BY DEF UpdateTypes, NoCheck, CheckRecord
<1>2. CASE CheckBegins(c)
  <2>1. PICK w : w = [NoCheck EXCEPT !.pc = "ask"]
    OBVIOUS
  <2>2. w \in CheckRecord /\ w.pc = "ask" /\ w.found = <<>>
    BY <1>1, <2>1 DEF CheckRecord, NoCheck
  <2> DEFINE r == [w EXCEPT !.channel = preferences.channel]
  <2>3. check' = [check EXCEPT ![c] = r]
    BY <1>2, <2>1, Zenon DEF CheckBegins
  <2>4. r \in CheckRecord /\ r.pc = "ask" /\ r.found = <<>> /\ r.channel = preferences.channel
    BY <2>2 DEF CheckRecord, UpdateTypes, Preferences
  <2>5. \A i \in 1 .. Len(r.found) : r.found[i].check = c /\ r.found[i].channel = r.channel
    BY <2>4
  <2>6. lock = None /\ lock' = c
        /\ UNCHANGED <<authority, preferences, offerVars, offered, patch, install, installed>>
    BY <1>2 DEF CheckBegins
  <2>7. QED
    BY <2>3, <2>4, <2>5, <2>6, CheckGoesOn
<1>3. CASE CheckReloadFails(c)
  <2> DEFINE r == [check[c] EXCEPT !.pc = "done"]
  <2>1. r \in CheckRecord /\ r.pc = "done" /\ check' = [check EXCEPT ![c] = r]
    BY <1>1, <1>3 DEF CheckReloadFails, CheckRecord
  <2>2. QED
    BY <1>3, <2>1, CheckGoesOn DEF CheckReloadFails
<1>4. CASE CheckAsks(c)
  <2> DEFINE f == Append(check[c].found, Offer(c))
  <2>1. /\ check[c].channel = preferences.channel /\ check[c].pc = "ask"
        /\ preferences.channel \in Channels
        /\ \A i \in 1 .. Len(check[c].found) :
             check[c].found[i].check = c /\ check[c].found[i].channel = check[c].channel
    BY <1>4 DEF CheckAsks, LockInv, UpdateTypes, Preferences
  <2>2. Offer(c) \in Offers /\ Offer(c).check = c /\ Offer(c).channel = check[c].channel
    BY <1>1, <2>1 DEF Offer, Offers, CheckRecord, UpdateTypes
  <2>3. f \in Seq(Offers) /\ Len(f) = Len(check[c].found) + 1
    BY <1>1, <2>2 DEF CheckRecord
  <2>4. ASSUME NEW i \in 1 .. Len(f)
        PROVE  f[i].check = c /\ f[i].channel = check[c].channel
    <3>1. f[i] = IF i <= Len(check[c].found) THEN check[c].found[i] ELSE Offer(c)
      BY <1>1, <2>2, <2>3 DEF CheckRecord
    <3>2. Len(check[c].found) \in Nat
      BY <1>1 DEF CheckRecord
    <3>3. QED
      BY <2>1, <2>2, <2>3, <3>1, <3>2
  <2>5. PICK s : /\ s \in {[check[c] EXCEPT !.found = IF Offer(c).version = 0 THEN @ ELSE f],
                           [check[c] EXCEPT !.failed = TRUE]}
                 /\ check' = [check EXCEPT ![c] = [s EXCEPT !.root = @ + 1]]
    BY <1>4 DEF CheckAsks
  <2>6. /\ s \in CheckRecord /\ s.pc = "ask" /\ s.channel = check[c].channel
        /\ s.found \in {check[c].found, f}
    BY <1>1, <2>1, <2>3, <2>5 DEF CheckRecord
  <2> DEFINE r == [s EXCEPT !.root = @ + 1]
  <2>7. r \in CheckRecord /\ r.pc = "ask" /\ r.channel = check[c].channel /\ r.found = s.found
    BY <2>6 DEF CheckRecord
  <2>8. \A i \in 1 .. Len(r.found) : r.found[i].check = c /\ r.found[i].channel = r.channel
    BY <2>1, <2>4, <2>6, <2>7
  <2>9. check' = [check EXCEPT ![c] = r]
    BY <2>5
  <2>10. QED
    BY <1>4, <2>1, <2>7, <2>8, <2>9, CheckGoesOn DEF CheckAsks
\* The end of a check: the lock is free, and the service keeps what it was or
\* what the end makes of it.
<1>5. ASSUME CheckReturns(c), check[c].pc = "ask",
             candidate' \in Offers \cup {None}, updates' \in Seq(Offers), offered' \in Nat \cup {None},
             UpdaterInv'
      PROVE  UpdateInv'
  <2>1. PICK r : r = [NoCheck EXCEPT !.pc = "done"]
    OBVIOUS
  <2>2. r \in CheckRecord /\ r.pc = "done" /\ check' = [check EXCEPT ![c] = r] /\ lock' = None
    BY <1>1, <1>5, <2>1 DEF CheckReturns, CheckRecord
  <2>3. UpdateTypes'
    BY <1>5, <2>2 DEF CheckReturns, UpdateTypes
  <2>4. lock = c
    BY <1>5 DEF LockInv
  <2>5. LockInv'
    BY <1>5, <2>2, <2>4, CallsDiffer DEF CheckReturns, LockInv, UpdateTypes
  <2>6. InstallInv'
    BY <1>5 DEF CheckReturns, InstallInv
  <2>7. QED
    BY <1>5, <2>3, <2>5, <2>6
<1>6. CASE CheckFinds(c)
  <2> DEFINE f == check[c].found
  <2>1. /\ f \in Seq(Offers) /\ f # <<>> /\ check[c].pc = "ask"
        /\ Head(f) \in Offers /\ Head(f) = f[1] /\ 1 \in 1 .. Len(f)
    BY <1>1, <1>6 DEF CheckFinds, AllAsked, Available, CheckRecord
  <2>2. /\ Head(f).channel = preferences.channel /\ Head(f).check = c
        /\ \A i \in 1 .. Len(f) : f[i].check = c
    BY <2>1 DEF LockInv
  <2>3. Head(f).version \in Nat /\ Head(f).version # preferences.skip
    BY <1>6, <2>1 DEF CheckFinds, Available, Offers
  <2>4. candidate' = Head(f) /\ updates' = f /\ preferences' = preferences
    BY <1>6 DEF CheckFinds, CheckReturns
  <2>5. UpdaterInv'
    BY <2>2, <2>3, <2>4 DEF UpdaterInv, FromCheckOf
  <2>6. offered' \in Nat \cup {None}
    BY <1>6, <2>3 DEF CheckFinds, UpdateTypes
  <2>7. QED
    BY <1>5, <1>6, <2>1, <2>4, <2>5, <2>6 DEF CheckFinds
<1>7. CASE CheckFindsNone(c)
  <2>1. UpdaterInv'
    BY <1>7 DEF CheckFindsNone, Reset, UpdaterInv, FromCheckOf
  <2>2. offered' \in Nat \cup {None}
    BY <1>7 DEF CheckFindsNone, UpdateTypes
  <2>3. QED
    BY <1>5, <1>7, <2>1, <2>2 DEF CheckFindsNone, AllAsked, Reset
<1>8. CASE CheckNotRecorded(c)
  <2>1. UpdaterInv'
    BY <1>8 DEF CheckNotRecorded, CheckReturns, offerVars, UpdaterInv, FromCheckOf
  <2>2. QED
    BY <1>5, <1>8, <2>1 DEF CheckNotRecorded, AllAsked, offerVars, UpdateTypes
<1>9. QED
  BY <1>2, <1>3, <1>4, <1>6, <1>7, <1>8 DEF CheckStep

LEMMA PatchKeepsUpdates ==
  ASSUME UpdateInv, NEW p \in Patches, PreferencesStep(p)
  PROVE  UpdateInv'
<1> USE DEF UpdateInv
<1>1. CASE PatchStores(p)
  <2>1. UpdateTypes'
    BY <1>1 DEF PatchStores, UpdateTypes, Preferences, offerVars
  <2>2. patch'[p] = "reset"
    BY <1>1 DEF PatchStores, UpdateTypes
  <2>3. LockInv'
    BY <1>1, CallsDiffer DEF PatchStores, LockInv, UpdateTypes
  <2>4. UpdaterInv' /\ InstallInv'
    BY <1>1, <2>2 DEF PatchStores, UpdaterInv, InstallInv, FromCheckOf, offerVars
  <2>5. QED
    BY <2>1, <2>3, <2>4
<1>2. CASE PatchFails(p)
  <2>1. UpdateTypes' /\ InstallInv'
    BY <1>2 DEF PatchFails, UpdateTypes, InstallInv, offerVars
  <2>2. LockInv'
    BY <1>2 DEF PatchFails, UpdateTypes, LockInv
  <2>3. UpdaterInv'
    BY <1>2 DEF PatchFails, UpdateTypes, UpdaterInv, FromCheckOf, offerVars
  <2>4. QED
    BY <2>1, <2>2, <2>3
<1>3. CASE PatchResets(p)
  <2>1. UpdateTypes' /\ InstallInv'
    BY <1>3 DEF PatchResets, Reset, UpdateTypes, InstallInv
  <2>2. LockInv'
    BY <1>3, CallsDiffer DEF PatchResets, LockInv, UpdateTypes
  <2>3. UpdaterInv'
    BY <1>3 DEF PatchResets, Reset, UpdaterInv, FromCheckOf
  <2>4. QED
    BY <2>1, <2>2, <2>3
<1>4. QED
  BY <1>1, <1>2, <1>3 DEF PreferencesStep

\* What an installation may be when its record changes.
Honest(r) ==
  /\ r \in InstallRecord
  /\ r.pc \in {"reserve", "begin", "download", "publish", "launch", "exited"} =>
       r.candidate.version = r.target /\ FromCheckOf(r.updates, r.candidate)
  /\ r.pc \in {"publish", "launch"} => r.updates # <<>>

LEMMA InstallEdit ==
  ASSUME UpdateInv, NEW u \in Updates, NEW r, Honest(r), SetInstall(u, r),
         \/ installed' = installed /\ r.pc # "exited"
         \/ installed' \in Offers /\ installed = None /\ installed'.check = r.candidate.check
  PROVE  UpdateInv'
<1> USE DEF UpdateInv
<1>1. UpdateTypes'
  BY DEF SetInstall, Honest, UpdateTypes
<1>2. LockInv' /\ UpdaterInv'
  BY DEF SetInstall, LockInv, UpdaterInv, FromCheckOf
<1>3. install' = [install EXCEPT ![u] = r] /\ install \in [Updates -> InstallRecord]
  BY DEF SetInstall, UpdateTypes
<1>4. InstallInv'
  BY <1>3, CallsDiffer DEF Honest, InstallInv
<1>5. QED
  BY <1>1, <1>2, <1>4

LEMMA InstallKeepsUpdates ==
  ASSUME UpdateInv, NEW u \in Updates, InstallStep(u), installed = None
  PROVE  UpdateInv'
<1> USE DEF UpdateInv
<1> DEFINE x == install[u]
<1>1. x \in InstallRecord /\ NoInstall \in InstallRecord
  BY DEF UpdateTypes, InstallRecord, NoInstall
<1>2. x.pc # "take" /\ x.pc # "ready" /\ x.pc # "done" =>
        x.candidate.version = x.target /\ FromCheckOf(x.updates, x.candidate)
  BY <1>1 DEF InstallRecord, InstallInv
<1>3. ASSUME NEW pc \in {"begin", "download", "done"} PROVE Honest([x EXCEPT !.pc = pc]) \/ x.pc \in {"take", "ready", "done"}
  BY <1>1, <1>2 DEF Honest, InstallRecord
<1>4. ASSUME Done(u) PROVE UpdateInv'
  <2>1. PICK r : r = [NoInstall EXCEPT !.pc = "done"]
    OBVIOUS
  <2>2. Honest(r) /\ r.pc = "done"
    BY <1>1, <2>1 DEF Honest, InstallRecord
  <2>3. SetInstall(u, r) /\ installed' = installed
    BY <1>4, <2>1, Zenon DEF Done
  <2>4. QED
    BY <2>2, <2>3, InstallEdit
<1>5. CASE InstallReads(u) /\ ~Done(u)
  <2>1. PICK w : w = [NoInstall EXCEPT !.pc = "take"]
    OBVIOUS
  <2>2. PICK v : v = [w EXCEPT !.target = offered]
    OBVIOUS
  <2> DEFINE r == [v EXCEPT !.settings = preferences]
  <2>3. SetInstall(u, r) /\ installed' = installed
    BY <1>5, <2>1, <2>2, Zenon DEF InstallReads
  <2>4. w \in InstallRecord /\ w.pc = "take"
    BY <1>1, <2>1 DEF InstallRecord
  <2>5. v \in InstallRecord /\ v.pc = "take"
    BY <2>2, <2>4 DEF InstallRecord, UpdateTypes
  <2>6. r \in InstallRecord /\ r.pc = "take"
    BY <2>5 DEF InstallRecord, UpdateTypes
  <2>7. QED
    BY <2>3, <2>6, InstallEdit DEF Honest
<1>6. CASE InstallTakes(u) /\ ~Done(u)
  <2>1. PICK w : w = [x EXCEPT !.pc = "reserve"]
    OBVIOUS
  <2>2. PICK v : v = [w EXCEPT !.candidate = candidate]
    OBVIOUS
  <2> DEFINE r == [v EXCEPT !.updates = updates]
  <2>3. /\ SetInstall(u, r) /\ installed' = installed
        /\ ~Stale(u)
    BY <1>6, <2>1, <2>2, Zenon DEF InstallTakes
  <2>4. w \in InstallRecord /\ w.pc = "reserve" /\ w.target = x.target
    BY <1>1, <2>1 DEF InstallRecord
  <2>5. v \in InstallRecord /\ v.pc = "reserve" /\ v.target = x.target /\ v.candidate = candidate
    BY <2>2, <2>4 DEF InstallRecord, UpdateTypes
  <2>6. /\ r \in InstallRecord /\ r.pc = "reserve" /\ r.target = x.target
        /\ r.candidate = candidate /\ r.updates = updates
    BY <2>5 DEF InstallRecord, UpdateTypes
  <2>7. Honest(r)
    BY <2>3, <2>6 DEF Honest, Stale, UpdaterInv
  <2>8. QED
    BY <2>3, <2>6, <2>7, InstallEdit
<1>7. CASE InstallReserves(u)
  <2>1. Honest([x EXCEPT !.pc = "begin"]) /\ [x EXCEPT !.pc = "begin"].pc = "begin"
    BY <1>1, <1>3, <1>7 DEF InstallReserves, InstallRecord
  <2>2. QED
    BY <1>7, <2>1, InstallEdit DEF InstallReserves
<1>8. CASE InstallBegins(u)
  <2>1. Honest([x EXCEPT !.pc = "download"]) /\ [x EXCEPT !.pc = "download"].pc = "download"
    BY <1>1, <1>3, <1>8 DEF InstallBegins, InstallRecord
  <2>2. SetInstall(u, [x EXCEPT !.pc = "download"]) /\ installed' = installed
    BY <1>8 DEF InstallBegins
  <2>3. QED
    BY <2>1, <2>2, InstallEdit
<1>9. CASE InstallDownloads(u)
  <2>1. x.pc = "download" /\ x.updates # <<>> /\ x.updates \in Seq(Offers) /\ installed' = installed
    BY <1>1, <1>9 DEF InstallDownloads, InstallRecord
  <2>2. CASE SetInstall(u, [x EXCEPT !.pc = "publish"])
    <3>1. Honest([x EXCEPT !.pc = "publish"]) /\ [x EXCEPT !.pc = "publish"].pc = "publish"
      BY <1>1, <1>2, <2>1 DEF Honest, InstallRecord
    <3>2. QED
      BY <2>1, <2>2, <3>1, InstallEdit
  <2>3. CASE SetInstall(u, [x EXCEPT !.updates = Tail(@)])
    <3> DEFINE q == Tail(x.updates)
               r == [x EXCEPT !.updates = q]
    <3>1. q \in Seq(Offers) /\ Len(q) = Len(x.updates) - 1 /\ Len(x.updates) \in Nat
      BY <2>1
    <3>2. ASSUME NEW i \in 1 .. Len(q) PROVE q[i] = x.updates[i + 1] /\ i + 1 \in 1 .. Len(x.updates)
      BY <2>1, <3>1
    <3>3. FromCheckOf(q, x.candidate)
      BY <1>2, <2>1, <3>2 DEF FromCheckOf
    <3>4. /\ r \in InstallRecord /\ r.pc = "download" /\ r.target = x.target
          /\ r.candidate = x.candidate /\ r.updates = q
      BY <1>1, <2>1, <3>1 DEF InstallRecord
    <3>5. Honest(r)
      BY <1>2, <2>1, <3>3, <3>4 DEF Honest
    <3>6. QED
      BY <2>1, <2>3, <3>4, <3>5, InstallEdit
  <2>4. QED
    BY <1>9, <2>2, <2>3 DEF InstallDownloads
<1>10. CASE InstallPublishes(u)
  <2>1. Honest([x EXCEPT !.pc = "launch"]) /\ [x EXCEPT !.pc = "launch"].pc = "launch"
    BY <1>1, <1>2, <1>10 DEF InstallPublishes, Honest, InstallRecord, InstallInv
  <2>2. SetInstall(u, [x EXCEPT !.pc = "launch"]) /\ installed' = installed
    BY <1>10 DEF InstallPublishes
  <2>3. QED
    BY <2>1, <2>2, InstallEdit
<1>11. CASE InstallLaunches(u)
  <2>1. x.pc = "launch" /\ x.updates # <<>> /\ x.updates \in Seq(Offers)
    BY <1>1, <1>11 DEF InstallLaunches, InstallRecord, InstallInv
  <2>2. Head(x.updates) \in Offers /\ Head(x.updates) = x.updates[1] /\ 1 \in 1 .. Len(x.updates)
    BY <2>1
  <2>3. Head(x.updates).check = x.candidate.check
    BY <1>2, <2>1, <2>2 DEF FromCheckOf
  <2> DEFINE r == [x EXCEPT !.pc = "exited"]
  <2>4. Honest(r) /\ r.candidate = x.candidate
    BY <1>1, <1>2, <2>1 DEF Honest, InstallRecord
  <2>5. SetInstall(u, r) /\ installed' = Head(x.updates)
    BY <1>11 DEF InstallLaunches
  <2>6. QED
    BY <2>2, <2>3, <2>4, <2>5, InstallEdit
<1>12. CASE InstallRefused(u) \/ InstallStops(u) \/ InstallFails(u)
  BY <1>4, <1>12 DEF InstallRefused, InstallStops, InstallFails
<1>13. QED
  BY <1>4, <1>5, <1>6, <1>7, <1>8, <1>9, <1>10, <1>11, <1>12 DEF InstallStep

LEMMA UpdateInvNext == UpdateInv /\ [UpdateNext]_updateVars => UpdateInv'
<1> SUFFICES ASSUME UpdateInv, [UpdateNext]_updateVars
             PROVE  UpdateInv'
  OBVIOUS
<1>1. ASSUME NEW channel \in Channels, AuthorityReleases(channel) PROVE UpdateInv'
  <2>1. authority' \in [Channels -> Nat]
    BY <1>1 DEF AuthorityReleases, UpdateInv, UpdateTypes
  <2>2. QED
    BY <1>1, <2>1, OthersKeepUpdates DEF AuthorityReleases, offerVars
<1>2. CASE OtherActivity \/ UNCHANGED updateVars
  <2>1. authority' \in [Channels -> Nat]
    BY <1>2 DEF OtherActivity, updateVars, updaterVars, UpdateInv, UpdateTypes
  <2>2. QED
    BY <1>2, <2>1, OthersKeepUpdates DEF OtherActivity, updateVars, updaterVars
<1>3. QED
  BY <1>1, <1>2, CheckKeepsUpdates, PatchKeepsUpdates, InstallKeepsUpdates DEF UpdateNext, UpdateStep

\* For any number of checks, patches and installations at once: what is launched
\* was found by the check whose version the user asked for, and between the calls
\* the candidate is one the preferences in force allow (native_update.rs install,
\* native_runtime.rs patch_settings).
THEOREM LaunchesAreAskedFor == UpdateSpec => []LaunchedWasAskedFor
<1>1. UpdateInit => UpdateInv
  BY UpdateInvInit
<1>2. UpdateInv /\ [UpdateNext]_updateVars => UpdateInv'
  BY UpdateInvNext
<1>3. UpdateInv => LaunchedWasAskedFor
  <2>1. UpdateInv => InstallerWasAskedFor
    BY DEF UpdateInv, InstallInv, InstallerWasAskedFor
  <2>2. UpdateInv => CandidateFitsPreferences
    BY CallsDiffer DEF UpdateInv, LockInv, UpdaterInv, CandidateFitsPreferences
  <2>3. QED
    BY <2>1, <2>2 DEF LaunchedWasAskedFor
<1>4. QED
  BY <1>1, <1>2, <1>3, PTL DEF UpdateSpec
=============================================================================
