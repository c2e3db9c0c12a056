--------------------------- MODULE DesktopProofs ---------------------------
(***************************************************************************)
(* Five parts of the desktop's process and window, each for any bounds.    *)
(*                                                                         *)
(* The playback service, for any number of sessions and commands: no       *)
(* player outlives its supervisor or the shutdown, and what the user       *)
(* interface is told of the sessions is in order and true.  A session is   *)
(* held by its supervisor from its start until the supervisor leaves, and  *)
(* the slot names exactly the held session; so whoever speaks is the       *)
(* newest session.  Once the supervisor only has its report to make the    *)
(* player is over, and the shutdown's look at the slot therefore sees the  *)
(* only player there can be.                                               *)
(*                                                                         *)
(* The store's view of the library, for any views, songs and generations:  *)
(* what the window shows is current.  Each kind of request has an          *)
(* invariant of its own, which says what its answer will find: a page that *)
(* is still merged or awaited is of the shown query, a detail or a plan    *)
(* that is still taken is of the shown generation and settings.            *)
(*                                                                         *)
(* The store's view of the playback, for any songs, starts and clicks:     *)
(* the controls are those of the session that plays.                       *)
(*                                                                         *)
(* The health reports and the settings: the pieces of a report belong to   *)
(* one state of the worker, and a restart finds the settings it was        *)
(* promised.                                                               *)
(***************************************************************************)
EXTENDS PlaybackService, LibraryStore, PlaybackStore, HealthReports, Settings, TLAPS

(***************************************************************************)
(* The playback service.                                                   *)
(***************************************************************************)
(* The supervisor holds its session. *)
Held ==
  {"born", "unstart", "loop", "failed", "terminal", "change", "announce", "leave"}
    \cup Reporting

(* All that the supervisor has left to do is to report and to leave. *)
Closing == {"unstart", "failed", "terminal", "leave", "record", "over"} \cup Reporting

Quiet(s) == dry[s] \/ player[s] \notin Live

CallPcs ==
  Methods \cup {"none", "over", "clear", "quit", "say", "flag", "control", "setstate", "lookup",
               "onlystop", "finish", "await", "closed"}

Records ==
  [pc : CallPcs, method : Methods \cup {"none", "shutdown"}, s : Sessions \cup {NoSession}]

Statuses == Live \cup Ended \cup {"none"}

SessionTypes ==
  /\ started \in 0..MaxSessions
  /\ slot \in Sessions \cup {NoSession}
  /\ stop \in [Sessions -> BOOLEAN]
  /\ skip \in [Sessions -> BOOLEAN]
  /\ dry \in [Sessions -> BOOLEAN]
  /\ mon \in [Sessions -> MonitorPcs]
  /\ seen \in [Sessions -> Statuses]
  /\ player \in [Sessions -> Statuses]
  /\ want \in [Sessions -> SUBSET {"pause", "quit", "skip"}]

Types == SessionTypes /\ call \in [Calls -> Records]

SlotInv ==
  /\ slot # NoSession => slot = started /\ mon[slot] \in Held
  /\ \A s \in Sessions : mon[s] \in Held => slot = s
  /\ \A s \in Sessions : s > started => mon[s] = "none"

PlayerInv ==
  \A s \in Sessions :
    /\ mon[s] = "none" => player[s] = "none"
    /\ mon[s] \in Closing => Quiet(s)

(* What a report will rest on. *)
ReportInv ==
  \A s \in Sessions :
    /\ mon[s] \in {"terminal", "endreport"} => seen[s] \in Ended /\ player[s] = seen[s]
    /\ mon[s] \in {"quitreport", "skipreport"} => stop[s]
    /\ mon[s] = "skipreport" => skip[s]
    /\ ("skip" \in want[s] \/ player[s] = "skipped") => skip[s]

SaidInv ==
  /\ said[1] \in 0..started
  /\ said[2] = "outcome" =>
       /\ said[1] \in Sessions
       /\ mon[said[1]] \in {"none", "leave", "record", "over"}

(* Since its look at the slot the shutdown knows of the only player. *)
ShutInv ==
  \A c \in Calls :
    /\ (call[c].pc = "lookup" \/ call[c].method = "shutdown") => closing
    /\ call[c].method = "shutdown" => \A s \in Sessions \ {call[c].s} : Quiet(s)
    /\ call[c].pc \in {"onlystop", "finish", "await", "closed"} => call[c].method = "shutdown"
    /\ (call[c].method = "shutdown" /\ call[c].pc # "closed") => call[c].s # NoSession
    /\ call[c].pc = "await" => Quiet(call[c].s)
    /\ call[c].pc = "closed" => call[c].s = NoSession

PInv == Types /\ SlotInv /\ PlayerInv /\ ReportInv /\ SaidInv /\ ShutInv

-----------------------------------------------------------------------------
(* What a command makes of its own record. *)
LEMMA CallEdits ==
  ASSUME call \in [Calls -> Records], NEW c \in Calls
  PROVE  /\ \A pc \in CallPcs : CallGoes(c, pc) => call' \in [Calls -> Records]
         /\ Returns(c) => call' \in [Calls -> Records]
         /\ \A r \in Records : [call EXCEPT ![c] = r] \in [Calls -> Records]
BY DEF CallGoes, Returns, Records, Over, NotYet, CallPcs

(* What the service has joined is quiet, and nothing else has changed. *)
LEMMA JoinedIsQuiet ==
  ASSUME SessionTypes, NEW s \in Sessions, Joined(s)
  PROVE  /\ dry[s] \/ player'[s] \notin Live
         /\ player'[s] \in {player[s], "quit"}
         /\ player[s] \notin Live => player'[s] = player[s]
         /\ \A x \in Sessions : x # s => player'[x] = player[x]
         /\ \A x \in Sessions : want'[x] \subseteq want[x]
<1>1. CASE UNCHANGED <<player, want>> /\ (dry[s] \/ player[s] \notin Live)
  BY <1>1
<1>2. CASE Ends(s, "quit") /\ player[s] \in Live
  <2>1. player'[s] = "quit" /\ \A x \in Sessions : x # s => player'[x] = player[x]
    BY <1>2 DEF Ends, SessionTypes
  <2>2. \A x \in Sessions : want'[x] = {} \/ want'[x] = want[x]
    BY <1>2 DEF Ends, SessionTypes
  <2>. QED BY <1>2, <2>1, <2>2 DEF Live
<1>. QED BY <1>1, <1>2 DEF Joined

(* What keeps the knowledge of the shutdown: a command that goes to g, or returns. *)
LEMMA ShutStays ==
  ASSUME ShutInv, UNCHANGED <<closing, dry, player>>, NEW g,
         g \notin {"lookup", "onlystop", "await", "closed"},
         \A d \in Calls :
           \/ call'[d] = call[d]
           \/ call'[d].pc = "over" /\ call'[d].method = "none"
           \/ /\ call'[d].pc = g /\ call'[d].method = call[d].method /\ call'[d].s = call[d].s
              /\ call[d].pc # "closed"
              /\ g = "finish" => call[d].method = "shutdown"
  PROVE  ShutInv'
<1>. USE DEF ShutInv, Quiet
<1>. TAKE d \in Calls
<1>1. CASE call'[d] = call[d]
  BY <1>1
<1>2. CASE call'[d].pc = "over" /\ call'[d].method = "none"
  BY <1>2
<1>3. CASE /\ call'[d].pc = g /\ call'[d].method = call[d].method /\ call'[d].s = call[d].s
           /\ call[d].pc # "closed"
           /\ g = "finish" => call[d].method = "shutdown"
  BY <1>3
<1>. QED BY <1>1, <1>2, <1>3

(* What a control tells the player. *)
LEMMA ControlsTell ==
  ASSUME NEW c, CommandControls(c)
  PROVE  \/ want' = want
         \/ Tell(call[c].s, "pause")
         \/ want' = [want EXCEPT ![call[c].s] = @ \ {"pause"}]
BY DEF CommandControls, Tell

(* A player that is not told to skip. *)
LEMMA NotToldToSkip ==
  ASSUME SessionTypes, NEW s,
         \/ want' = want
         \/ Tell(s, "quit")
         \/ Tell(s, "pause")
         \/ want' = [want EXCEPT ![s] = @ \ {"pause"}]
  PROVE  /\ want' \in [Sessions -> SUBSET {"pause", "quit", "skip"}]
         /\ \A x \in Sessions : "skip" \in want'[x] => "skip" \in want[x]
BY DEF Tell, SessionTypes

(* What the supervisor's step, the join and the end of the record leave of the types. *)
LEMMA GotoTypes ==
  ASSUME SessionTypes, NEW s \in Sessions, NEW pc \in MonitorPcs, Goto(s, pc)
  PROVE  mon' \in [Sessions -> MonitorPcs]
BY DEF SessionTypes, Goto

LEMMA JoinedTypes ==
  ASSUME SessionTypes, NEW s \in Sessions, Joined(s)
  PROVE  /\ player' \in [Sessions -> Statuses]
         /\ want' \in [Sessions -> SUBSET {"pause", "quit", "skip"}]
<1>1. CASE UNCHANGED <<player, want>>
  BY <1>1 DEF SessionTypes
<1>2. CASE Ends(s, "quit")
  BY <1>2 DEF Ends, SessionTypes, Statuses, Ended
<1>. QED BY <1>1, <1>2 DEF Joined

LEMMA DroppedTypes ==
  ASSUME SessionTypes, NEW s \in Sessions, Dropped(s)
  PROVE  /\ stop' \in [Sessions -> BOOLEAN] /\ skip' \in [Sessions -> BOOLEAN]
         /\ dry' \in [Sessions -> BOOLEAN]
         /\ seen' \in [Sessions -> Statuses] /\ player' \in [Sessions -> Statuses]
         /\ want' \in [Sessions -> SUBSET {"pause", "quit", "skip"}]
<1>1. CASE \E c \in Calls : call[c].s = s
  BY <1>1 DEF Dropped, SessionTypes
<1>2. CASE ~ \E c \in Calls : call[c].s = s
  <2>1. /\ stop' = [stop EXCEPT ![s] = FALSE] /\ skip' = [skip EXCEPT ![s] = FALSE]
        /\ dry' = [dry EXCEPT ![s] = FALSE]
        /\ seen' = [seen EXCEPT ![s] = "starting"] /\ want' = [want EXCEPT ![s] = {}]
        /\ \E new \in {player[s], "none"} : player' = [player EXCEPT ![s] = new]
    BY <1>2 DEF Dropped
  <2>2. "starting" \in Statuses /\ "none" \in Statuses /\ player[s] \in Statuses
    BY DEF Statuses, Live, SessionTypes
  <2>. QED BY <2>1, <2>2 DEF SessionTypes
<1>. QED BY <1>1, <1>2

(* What a delivery that may fail leaves of the types. *)
LEMMA ThenTypes ==
  ASSUME SessionTypes, NEW s \in Sessions, NEW delivery, NEW pc \in MonitorPcs,
         Then(s, delivery, pc)
  PROVE  /\ mon' \in [Sessions -> MonitorPcs] /\ stop' \in [Sessions -> BOOLEAN]
         /\ player' \in [Sessions -> Statuses]
         /\ want' \in [Sessions -> SUBSET {"pause", "quit", "skip"}]
<1>1. CASE Goto(s, pc) /\ UNCHANGED <<stop, player, want>>
  BY <1>1, GotoTypes DEF SessionTypes
<1>2. CASE Cleanup(s)
  <2>1. Goto(s, "leave") /\ Joined(s) /\ stop' = [stop EXCEPT ![s] = TRUE]
    BY <1>2 DEF Cleanup
  <2>2. "leave" \in MonitorPcs
    BY DEF MonitorPcs
  <2>. QED BY <2>1, <2>2, GotoTypes, JoinedTypes DEF SessionTypes
<1>. QED BY <1>1, <1>2 DEF Then

(* The types of the variables under each group of actions, and then the rest *)
(* of the invariant: a start. *)
LEMMA StartTypes ==
  ASSUME Types, NEW s \in Sessions,
         Start(s) \/ StartFails(s) \/ StartPublishes(s) \/ Unstart(s)
  PROVE  Types'
<1>. USE DEF Types
<1>1. CASE Start(s)
  <2>2. SessionTypes'
    BY <1>1, BoundsAreNat DEF SessionTypes, session, monitor, engine, ui, Live, Ended,
        NoSession, Sessions, Reporting, MonitorPcs, Methods, NotYet, Statuses, Start, Started,
        Bounded, Calls, Reservable, Leased, SetState, Goto
  <2>3. call' \in [Calls -> Records]
    BY <1>1 DEF Start, Started, Bounded, Calls, Reservable, Leased, SetState, Goto
  <2>. QED BY <2>2, <2>3
<1>2. CASE StartFails(s)
  <2>2. SessionTypes'
    BY <1>2, BoundsAreNat DEF SessionTypes, session, monitor, engine, ui, Live, Ended,
        NoSession, Sessions, Reporting, MonitorPcs, Methods, NotYet, Statuses, StartFails,
        Bounded, Calls, Reservable, Leased, SetState, Tells, Delivered, Undelivered
  <2>3. call' \in [Calls -> Records]
    BY <1>2 DEF StartFails, Bounded, Calls, Reservable, Leased, SetState, Tells, Delivered,
        Undelivered
  <2>. QED BY <2>2, <2>3
<1>3. CASE StartPublishes(s)
  <2>2. SessionTypes'
    <3>1. "loop" \in MonitorPcs /\ "unstart" \in MonitorPcs
      BY DEF MonitorPcs
    <3>2. /\ \/ Goto(s, "loop") /\ UNCHANGED <<player, want>>
             \/ Goto(s, "unstart") /\ Joined(s)
          /\ UNCHANGED <<started, slot, stop, skip, dry, seen>>
      BY <1>3 DEF StartPublishes, session
    <3>3. mon' \in [Sessions -> MonitorPcs]
      BY <3>1, <3>2, GotoTypes
    <3>4. player' \in [Sessions -> Statuses]
          /\ want' \in [Sessions -> SUBSET {"pause", "quit", "skip"}]
      BY <3>2, JoinedTypes DEF SessionTypes
    <3>. QED BY <3>2, <3>3, <3>4 DEF SessionTypes
  <2>3. call' \in [Calls -> Records]
    BY <1>3 DEF StartPublishes, Tells, Delivered, Goto, Joined, Ends, Undelivered
  <2>. QED BY <2>2, <2>3
<1>4. CASE Unstart(s)
  <2>2. SessionTypes'
    BY <1>4, BoundsAreNat DEF SessionTypes, session, monitor, engine, ui, Live, Ended,
        NoSession, Sessions, Reporting, MonitorPcs, Methods, NotYet, Statuses, Unstart, Goto,
        Dropped, Calls, SetState
  <2>3. call' \in [Calls -> Records]
    BY <1>4 DEF Unstart, Goto, Dropped, Calls, SetState
  <2>. QED BY <2>2, <2>3
<1>. QED BY <1>1, <1>2, <1>3, <1>4

LEMMA StartKeeps ==
  ASSUME PInv, Types', NEW s \in Sessions,
         Start(s) \/ StartFails(s) \/ StartPublishes(s) \/ Unstart(s)
  PROVE  PInv'
<1>. USE BoundsAreNat DEF PInv, Types, SlotInv, PlayerInv, ReportInv, SaidInv, ShutInv,
    SessionTypes, Held, Closing, Quiet, Records, CallPcs, session, monitor, engine, ui, Live,
    Ended, NoSession, Sessions, Reporting, MonitorPcs, Methods, NotYet, Statuses
<1>1. CASE Start(s)
  <2>. USE <1>1 DEF Start, Started, Bounded, Calls, Reservable, Leased, SetState, Goto
  <2>1. SlotInv' OBVIOUS
  <2>2. PlayerInv' OBVIOUS
  <2>3. ReportInv' OBVIOUS
  <2>4. SaidInv' OBVIOUS
  <2>5. ShutInv' OBVIOUS
  <2>. QED BY <2>1, <2>2, <2>3, <2>4, <2>5
<1>2. CASE StartFails(s)
  <2>. USE <1>2 DEF StartFails, Bounded, Calls, Reservable, Leased, SetState, Tells, Delivered,
      Undelivered
  <2>1. SlotInv' OBVIOUS
  <2>2. PlayerInv' OBVIOUS
  <2>3. ReportInv' OBVIOUS
  <2>4. SaidInv' OBVIOUS
  <2>5. ShutInv' OBVIOUS
  <2>. QED BY <2>1, <2>2, <2>3, <2>4, <2>5
<1>3. CASE StartPublishes(s)
  <2>. USE <1>3 DEF StartPublishes, Tells, Delivered, Goto, Joined, Ends, Undelivered
  <2>1. SlotInv' OBVIOUS
  <2>2. PlayerInv'
    <3>1. CASE Goto(s, "loop") /\ UNCHANGED <<player, want>>
      BY <3>1
    <3>2. CASE Goto(s, "unstart") /\ Joined(s)
      <4>. HIDE DEF Joined, Ends
      <4>. QED BY <3>2, JoinedIsQuiet
    <3>. QED BY <3>1, <3>2
  <2>3. ReportInv'
    <3>1. CASE Goto(s, "loop") /\ UNCHANGED <<player, want>>
      BY <3>1
    <3>2. CASE Goto(s, "unstart") /\ Joined(s)
      <4>. HIDE DEF Joined, Ends
      <4>. QED BY <3>2, JoinedIsQuiet
    <3>. QED BY <3>1, <3>2
  <2>4. SaidInv' OBVIOUS
  <2>5. ShutInv' OBVIOUS
  <2>. QED BY <2>1, <2>2, <2>3, <2>4, <2>5
<1>4. CASE Unstart(s)
  <2>. USE <1>4 DEF Unstart, Goto, Dropped, Calls, SetState
  <2>1. SlotInv' OBVIOUS
  <2>2. PlayerInv' OBVIOUS
  <2>3. ReportInv' OBVIOUS
  <2>4. SaidInv' OBVIOUS
  <2>5. ShutInv' OBVIOUS
  <2>. QED BY <2>1, <2>2, <2>3, <2>4, <2>5
<1>. QED BY <1>1, <1>2, <1>3, <1>4

(* The supervisor. *)
LEMMA MonitorTypes ==
  ASSUME Types, NEW s \in Sessions,
         MonitorStops(s) \/ MonitorFails(s) \/ MonitorEnds(s) \/ MonitorReports(s)
           \/ MonitorPolls(s) \/ MonitorSetsState(s) \/ MonitorAnnounces(s) \/ MonitorLeaves(s)
           \/ MonitorRecords(s) \/ SnapshotFails(s)
  PROVE  Types'
<1>. USE DEF Types
<1>1. CASE MonitorStops(s)
  <2>2. SessionTypes'
    <3>1. /\ "skipreport" \in MonitorPcs /\ "quitreport" \in MonitorPcs
          /\ "failed" \in MonitorPcs
      BY DEF MonitorPcs, Reporting
    <3>2. /\ Goto(s, "skipreport") \/ Goto(s, "quitreport") \/ Goto(s, "failed")
          /\ Joined(s) /\ UNCHANGED <<started, slot, stop, skip, dry, seen>>
      BY <1>1 DEF MonitorStops
    <3>3. mon' \in [Sessions -> MonitorPcs]
      BY <3>1, <3>2, GotoTypes
    <3>. QED BY <3>2, <3>3, JoinedTypes DEF SessionTypes
  <2>3. call' \in [Calls -> Records]
    BY <1>1 DEF MonitorStops, Joined, Ends, SetState, Tells, Delivered, Goto, Undelivered
  <2>. QED BY <2>2, <2>3
<1>2. CASE MonitorFails(s)
  <2>2. SessionTypes'
    BY <1>2, BoundsAreNat DEF SessionTypes, session, monitor, engine, ui, Live, Ended,
        NoSession, Sessions, Reporting, MonitorPcs, Methods, NotYet, Statuses, MonitorFails,
        Cleanup, SetState, Joined, Ends, Goto
  <2>3. call' \in [Calls -> Records]
    BY <1>2 DEF MonitorFails, Cleanup, SetState, Joined, Ends, Goto
  <2>. QED BY <2>2, <2>3
<1>3. CASE MonitorEnds(s)
  <2>2. SessionTypes'
    BY <1>3, BoundsAreNat DEF SessionTypes, session, monitor, engine, ui, Live, Ended,
        NoSession, Sessions, Reporting, MonitorPcs, Methods, NotYet, Statuses, MonitorEnds,
        SetState, Tells, Delivered, Goto, Undelivered
  <2>3. call' \in [Calls -> Records]
    BY <1>3 DEF MonitorEnds, SetState, Tells, Delivered, Goto, Undelivered
  <2>. QED BY <2>2, <2>3
<1>4. CASE MonitorReports(s)
  <2>2. SessionTypes'
    <3>1. /\ Then(s, Tells(s, "outcome", Verdict(s)), "leave")
          /\ seen' = [seen EXCEPT ![s] = "starting"]
          /\ UNCHANGED <<started, slot, skip, dry>>
      BY <1>4 DEF MonitorReports
    <3>2. "leave" \in MonitorPcs /\ "starting" \in Statuses
      BY DEF MonitorPcs, Statuses, Live
    <3>3. seen' \in [Sessions -> Statuses]
      BY <3>1, <3>2 DEF SessionTypes
    <3>4. /\ mon' \in [Sessions -> MonitorPcs] /\ stop' \in [Sessions -> BOOLEAN]
          /\ player' \in [Sessions -> Statuses]
          /\ want' \in [Sessions -> SUBSET {"pause", "quit", "skip"}]
      BY <3>1, <3>2, ThenTypes
    <3>. QED BY <3>1, <3>3, <3>4 DEF SessionTypes
  <2>3. call' \in [Calls -> Records]
    BY <1>4 DEF MonitorReports, Then, Goto, Undelivered, Cleanup, SetState, Joined, Ends,
        Tells, Delivered, Verdict
  <2>. QED BY <2>2, <2>3
<1>5. CASE MonitorPolls(s)
  <2>2. SessionTypes'
    BY <1>5, BoundsAreNat DEF SessionTypes, session, monitor, engine, ui, Live, Ended,
        NoSession, Sessions, Reporting, MonitorPcs, Methods, NotYet, Statuses, MonitorPolls,
        Status, Goto
  <2>3. call' \in [Calls -> Records]
    BY <1>5 DEF MonitorPolls, Status, Goto
  <2>. QED BY <2>2, <2>3
<1>6. CASE MonitorSetsState(s)
  <2>2. SessionTypes'
    BY <1>6, BoundsAreNat DEF SessionTypes, session, monitor, engine, ui, Live, Ended,
        NoSession, Sessions, Reporting, MonitorPcs, Methods, NotYet, Statuses,
        MonitorSetsState, SetState, Goto
  <2>3. call' \in [Calls -> Records]
    BY <1>6 DEF MonitorSetsState, SetState, Goto
  <2>. QED BY <2>2, <2>3
<1>7. CASE MonitorAnnounces(s)
  <2>2. SessionTypes'
    <3>1. /\ Then(s, Tells(s, "state", seen[s]), "loop")
          /\ seen' = [seen EXCEPT ![s] = "starting"]
          /\ UNCHANGED <<started, slot, skip, dry>>
      BY <1>7 DEF MonitorAnnounces
    <3>2. "loop" \in MonitorPcs /\ "starting" \in Statuses
      BY DEF MonitorPcs, Statuses, Live
    <3>3. seen' \in [Sessions -> Statuses]
      BY <3>1, <3>2 DEF SessionTypes
    <3>4. /\ mon' \in [Sessions -> MonitorPcs] /\ stop' \in [Sessions -> BOOLEAN]
          /\ player' \in [Sessions -> Statuses]
          /\ want' \in [Sessions -> SUBSET {"pause", "quit", "skip"}]
      BY <3>1, <3>2, ThenTypes
    <3>. QED BY <3>1, <3>3, <3>4 DEF SessionTypes
  <2>3. call' \in [Calls -> Records]
    BY <1>7 DEF MonitorAnnounces, Then, Goto, Undelivered, Cleanup, SetState, Joined, Ends,
        Tells, Delivered
  <2>. QED BY <2>2, <2>3
<1>8. CASE MonitorLeaves(s)
  <2>2. SessionTypes'
    BY <1>8, BoundsAreNat DEF SessionTypes, session, monitor, engine, ui, Live, Ended,
        NoSession, Sessions, Reporting, MonitorPcs, Methods, NotYet, Statuses, MonitorLeaves,
        Goto
  <2>3. call' \in [Calls -> Records]
    BY <1>8 DEF MonitorLeaves, Goto
  <2>. QED BY <2>2, <2>3
<1>9. CASE MonitorRecords(s)
  <2>2. SessionTypes'
    <3>1. "over" \in MonitorPcs
      BY DEF MonitorPcs
    <3>2. Goto(s, "over") /\ Dropped(s) /\ UNCHANGED <<started, slot>>
      BY <1>9 DEF MonitorRecords
    <3>. QED BY <3>1, <3>2, GotoTypes, DroppedTypes DEF SessionTypes
  <2>3. call' \in [Calls -> Records]
    BY <1>9 DEF MonitorRecords, Goto, Dropped, Calls, SetState
  <2>. QED BY <2>2, <2>3
<1>10. CASE SnapshotFails(s)
  <2>2. SessionTypes'
    BY <1>10, BoundsAreNat DEF SessionTypes, session, monitor, engine, ui, Live, Ended,
        NoSession, Sessions, Reporting, MonitorPcs, Methods, NotYet, Statuses, SnapshotFails,
        Status, Undelivered, Cleanup, SetState, Joined, Ends, Goto
  <2>3. call' \in [Calls -> Records]
    BY <1>10 DEF SnapshotFails, Status, Undelivered, Cleanup, SetState, Joined, Ends, Goto
  <2>. QED BY <2>2, <2>3
<1>. QED BY <1>1, <1>2, <1>3, <1>4, <1>5, <1>6, <1>7, <1>8, <1>9, <1>10

LEMMA MonitorKeeps ==
  ASSUME PInv, Types', NEW s \in Sessions,
         MonitorStops(s) \/ MonitorFails(s) \/ MonitorEnds(s) \/ MonitorReports(s)
           \/ MonitorPolls(s) \/ MonitorSetsState(s) \/ MonitorAnnounces(s) \/ MonitorLeaves(s)
           \/ MonitorRecords(s) \/ SnapshotFails(s)
  PROVE  PInv'
<1>. USE BoundsAreNat DEF PInv, Types, SlotInv, PlayerInv, ReportInv, SaidInv, ShutInv,
    SessionTypes, Held, Closing, Quiet, Records, CallPcs, session, monitor, engine, ui, Live,
    Ended, NoSession, Sessions, Reporting, MonitorPcs, Methods, NotYet, Statuses
<1>1. CASE MonitorStops(s)
  <2>. USE <1>1 DEF MonitorStops, Joined, Ends, SetState, Tells, Delivered, Goto, Undelivered
  <2>1. SlotInv' OBVIOUS
  <2>2. PlayerInv' OBVIOUS
  <2>3. ReportInv' OBVIOUS
  <2>4. SaidInv' OBVIOUS
  <2>5. ShutInv' OBVIOUS
  <2>. QED BY <2>1, <2>2, <2>3, <2>4, <2>5
<1>2. CASE MonitorFails(s)
  <2>. USE <1>2 DEF MonitorFails, Cleanup, SetState, Joined, Ends, Goto
  <2>1. SlotInv' OBVIOUS
  <2>2. PlayerInv' OBVIOUS
  <2>3. ReportInv' OBVIOUS
  <2>4. SaidInv' OBVIOUS
  <2>5. ShutInv' OBVIOUS
  <2>. QED BY <2>1, <2>2, <2>3, <2>4, <2>5
<1>3. CASE MonitorEnds(s)
  <2>. USE <1>3 DEF MonitorEnds, SetState, Tells, Delivered, Goto, Undelivered
  <2>1. SlotInv' OBVIOUS
  <2>2. PlayerInv' OBVIOUS
  <2>3. ReportInv' OBVIOUS
  <2>4. SaidInv' OBVIOUS
  <2>5. ShutInv' OBVIOUS
  <2>. QED BY <2>1, <2>2, <2>3, <2>4, <2>5
<1>4. CASE MonitorReports(s)
  <2>. USE <1>4 DEF MonitorReports, Then, Goto, Undelivered, Cleanup, SetState, Joined, Ends,
      Tells, Delivered, Verdict
  <2>1. SlotInv' OBVIOUS
  <2>2. PlayerInv' OBVIOUS
  <2>3. ReportInv' OBVIOUS
  <2>4. SaidInv' OBVIOUS
  <2>5. ShutInv' OBVIOUS
  <2>. QED BY <2>1, <2>2, <2>3, <2>4, <2>5
<1>5. CASE MonitorPolls(s)
  <2>. USE <1>5 DEF MonitorPolls, Status, Goto
  <2>1. SlotInv' OBVIOUS
  <2>2. PlayerInv' OBVIOUS
  <2>3. ReportInv' OBVIOUS
  <2>4. SaidInv' OBVIOUS
  <2>5. ShutInv' OBVIOUS
  <2>. QED BY <2>1, <2>2, <2>3, <2>4, <2>5
<1>6. CASE MonitorSetsState(s)
  <2>. USE <1>6 DEF MonitorSetsState, SetState, Goto
  <2>1. SlotInv' OBVIOUS
  <2>2. PlayerInv' OBVIOUS
  <2>3. ReportInv' OBVIOUS
  <2>4. SaidInv' OBVIOUS
  <2>5. ShutInv' OBVIOUS
  <2>. QED BY <2>1, <2>2, <2>3, <2>4, <2>5
<1>7. CASE MonitorAnnounces(s)
  <2>. USE <1>7 DEF MonitorAnnounces, Then, Goto, Undelivered, Cleanup, SetState, Joined, Ends,
      Tells, Delivered
  <2>1. SlotInv' OBVIOUS
  <2>2. PlayerInv' OBVIOUS
  <2>3. ReportInv' OBVIOUS
  <2>4. SaidInv' OBVIOUS
  <2>5. ShutInv' OBVIOUS
  <2>. QED BY <2>1, <2>2, <2>3, <2>4, <2>5
<1>8. CASE MonitorLeaves(s)
  <2>. USE <1>8 DEF MonitorLeaves, Goto
  <2>1. SlotInv' OBVIOUS
  <2>2. PlayerInv' OBVIOUS
  <2>3. ReportInv' OBVIOUS
  <2>4. SaidInv' OBVIOUS
  <2>5. ShutInv' OBVIOUS
  <2>. QED BY <2>1, <2>2, <2>3, <2>4, <2>5
<1>9. CASE MonitorRecords(s)
  <2>. USE <1>9 DEF MonitorRecords, Goto, Dropped, Calls, SetState
  <2>1. SlotInv' OBVIOUS
  <2>2. PlayerInv' OBVIOUS
  <2>3. ReportInv' OBVIOUS
  <2>4. SaidInv' OBVIOUS
  <2>5. ShutInv' OBVIOUS
  <2>. QED BY <2>1, <2>2, <2>3, <2>4, <2>5
<1>10. CASE SnapshotFails(s)
  <2>. USE <1>10 DEF SnapshotFails, Status, Undelivered, Cleanup, SetState, Joined, Ends, Goto
  <2>1. SlotInv' OBVIOUS
  <2>2. PlayerInv' OBVIOUS
  <2>3. ReportInv' OBVIOUS
  <2>4. SaidInv' OBVIOUS
  <2>5. ShutInv' OBVIOUS
  <2>. QED BY <2>1, <2>2, <2>3, <2>4, <2>5
<1>. QED BY <1>1, <1>2, <1>3, <1>4, <1>5, <1>6, <1>7, <1>8, <1>9, <1>10

(* The player. *)
LEMMA PlayerTypes ==
  ASSUME Types, NEW s \in Sessions,
         PlayerPauses(s) \/ PlayerLosesFocus(s) \/ PlayerPlays(s) \/ PlayerObeys(s)
           \/ PlayerEnds(s)
  PROVE  Types'
<1>. USE DEF Types
<1>1. CASE PlayerPauses(s)
  <2>2. SessionTypes'
    BY <1>1, BoundsAreNat DEF SessionTypes, session, monitor, engine, ui, Live, Ended,
        NoSession, Sessions, Reporting, MonitorPcs, Methods, NotYet, Statuses, PlayerPauses
  <2>3. call' \in [Calls -> Records]
    BY <1>1 DEF PlayerPauses
  <2>. QED BY <2>2, <2>3
<1>2. CASE PlayerLosesFocus(s)
  <2>2. SessionTypes'
    BY <1>2, BoundsAreNat DEF SessionTypes, session, monitor, engine, ui, Live, Ended,
        NoSession, Sessions, Reporting, MonitorPcs, Methods, NotYet, Statuses, PlayerLosesFocus
  <2>3. call' \in [Calls -> Records]
    BY <1>2 DEF PlayerLosesFocus
  <2>. QED BY <2>2, <2>3
<1>3. CASE PlayerPlays(s)
  <2>2. SessionTypes'
    BY <1>3, BoundsAreNat DEF SessionTypes, session, monitor, engine, ui, Live, Ended,
        NoSession, Sessions, Reporting, MonitorPcs, Methods, NotYet, Statuses, PlayerPlays
  <2>3. call' \in [Calls -> Records]
    BY <1>3 DEF PlayerPlays
  <2>. QED BY <2>2, <2>3
<1>4. CASE PlayerObeys(s)
  <2>2. SessionTypes'
    BY <1>4, BoundsAreNat DEF SessionTypes, session, monitor, engine, ui, Live, Ended,
        NoSession, Sessions, Reporting, MonitorPcs, Methods, NotYet, Statuses, PlayerObeys,
        Ends
  <2>3. call' \in [Calls -> Records]
    BY <1>4 DEF PlayerObeys, Ends
  <2>. QED BY <2>2, <2>3
<1>5. CASE PlayerEnds(s)
  <2>2. SessionTypes'
    BY <1>5, BoundsAreNat DEF SessionTypes, session, monitor, engine, ui, Live, Ended,
        NoSession, Sessions, Reporting, MonitorPcs, Methods, NotYet, Statuses, PlayerEnds, Ends
  <2>3. call' \in [Calls -> Records]
    BY <1>5 DEF PlayerEnds, Ends
  <2>. QED BY <2>2, <2>3
<1>. QED BY <1>1, <1>2, <1>3, <1>4, <1>5

LEMMA PlayerKeeps ==
  ASSUME PInv, Types', NEW s \in Sessions,
         PlayerPauses(s) \/ PlayerLosesFocus(s) \/ PlayerPlays(s) \/ PlayerObeys(s)
           \/ PlayerEnds(s)
  PROVE  PInv'
<1>. USE BoundsAreNat DEF PInv, Types, SlotInv, PlayerInv, ReportInv, SaidInv, ShutInv,
    SessionTypes, Held, Closing, Quiet, Records, CallPcs, session, monitor, engine, ui, Live,
    Ended, NoSession, Sessions, Reporting, MonitorPcs, Methods, NotYet, Statuses
<1>1. CASE PlayerPauses(s)
  <2>. USE <1>1 DEF PlayerPauses
  <2>1. SlotInv' OBVIOUS
  <2>2. PlayerInv' OBVIOUS
  <2>3. ReportInv' OBVIOUS
  <2>4. SaidInv' OBVIOUS
  <2>5. ShutInv' OBVIOUS
  <2>. QED BY <2>1, <2>2, <2>3, <2>4, <2>5
<1>2. CASE PlayerLosesFocus(s)
  <2>. USE <1>2 DEF PlayerLosesFocus
  <2>1. SlotInv' OBVIOUS
  <2>2. PlayerInv' OBVIOUS
  <2>3. ReportInv' OBVIOUS
  <2>4. SaidInv' OBVIOUS
  <2>5. ShutInv' OBVIOUS
  <2>. QED BY <2>1, <2>2, <2>3, <2>4, <2>5
<1>3. CASE PlayerPlays(s)
  <2>. USE <1>3 DEF PlayerPlays
  <2>1. SlotInv' OBVIOUS
  <2>2. PlayerInv' OBVIOUS
  <2>3. ReportInv' OBVIOUS
  <2>4. SaidInv' OBVIOUS
  <2>5. ShutInv' OBVIOUS
  <2>. QED BY <2>1, <2>2, <2>3, <2>4, <2>5
<1>4. CASE PlayerObeys(s)
  <2>. USE <1>4 DEF PlayerObeys, Ends
  <2>1. SlotInv' OBVIOUS
  <2>2. PlayerInv' OBVIOUS
  <2>3. ReportInv' OBVIOUS
  <2>4. SaidInv' OBVIOUS
  <2>5. ShutInv' OBVIOUS
  <2>. QED BY <2>1, <2>2, <2>3, <2>4, <2>5
<1>5. CASE PlayerEnds(s)
  <2>. USE <1>5 DEF PlayerEnds, Ends
  <2>1. SlotInv' OBVIOUS
  <2>2. PlayerInv' OBVIOUS
  <2>3. ReportInv' OBVIOUS
  <2>4. SaidInv' OBVIOUS
  <2>5. ShutInv' OBVIOUS
  <2>. QED BY <2>1, <2>2, <2>3, <2>4, <2>5
<1>. QED BY <1>1, <1>2, <1>3, <1>4, <1>5

(* The commands. *)
LEMMA CommandTypes ==
  ASSUME Types, NEW c \in Calls,
         CommandBegins(c) \/ CommandStops(c) \/ CommandSetsStopping(c) \/ CommandQuits(c)
           \/ CommandSays(c) \/ CommandForgets(c) \/ CommandSkips(c) \/ CommandPends(c)
           \/ CommandControls(c) \/ CommandSetsState(c)
  PROVE  Types'
<1>. USE DEF Types
<1>1. CASE CommandBegins(c)
  <2>2. SessionTypes'
    BY <1>1, BoundsAreNat DEF SessionTypes, session, monitor, engine, ui, Live, Ended,
        NoSession, Sessions, Reporting, MonitorPcs, Methods, NotYet, Statuses, CommandBegins,
        Issued, Bounded, Calls, At, Admits, Begins
  <2>3. call' \in [Calls -> Records]
    <3>1. PICK m \in Methods : call' = [call EXCEPT ![c] = [pc |-> m, method |-> m, s |-> slot]]
      BY <1>1, <1>1 DEF CommandBegins, Begins
    <3>2. [pc |-> m, method |-> m, s |-> slot] \in Records
      BY DEF Records, SessionTypes, CallPcs
    <3>. QED BY <3>1, <3>2, CallEdits
  <2>. QED BY <2>2, <2>3
<1>2. CASE CommandStops(c)
  <2>2. SessionTypes'
    BY <1>2, BoundsAreNat DEF SessionTypes, session, monitor, engine, ui, Live, Ended,
        NoSession, Sessions, Reporting, MonitorPcs, Methods, NotYet, Statuses, CommandStops,
        At, CallGoes
  <2>3. call' \in [Calls -> Records]
    BY <1>2, CallEdits DEF CallPcs, Methods, CommandStops, At
  <2>. QED BY <2>2, <2>3
<1>3. CASE CommandSetsStopping(c)
  <2>2. SessionTypes'
    BY <1>3, BoundsAreNat DEF SessionTypes, session, monitor, engine, ui, Live, Ended,
        NoSession, Sessions, Reporting, MonitorPcs, Methods, NotYet, Statuses,
        CommandSetsStopping, At, SetState, CallGoes
  <2>3. call' \in [Calls -> Records]
    <3>1. CallGoes(c, "say") \/ CallGoes(c, "quit")
      BY <1>3, <1>3 DEF CommandSetsStopping, CallGoes
    <3>. QED BY <3>1, CallEdits DEF CallPcs
  <2>. QED BY <2>2, <2>3
<1>4. CASE CommandQuits(c)
  <2>1. want' \in [Sessions -> SUBSET {"pause", "quit", "skip"}]
    BY <1>4, NotToldToSkip DEF CommandQuits
  <2>2. SessionTypes'
    BY <1>4, <2>1 DEF SessionTypes, session, monitor, engine, ui, CommandQuits, At, Refuses,
        Returns, Over, CallGoes
  <2>3. call' \in [Calls -> Records]
    BY <1>4, CallEdits DEF CallPcs, Methods, CommandQuits, At, Refuses, Tell
  <2>. QED BY <2>2, <2>3
<1>5. CASE CommandSays(c)
  <2>2. SessionTypes'
    BY <1>5, BoundsAreNat DEF SessionTypes, session, monitor, engine, ui, Live, Ended,
        NoSession, Sessions, Reporting, MonitorPcs, Methods, NotYet, Statuses, CommandSays, At,
        CommandTells, Delivered, Undelivered, CallGoes, Returns, Over
  <2>3. call' \in [Calls -> Records]
    BY <1>5, CallEdits DEF CallPcs, Methods, CommandSays, At, CommandTells, Delivered,
        Undelivered
  <2>. QED BY <2>2, <2>3
<1>6. CASE CommandForgets(c)
  <2>2. SessionTypes'
    BY <1>6, BoundsAreNat DEF SessionTypes, session, monitor, engine, ui, Live, Ended,
        NoSession, Sessions, Reporting, MonitorPcs, Methods, NotYet, Statuses, CommandForgets,
        At, CallGoes
  <2>3. call' \in [Calls -> Records]
    BY <1>6, CallEdits DEF CallPcs, Methods, CommandForgets, At
  <2>. QED BY <2>2, <2>3
<1>7. CASE CommandSkips(c)
  <2>1. want' \in [Sessions -> SUBSET {"pause", "quit", "skip"}]
    BY <1>7, <1>7 DEF CommandSkips, SessionTypes, Tell
  <2>2. SessionTypes'
    BY <1>7, <2>1 DEF SessionTypes, session, monitor, engine, ui, CommandSkips, At, Refuses,
        Returns, Over
  <2>3. call' \in [Calls -> Records]
    BY <1>7, CallEdits DEF CallPcs, Methods, CommandSkips, At, Tell, Refuses
  <2>. QED BY <2>2, <2>3
<1>8. CASE CommandPends(c)
  <2>2. SessionTypes'
    BY <1>8, BoundsAreNat DEF SessionTypes, session, monitor, engine, ui, Live, Ended,
        NoSession, Sessions, Reporting, MonitorPcs, Methods, NotYet, Statuses, CommandPends,
        At, Returns, Over, CallGoes
  <2>3. call' \in [Calls -> Records]
    BY <1>8, CallEdits DEF CallPcs, Methods, CommandPends, At
  <2>. QED BY <2>2, <2>3
<1>9. CASE CommandControls(c)
  <2>1. want' \in [Sessions -> SUBSET {"pause", "quit", "skip"}]
    BY <1>9, ControlsTell, NotToldToSkip
  <2>2. SessionTypes'
    BY <1>9, <2>1 DEF SessionTypes, session, monitor, engine, ui, CommandControls, At, Refuses,
        CallGoes, Returns, Over
  <2>3. call' \in [Calls -> Records]
    BY <1>9, CallEdits DEF CallPcs, Methods, CommandControls, At, Refuses
  <2>. QED BY <2>2, <2>3
<1>10. CASE CommandSetsState(c)
  <2>2. SessionTypes'
    BY <1>10, BoundsAreNat DEF SessionTypes, session, monitor, engine, ui, Live, Ended,
        NoSession, Sessions, Reporting, MonitorPcs, Methods, NotYet, Statuses,
        CommandSetsState, At, SetState, CommandTells, Delivered, Undelivered, Returns, Over
  <2>3. call' \in [Calls -> Records]
    BY <1>10, CallEdits DEF CallPcs, Methods, CommandSetsState, At, SetState, CommandTells,
        Delivered, Undelivered
  <2>. QED BY <2>2, <2>3
<1>. QED BY <1>1, <1>2, <1>3, <1>4, <1>5, <1>6, <1>7, <1>8, <1>9, <1>10

(* What the commands that speak to the player leave alone. *)
LEMMA TellingLeaves ==
  ASSUME NEW c, CommandQuits(c) \/ CommandSkips(c) \/ CommandPends(c) \/ CommandControls(c)
  PROVE  /\ UNCHANGED <<started, slot, closing, dry, mon, seen, player, said>>
         /\ \E pc \in {"say", "control", "setstate"} : Returns(c) \/ CallGoes(c, pc)
         /\ call[c].pc # "closed"
<1>1. CASE CommandQuits(c)
  BY <1>1 DEF CommandQuits, session, monitor, ui, At
<1>2. CASE CommandSkips(c)
  BY <1>2 DEF CommandSkips, monitor, ui, At
<1>3. CASE CommandPends(c)
  BY <1>3 DEF CommandPends, monitor, engine, ui, At
<1>4. CASE CommandControls(c)
  BY <1>4 DEF CommandControls, monitor, ui, At
<1>. QED BY <1>1, <1>2, <1>3, <1>4

LEMMA TellingKeeps ==
  ASSUME PInv, NEW c \in Calls,
         CommandQuits(c) \/ CommandSkips(c) \/ CommandPends(c) \/ CommandControls(c)
  PROVE  SaidInv' /\ ShutInv'
<1>1. /\ UNCHANGED <<started, slot, closing, dry, mon, seen, player, said>>
      /\ call[c].pc # "closed"
  BY TellingLeaves
<1>2. PICK pc \in {"say", "control", "setstate"} : Returns(c) \/ CallGoes(c, pc)
  BY TellingLeaves
<1>3. call \in [Calls -> Records] /\ SaidInv /\ ShutInv
  BY DEF PInv, Types
<1>4. \A d \in Calls :
        \/ call'[d] = call[d]
        \/ call'[d].pc = "over" /\ call'[d].method = "none"
        \/ call'[d].pc = pc /\ call'[d].method = call[d].method /\ call'[d].s = call[d].s
           /\ call[d].pc # "closed"
  BY <1>1, <1>2, <1>3 DEF Returns, CallGoes, Over, NotYet, Records
<1>5. ShutInv'
  BY <1>1, <1>3, <1>4, ShutStays
<1>6. SaidInv'
  BY <1>1, <1>3 DEF SaidInv
<1>. QED BY <1>5, <1>6

LEMMA SkippingReports ==
  ASSUME PInv, NEW c \in Calls, CommandSkips(c)
  PROVE  ReportInv'
<1>1. /\ UNCHANGED <<mon, seen, player>>
      /\ skip' = [skip EXCEPT ![call[c].s] = TRUE]
      /\ stop' = [stop EXCEPT ![call[c].s] = @ \/ dry[call[c].s]]
      /\ \/ want' = want
         \/ want' = [want EXCEPT ![call[c].s] = @ \union {"skip"}]
  BY DEF CommandSkips, Tell, monitor
<1>2. /\ skip \in [Sessions -> BOOLEAN] /\ stop \in [Sessions -> BOOLEAN]
      /\ want \in [Sessions -> SUBSET {"pause", "quit", "skip"}] /\ ReportInv
  BY DEF PInv, Types, SessionTypes
<1>3. \A x \in Sessions :
        /\ (skip[x] \/ x = call[c].s) => skip'[x]
        /\ stop[x] => stop'[x]
        /\ "skip" \in want'[x] => "skip" \in want[x] \/ x = call[c].s
  BY <1>1, <1>2
<1>. QED BY <1>1, <1>2, <1>3 DEF ReportInv

LEMMA CommandKeeps ==
  ASSUME PInv, Types', NEW c \in Calls,
         CommandBegins(c) \/ CommandStops(c) \/ CommandSetsStopping(c) \/ CommandQuits(c)
           \/ CommandSays(c) \/ CommandForgets(c) \/ CommandSkips(c) \/ CommandPends(c)
           \/ CommandControls(c) \/ CommandSetsState(c)
  PROVE  PInv'
<1>a. CommandQuits(c) \/ CommandSkips(c) \/ CommandPends(c) \/ CommandControls(c)
        => SaidInv' /\ ShutInv'
  BY TellingKeeps
<1>b. CommandSkips(c) => ReportInv'
  BY SkippingReports
<1>. USE BoundsAreNat DEF PInv, Types, SlotInv, PlayerInv, ReportInv, SaidInv, ShutInv,
    SessionTypes, Held, Closing, Quiet, Records, CallPcs, session, monitor, engine, ui, Live,
    Ended, NoSession, Sessions, Reporting, MonitorPcs, Methods, NotYet, Statuses
<1>1. CASE CommandBegins(c)
  <2>. USE <1>1 DEF CommandBegins, Issued, Bounded, Calls, At, Admits, Begins
  <2>1. SlotInv' OBVIOUS
  <2>2. PlayerInv' OBVIOUS
  <2>3. ReportInv' OBVIOUS
  <2>4. SaidInv' OBVIOUS
  <2>5. ShutInv' OBVIOUS
  <2>. QED BY <2>1, <2>2, <2>3, <2>4, <2>5
<1>2. CASE CommandStops(c)
  <2>. USE <1>2 DEF CommandStops, At, CallGoes
  <2>1. SlotInv' OBVIOUS
  <2>2. PlayerInv' OBVIOUS
  <2>3. ReportInv' OBVIOUS
  <2>4. SaidInv' OBVIOUS
  <2>5. ShutInv' OBVIOUS
  <2>. QED BY <2>1, <2>2, <2>3, <2>4, <2>5
<1>3. CASE CommandSetsStopping(c)
  <2>. USE <1>3 DEF CommandSetsStopping, At, SetState, CallGoes
  <2>1. SlotInv' OBVIOUS
  <2>2. PlayerInv' OBVIOUS
  <2>3. ReportInv' OBVIOUS
  <2>4. SaidInv' OBVIOUS
  <2>5. ShutInv' OBVIOUS
  <2>. QED BY <2>1, <2>2, <2>3, <2>4, <2>5
<1>4. CASE CommandQuits(c)
  <2>. USE <1>4 DEF CommandQuits, At, Refuses, Returns, Over, CallGoes, Tell
  <2>1. SlotInv' OBVIOUS
  <2>2. PlayerInv' OBVIOUS
  <2>3. ReportInv'
    <3>1. want' = want \/ Tell(call[c].s, "quit")
      OBVIOUS
    <3>2. \A x \in Sessions : "skip" \in want'[x] => "skip" \in want[x]
      BY <3>1, NotToldToSkip DEF Types
    <3>3. UNCHANGED <<mon, seen, player, stop, skip>>
      OBVIOUS
    <3>. HIDE <1>4
    <3>. QED BY <3>2, <3>3
  <2>4. SaidInv' /\ ShutInv'
    BY <1>a
  <2>. QED BY <2>1, <2>2, <2>3, <2>4
<1>5. CASE CommandSays(c)
  <2>. USE <1>5 DEF CommandSays, At, CommandTells, Delivered, Undelivered, CallGoes, Returns,
      Over
  <2>1. SlotInv' OBVIOUS
  <2>2. PlayerInv' OBVIOUS
  <2>3. ReportInv' OBVIOUS
  <2>4. SaidInv' OBVIOUS
  <2>5. ShutInv'
    <3>1. Returns(c) \/ (CallGoes(c, "finish") /\ call[c].method = "shutdown")
      OBVIOUS
    <3>2. call[c].pc # "closed"
      OBVIOUS
    <3>3. \A d \in Calls :
            \/ call'[d] = call[d]
            \/ call'[d].pc = "over" /\ call'[d].method = "none"
            \/ /\ call'[d].pc = "finish" /\ call'[d].method = call[d].method
               /\ call'[d].s = call[d].s /\ call[d].pc # "closed"
               /\ call[d].method = "shutdown"
      BY <3>1, <3>2
    <3>4. UNCHANGED <<closing, dry, player>>
      OBVIOUS
    <3>. HIDE <1>5 DEF Records, SessionTypes, SlotInv, PlayerInv, ReportInv, SaidInv
    <3>. QED BY <3>3, <3>4, ShutStays
  <2>. QED BY <2>1, <2>2, <2>3, <2>4, <2>5
<1>6. CASE CommandForgets(c)
  <2>. USE <1>6 DEF CommandForgets, At, CallGoes
  <2>1. SlotInv' OBVIOUS
  <2>2. PlayerInv' OBVIOUS
  <2>3. ReportInv' OBVIOUS
  <2>4. SaidInv' OBVIOUS
  <2>5. ShutInv' OBVIOUS
  <2>. QED BY <2>1, <2>2, <2>3, <2>4, <2>5
<1>7. CASE CommandSkips(c)
  <2>. USE <1>7 DEF CommandSkips, At, Tell, Refuses, Returns, Over
  <2>1. SlotInv' OBVIOUS
  <2>2. PlayerInv' OBVIOUS
  <2>3. ReportInv'
    BY <1>b
  <2>4. SaidInv' /\ ShutInv'
    BY <1>a
  <2>. QED BY <2>1, <2>2, <2>3, <2>4
<1>8. CASE CommandPends(c)
  <2>. USE <1>8 DEF CommandPends, At, Returns, Over, CallGoes
  <2>1. SlotInv' OBVIOUS
  <2>2. PlayerInv' OBVIOUS
  <2>3. ReportInv' OBVIOUS
  <2>4. SaidInv' /\ ShutInv'
    BY <1>a
  <2>. QED BY <2>1, <2>2, <2>3, <2>4
<1>9. CASE CommandControls(c)
  <2>. USE <1>9 DEF CommandControls, At, Refuses, CallGoes, Returns, Over
  <2>1. SlotInv' OBVIOUS
  <2>2. PlayerInv' OBVIOUS
  <2>3. ReportInv'
    <3>1. \/ want' = want
          \/ Tell(call[c].s, "pause")
          \/ want' = [want EXCEPT ![call[c].s] = @ \ {"pause"}]
      BY ControlsTell
    <3>2. \A x \in Sessions : "skip" \in want'[x] => "skip" \in want[x]
      BY <3>1, NotToldToSkip DEF Types
    <3>3. UNCHANGED <<mon, seen, player, stop, skip>>
      OBVIOUS
    <3>. HIDE <1>9
    <3>. QED BY <3>2, <3>3
  <2>4. SaidInv' /\ ShutInv'
    BY <1>a
  <2>. QED BY <2>1, <2>2, <2>3, <2>4
<1>10. CASE CommandSetsState(c)
  <2>. USE <1>10 DEF CommandSetsState, At, SetState, CommandTells, Delivered, Undelivered,
      Returns, Over
  <2>1. SlotInv' OBVIOUS
  <2>2. PlayerInv' OBVIOUS
  <2>3. ReportInv' OBVIOUS
  <2>4. SaidInv' OBVIOUS
  <2>5. ShutInv' OBVIOUS
  <2>. QED BY <2>1, <2>2, <2>3, <2>4, <2>5
<1>. QED BY <1>1, <1>2, <1>3, <1>4, <1>5, <1>6, <1>7, <1>8, <1>9, <1>10

(* The shutdown. *)
LEMMA ShutdownTypes ==
  ASSUME Types, NEW c \in Calls,
         ShutdownCloses(c) \/ ShutdownLooks(c) \/ ShutdownJoins(c) \/ ShutdownReturns(c)
  PROVE  Types'
<1>. USE DEF Types
<1>1. CASE ShutdownCloses(c)
  <2>2. SessionTypes'
    BY <1>1, BoundsAreNat DEF SessionTypes, session, monitor, engine, ui, Live, Ended,
        NoSession, Sessions, Reporting, MonitorPcs, Methods, NotYet, Statuses, ShutdownCloses,
        Issued, Bounded, Calls, At
  <2>3. call' \in [Calls -> Records]
    <3>1. [NotYet EXCEPT !.pc = "lookup"] \in Records
      BY DEF Records, NotYet, CallPcs
    <3>. QED BY <1>1, <3>1, CallEdits DEF ShutdownCloses
  <2>. QED BY <2>2, <2>3
<1>2. CASE ShutdownLooks(c)
  <2>2. SessionTypes'
    BY <1>2, BoundsAreNat DEF SessionTypes, session, monitor, engine, ui, Live, Ended,
        NoSession, Sessions, Reporting, MonitorPcs, Methods, NotYet, Statuses, ShutdownLooks,
        At, Looks, Begins
  <2>3. call' \in [Calls -> Records]
    <3>1. PICK pc \in {"closed", "stop", "onlystop"} :
               call' = [call EXCEPT ![c] = [pc |-> pc, method |-> "shutdown", s |-> slot]]
      BY <1>2, <1>2 DEF ShutdownLooks, Looks, Begins
    <3>2. [pc |-> pc, method |-> "shutdown", s |-> slot] \in Records
      BY DEF Records, SessionTypes, CallPcs, Methods
    <3>. QED BY <3>1, <3>2, CallEdits
  <2>. QED BY <2>2, <2>3
<1>3. CASE ShutdownJoins(c)
  <2>2. SessionTypes'
    BY <1>3, BoundsAreNat DEF SessionTypes, session, monitor, engine, ui, Live, Ended,
        NoSession, Sessions, Reporting, MonitorPcs, Methods, NotYet, Statuses, ShutdownJoins,
        At, Joined, Ends, CallGoes
  <2>3. call' \in [Calls -> Records]
    BY <1>3, CallEdits DEF CallPcs, Methods, ShutdownJoins, At, Joined, Ends
  <2>. QED BY <2>2, <2>3
<1>4. CASE ShutdownReturns(c)
  <2>2. SessionTypes'
    BY <1>4, BoundsAreNat DEF SessionTypes, session, monitor, engine, ui, Live, Ended,
        NoSession, Sessions, Reporting, MonitorPcs, Methods, NotYet, Statuses, ShutdownReturns,
        At
  <2>3. call' \in [Calls -> Records]
    <3>1. call' = [call EXCEPT ![c] = [@ EXCEPT !.pc = "closed", !.s = NoSession]]
      BY <1>4, <1>4 DEF ShutdownReturns, Records
    <3>2. [call[c] EXCEPT !.pc = "closed", !.s = NoSession] \in Records
      BY DEF Records, CallPcs
    <3>. QED BY <3>1, <3>2, CallEdits
  <2>. QED BY <2>2, <2>3
<1>. QED BY <1>1, <1>2, <1>3, <1>4

LEMMA JoiningShuts ==
  ASSUME PInv, NEW c \in Calls, ShutdownJoins(c)
  PROVE  ShutInv'
<1>. DEFINE StillQuiet(x) == dry'[x] \/ player'[x] \notin Live
<1>1. /\ call[c].pc = "finish" /\ Joined(call[c].s) /\ CallGoes(c, "await")
      /\ UNCHANGED <<closing, dry>>
  BY DEF ShutdownJoins, At, session
<1>2. SessionTypes /\ call \in [Calls -> Records] /\ ShutInv
  BY DEF PInv, Types
<1>3. call[c].s \in Sessions
  <2>1. call[c].method = "shutdown" /\ call[c].s # NoSession
    BY <1>1, <1>2 DEF ShutInv
  <2>2. call[c] \in Records
    BY <1>2
  <2>. QED BY <2>1, <2>2 DEF Records
<1>4. /\ StillQuiet(call[c].s)
      /\ \A x \in Sessions : Quiet(x) => StillQuiet(x)
  BY <1>1, <1>2, <1>3, JoinedIsQuiet DEF Quiet
<1>5. /\ call'[c].pc = "await" /\ call'[c].method = call[c].method /\ call'[c].s = call[c].s
      /\ \A d \in Calls \ {c} : call'[d] = call[d]
  BY <1>1, <1>2 DEF CallGoes, Records
<1> SUFFICES ASSUME NEW d \in Calls
             PROVE  /\ (call'[d].pc = "lookup" \/ call'[d].method = "shutdown") => closing
                    /\ call'[d].method = "shutdown" =>
                         \A s \in Sessions \ {call'[d].s} : StillQuiet(s)
                    /\ call'[d].pc \in {"onlystop", "finish", "await", "closed"}
                         => call'[d].method = "shutdown"
                    /\ (call'[d].method = "shutdown" /\ call'[d].pc # "closed")
                         => call'[d].s # NoSession
                    /\ call'[d].pc = "await" => StillQuiet(call'[d].s)
                    /\ call'[d].pc = "closed" => call'[d].s = NoSession
  BY <1>1 DEF ShutInv, Quiet
<1>. HIDE DEF StillQuiet
<1>6. CASE d = c
  BY <1>1, <1>2, <1>4, <1>5, <1>6 DEF ShutInv
<1>7. CASE d # c
  <2>1. call'[d] = call[d]
    BY <1>5, <1>7
  <2>2. call[d].pc = "await" => call[d].s \in Sessions
    <3>1. call[d] \in Records
      BY <1>2
    <3>. QED BY <3>1, <1>2 DEF Records, ShutInv
  <2>. QED BY <1>2, <1>4, <2>1, <2>2 DEF ShutInv
<1>. QED BY <1>6, <1>7

LEMMA ShutdownKeeps ==
  ASSUME PInv, Types', NEW c \in Calls,
         ShutdownCloses(c) \/ ShutdownLooks(c) \/ ShutdownJoins(c) \/ ShutdownReturns(c)
  PROVE  PInv'
<1>a. ShutdownJoins(c) => ShutInv'
  BY JoiningShuts
<1>. USE BoundsAreNat DEF PInv, Types, SlotInv, PlayerInv, ReportInv, SaidInv, ShutInv,
    SessionTypes, Held, Closing, Quiet, Records, CallPcs, session, monitor, engine, ui, Live,
    Ended, NoSession, Sessions, Reporting, MonitorPcs, Methods, NotYet, Statuses
<1>1. CASE ShutdownCloses(c)
  <2>. USE <1>1 DEF ShutdownCloses, Issued, Bounded, Calls, At
  <2>1. SlotInv' OBVIOUS
  <2>2. PlayerInv' OBVIOUS
  <2>3. ReportInv' OBVIOUS
  <2>4. SaidInv' OBVIOUS
  <2>5. ShutInv' OBVIOUS
  <2>. QED BY <2>1, <2>2, <2>3, <2>4, <2>5
<1>2. CASE ShutdownLooks(c)
  <2>. USE <1>2 DEF ShutdownLooks, At, Looks, Begins
  <2>1. SlotInv' OBVIOUS
  <2>2. PlayerInv' OBVIOUS
  <2>3. ReportInv' OBVIOUS
  <2>4. SaidInv' OBVIOUS
  <2>5. ShutInv' OBVIOUS
  <2>. QED BY <2>1, <2>2, <2>3, <2>4, <2>5
<1>3. CASE ShutdownJoins(c)
  <2>. USE <1>3 DEF ShutdownJoins, At, Joined, Ends, CallGoes
  <2>1. SlotInv' OBVIOUS
  <2>2. PlayerInv' OBVIOUS
  <2>3. ReportInv' OBVIOUS
  <2>4. SaidInv' OBVIOUS
  <2>5. ShutInv'
    BY <1>a
  <2>. QED BY <2>1, <2>2, <2>3, <2>4, <2>5
<1>4. CASE ShutdownReturns(c)
  <2>. USE <1>4 DEF ShutdownReturns, At
  <2>1. SlotInv' OBVIOUS
  <2>2. PlayerInv' OBVIOUS
  <2>3. ReportInv' OBVIOUS
  <2>4. SaidInv' OBVIOUS
  <2>5. ShutInv' OBVIOUS
  <2>. QED BY <2>1, <2>2, <2>3, <2>4, <2>5
<1>. QED BY <1>1, <1>2, <1>3, <1>4

-----------------------------------------------------------------------------
(* No session has been started and no command given. *)
LEMMA InitHolds == Init => PInv
<1>. SUFFICES ASSUME Init PROVE PInv
  OBVIOUS
<1>. USE BoundsAreNat DEF Init, Sessions, NoSession, Live, Ended, Statuses, Reporting, Methods
<1>1. SessionTypes
  BY DEF SessionTypes, MonitorPcs
<1>2. call \in [Calls -> Records]
  BY DEF NotYet, Records, CallPcs
<1>3. SlotInv /\ PlayerInv /\ ReportInv /\ SaidInv /\ ShutInv
  BY DEF SlotInv, PlayerInv, ReportInv, SaidInv, ShutInv, Held, Closing, Quiet, NotYet
<1>. QED BY <1>1, <1>2, <1>3 DEF PInv, Types

(* Every step is one of the groups above, or changes nothing. *)
LEMMA StepKeeps == PInv /\ [Next]_vars => PInv'
<1>. SUFFICES ASSUME PInv, [Next]_vars PROVE PInv'
  OBVIOUS
<1>t. Types
  BY DEF PInv
<1>1. ASSUME NEW s \in Sessions, Start(s) \/ StartFails(s) \/ StartPublishes(s) \/ Unstart(s)
      PROVE  PInv'
  BY <1>t, <1>1, StartTypes, StartKeeps
<1>2. ASSUME NEW s \in Sessions, MonitorStep(s) \/ SnapshotFails(s)
      PROVE  PInv'
  BY <1>t, <1>2, MonitorTypes, MonitorKeeps DEF MonitorStep
<1>3. ASSUME NEW s \in Sessions,
             \/ PlayerPauses(s) \/ PlayerLosesFocus(s) \/ PlayerPlays(s)
             \/ PlayerObeys(s) \/ PlayerEnds(s)
      PROVE  PInv'
  BY <1>t, <1>3, PlayerTypes, PlayerKeeps
<1>4. ASSUME NEW c \in Calls, CommandBegins(c) \/ ShutdownCloses(c) \/ CommandStep(c)
      PROVE  PInv'
  BY <1>t, <1>4, CommandTypes, CommandKeeps, ShutdownTypes, ShutdownKeeps DEF CommandStep
<1>5. CASE UNCHANGED vars
  BY <1>5 DEF vars, session, monitor, engine, ui, PInv, Types, SessionTypes, SlotInv, PlayerInv,
              ReportInv, SaidInv, ShutInv, Quiet
<1>. QED BY <1>1, <1>2, <1>3, <1>4, <1>5 DEF Next

(* What holds at first and is kept by every step holds always. *)
LEMMA Invariance == Spec => []PInv
BY InitHolds, StepKeeps, PTL DEF Spec

(* In every state no player is left that could still press keys without a  *)
(* supervisor, and none once a shutdown has returned, for any number of    *)
(* sessions and commands (native_runtime.rs:3486-3600, 3840-3876).         *)
THEOREM NoPlayerIsLeft == Spec => []PlayersAreOwned
<1>1. PInv => PlayersAreOwned
  <2>. SUFFICES ASSUME PInv PROVE PlayersAreOwned
    OBVIOUS
  <2>1. NoOrphanPlayer
    BY DEF PInv, PlayerInv, NoOrphanPlayer, Closing, Quiet
  <2>2. ASSUME NEW c \in Calls, At(c, "closed"), NEW s \in Sessions
        PROVE  dry[s] \/ player[s] \notin Live
    <3>1. call[c].method = "shutdown" /\ call[c].s = NoSession
      BY <2>2 DEF PInv, ShutInv, At
    <3>2. s \in Sessions \ {call[c].s}
      BY <3>1, BoundsAreNat DEF Sessions, NoSession
    <3>. QED BY <3>1, <3>2 DEF PInv, ShutInv, Quiet
  <2>. QED BY <2>1, <2>2 DEF PlayersAreOwned, ShutdownSilences
<1>. QED BY <1>1, Invariance, PTL

-----------------------------------------------------------------------------
(* Who tells the user interface something is the session in the slot, with  *)
(* its outcome justified, or the start that has just failed.                *)
LEMMA WhoSpeaks ==
  ASSUME PInv, Next, said' # said
  PROVE  \E s \in Sessions :
           /\ said'[1] = s
           /\ \/ s = started + 1
              \/ slot = s /\ mon[s] \notin {"none", "leave", "record", "over"}
           /\ said'[2] = "outcome" => Justified(s, said'[3])
<1>. USE BoundsAreNat DEF Tells, Delivered, Undelivered, Sessions, NoSession
<1>. DEFINE Speaks(s) ==
       /\ said'[1] = s
       /\ \/ s = started + 1
          \/ slot = s /\ mon[s] \notin {"none", "leave", "record", "over"}
       /\ said'[2] = "outcome" => Justified(s, said'[3])
<1>1. ASSUME NEW s \in Sessions, StartFails(s)
      PROVE  Speaks(s)
  <2>1. said' = <<s, "outcome", "failed">> /\ s = started + 1
    BY <1>1 DEF StartFails
  <2>2. player[s] = "none"
    BY <2>1 DEF PInv, Types, SessionTypes, SlotInv, PlayerInv
  <2>. QED BY <2>1, <2>2 DEF Justified
<1>2. ASSUME NEW s \in Sessions,
             StartPublishes(s) \/ MonitorStops(s) \/ MonitorEnds(s) \/ MonitorAnnounces(s)
      PROVE  Speaks(s)
  <2>1. said'[1] = s /\ said'[2] = "state"
    BY <1>2 DEF StartPublishes, MonitorStops, MonitorEnds, MonitorAnnounces, Then
  <2>2. mon[s] \in {"born", "loop", "terminal", "announce"}
    BY <1>2 DEF StartPublishes, MonitorStops, MonitorEnds, MonitorAnnounces
  <2>. QED BY <2>1, <2>2 DEF PInv, SlotInv, Held
<1>3. ASSUME NEW s \in Sessions, MonitorReports(s)
      PROVE  Speaks(s)
  <2>1. said' = <<s, "outcome", Verdict(s)>>
    BY <1>3 DEF MonitorReports, Then
  <2>2. mon[s] \in Reporting
    BY <1>3 DEF MonitorReports
  <2>3. slot = s /\ mon[s] \notin {"none", "leave", "record", "over"}
    BY <2>2 DEF PInv, SlotInv, Held, Reporting
  <2>4. Justified(s, Verdict(s))
    BY <2>2 DEF PInv, ReportInv, Reporting, Verdict, Justified, Ended
  <2>. QED BY <2>1, <2>3, <2>4
<1>4. ASSUME NEW s \in Sessions,
             \/ Start(s) \/ Unstart(s) \/ MonitorFails(s) \/ MonitorPolls(s) \/ MonitorSetsState(s)
             \/ MonitorLeaves(s) \/ MonitorRecords(s) \/ SnapshotFails(s) \/ PlayerPauses(s)
             \/ PlayerLosesFocus(s) \/ PlayerPlays(s) \/ PlayerObeys(s) \/ PlayerEnds(s)
      PROVE  said' = said
  BY <1>4 DEF Start, Started, Unstart, MonitorFails, MonitorPolls, MonitorSetsState, MonitorLeaves,
              MonitorRecords, SnapshotFails, PlayerPauses, PlayerLosesFocus, PlayerPlays, PlayerObeys,
              PlayerEnds, ui
<1>5. ASSUME NEW c \in Calls, CommandBegins(c) \/ ShutdownCloses(c) \/ CommandStep(c)
      PROVE  said' = said
  BY <1>5 DEF CommandBegins, ShutdownCloses, CommandStep, CommandStops, CommandSetsStopping,
              CommandQuits, CommandSays, CommandTells, CommandForgets, CommandSkips, CommandPends,
              CommandControls, CommandSetsState, ShutdownLooks, ShutdownJoins, ShutdownReturns, ui
<1>. QED BY <1>1, <1>2, <1>3, <1>4, <1>5 DEF Next, MonitorStep

(* In every behaviour the user interface hears of one session after the     *)
(* other, the outcome last, and the outcome is what the player did or the   *)
(* user asked for (native_runtime.rs, monitor).                             *)
THEOREM TheReportsAreInOrder == Spec => ReportsAreInOrder
<1>1. PInv /\ [Next]_vars => [said'[1] >= said[1]]_said
  <2>. SUFFICES ASSUME PInv, Next, said' # said PROVE said'[1] >= said[1]
    BY DEF vars, ui
  <2>1. PICK s \in Sessions : said'[1] = s /\ (s = started + 1 \/ slot = s)
    BY WhoSpeaks
  <2>2. s = started + 1 \/ s = started
    BY <2>1, BoundsAreNat DEF PInv, SlotInv, Sessions, NoSession
  <2>. QED BY <2>1, <2>2, BoundsAreNat DEF PInv, Types, SessionTypes, SaidInv, Sessions
<1>2. PInv /\ [Next]_vars => [said[2] = "outcome" => said'[1] # said[1]]_said
  <2>. SUFFICES ASSUME PInv, Next, said' # said, said[2] = "outcome" PROVE said'[1] # said[1]
    BY DEF vars, ui
  <2>1. PICK s \in Sessions :
          /\ said'[1] = s
          /\ s = started + 1 \/ mon[s] \notin {"none", "leave", "record", "over"}
    BY WhoSpeaks
  <2>. QED BY <2>1, BoundsAreNat DEF PInv, Types, SessionTypes, SaidInv, Sessions
<1>3. PInv /\ [Next]_vars => [said'[2] = "outcome" => Justified(said'[1], said'[3])]_said
  BY WhoSpeaks DEF vars, ui
<1>. QED
  BY <1>1, <1>2, <1>3, Invariance, PTL
     DEF Spec, ReportsAreInOrder, SessionsDoNotInterleave, ReportIsLast, OutcomeIsTrue

(***************************************************************************)
(* The store's view of the library: the invariant.                         *)
(***************************************************************************)
Kinds == {"page", "detail", "prepare", "reload", "import", "patch"}

Requests ==
  [kind : Kinds, view : Views \cup {NoView}, song : Songs \cup {NoSong}, page : Pages,
   gen : Generations, config : Nat, fresh : BOOLEAN, awaited : BOOLEAN, watched : BOOLEAN,
   status : {"sent", "ok", "installed"}, got : Nat]

(* Only a request that may replace the catalogue can be found installed. *)
StoreCalls == {c \in Requests : c.status = "installed" => c.kind \in {"reload", "import"}}

Keys == Views \X Generations \X Pages

Libraries ==
  [view : Views, generation : Generations, pages : SUBSET Keys, found : BOOLEAN,
   loading : BOOLEAN, error : BOOLEAN, selected : Songs \cup {NoSong}]

Details == [Songs -> [state : {"idle", "loading", "ready", "fatal"}, gen : Nat]]

StoreTypes ==
  /\ lib \in Libraries
  /\ cache \subseteq Keys
  /\ calls \subseteq StoreCalls
  /\ detail \in Details
  /\ settings \in Nat /\ stored \in Nat
  /\ served \in Generations
  /\ announced \subseteq Generations

(* A change of the settings that the native side has made is on its way. *)
PatchDone == \E c \in calls : c.kind = "patch" /\ c.status = "ok"

PageCallsInv ==
  \A c \in calls : c.kind = "page" =>
    /\ c.view \in Views
    /\ c.status = "ok" => c.got = c.gen
    /\ c.fresh => c.view = lib.view
    /\ c.awaited => c.view = lib.view /\ c.gen = lib.generation

DetailCallsInv ==
  \A c \in calls : c.kind = "detail" =>
    /\ c.song \in Songs
    /\ c.status = "ok" => c.got = c.gen
    /\ c.fresh => c.gen = lib.generation

PlanCallsInv ==
  \A c \in calls : c.kind = "prepare" =>
    /\ c.fresh => c.config = settings
    /\ c.fresh /\ c.status = "ok" => c.got = stored \/ PatchDone

(* The loading flag's reason. *)
Loads ==
  \/ \E c \in calls : c.kind = "page" /\ c.awaited
  \/ \E c \in calls : c.kind = "reload" /\ (c.status = "sent" \/ (c.status = "installed" /\ c.got > lib.generation))
  \/ \E g \in announced : g > lib.generation
LoadingInv == lib.loading => Loads

PlanInv ==
  prepared # Unprepared =>
    /\ prepared.song = lib.selected /\ prepared.gen = lib.generation /\ prepared.config = settings
    /\ prepared.made = stored \/ PatchDone

Newest(c) == c.got = served /\ (c.status = "installed" \/ (c.kind = "import" /\ c.status = "ok"))
CatalogInv ==
  /\ lib.generation \leq served
  /\ \A g \in announced : g \leq served
  /\ \A c \in calls : c.kind \in {"reload", "import"} /\ c.status # "sent" => c.got \in 1..served
  /\ served > lib.generation => served \in announced \/ \E c \in calls : c.kind \in {"reload", "import"} /\ Newest(c)

StoreInv ==
  /\ StoreTypes
  /\ PageCallsInv /\ DetailCallsInv /\ PlanCallsInv
  /\ PagesAnswerTheQuery /\ LoadingInv /\ DetailIsAwaited /\ PlanInv
  /\ CatalogInv

(***************************************************************************)
(* Requests: what the edits of a request change and what they keep.        *)
(***************************************************************************)
(* The same request, whatever has become of its answer and its tokens. *)
SameRequest(c, d) ==
  /\ d.kind = c.kind /\ d.view = c.view /\ d.song = c.song
  /\ d.page = c.page /\ d.gen = c.gen /\ d.config = c.config

SameTokens(c, d) == d.fresh = c.fresh /\ d.awaited = c.awaited /\ d.watched = c.watched
SameAnswer(c, d) == d.status = c.status /\ d.got = c.got

Expired(c) == [c EXCEPT !.fresh = FALSE, !.awaited = FALSE, !.watched = FALSE]

LEMMA StoreCallEdits ==
  ASSUME NEW c \in StoreCalls
  PROVE  /\ Expired(c) \in StoreCalls
         /\ SameRequest(c, Expired(c)) /\ SameAnswer(c, Expired(c))
         /\ ~Expired(c).fresh /\ ~Expired(c).awaited
         /\ [c EXCEPT !.awaited = TRUE] \in StoreCalls
         /\ SameRequest(c, [c EXCEPT !.awaited = TRUE]) /\ SameAnswer(c, [c EXCEPT !.awaited = TRUE])
         /\ [c EXCEPT !.awaited = TRUE].awaited /\ [c EXCEPT !.awaited = TRUE].fresh = c.fresh
         /\ [c EXCEPT !.watched = TRUE] \in StoreCalls
         /\ SameRequest(c, [c EXCEPT !.watched = TRUE]) /\ SameAnswer(c, [c EXCEPT !.watched = TRUE])
         /\ [c EXCEPT !.watched = TRUE].awaited = c.awaited /\ [c EXCEPT !.watched = TRUE].fresh = c.fresh
  BY DEF StoreCalls, Requests, Expired, SameRequest, SameAnswer

LEMMA StoreCallFields ==
  ASSUME NEW c \in StoreCalls
  PROVE  /\ c.kind \in Kinds /\ c.view \in Views \cup {NoView} /\ c.song \in Songs \cup {NoSong}
         /\ c.page \in Pages /\ c.gen \in Generations /\ c.config \in Nat
         /\ c.fresh \in BOOLEAN /\ c.awaited \in BOOLEAN /\ c.watched \in BOOLEAN
         /\ c.status \in {"sent", "ok", "installed"} /\ c.got \in Nat
         /\ c.status = "installed" => c.kind \in {"reload", "import"}
  BY DEF StoreCalls, Requests

LEMMA LibFields ==
  ASSUME NEW l \in Libraries
  PROVE  /\ l.view \in Views /\ l.generation \in Generations /\ l.pages \in SUBSET Keys
         /\ l.found \in BOOLEAN /\ l.loading \in BOOLEAN /\ l.error \in BOOLEAN
         /\ l.selected \in Songs \cup {NoSong}
  BY DEF Libraries

(* A new request of the store. *)
IsNew(d, kind) ==
  /\ d \in StoreCalls /\ d.kind = kind /\ d.gen = lib.generation /\ d.config = settings
  /\ d.fresh = TRUE /\ ~d.awaited /\ d.status = "sent"

LEMMA RequestIs ==
  ASSUME StoreTypes, NEW kind \in Kinds
  PROVE  /\ IsNew(Request(kind), kind)
         /\ \A s \in Songs \cup {NoSong} :
              /\ IsNew([Request(kind) EXCEPT !.song = s], kind)
              /\ [Request(kind) EXCEPT !.song = s].song = s
<1>1. lib.generation \in Generations /\ settings \in Nat
  BY LibFields DEF StoreTypes
<1>2. NoView \in Views \cup {NoView} /\ NoSong \in Songs \cup {NoSong} /\ 0 \in Pages /\ 0 \in Nat
  BY DEF Pages
<1> QED  BY <1>1, <1>2 DEF IsNew, Request, StoreCalls, Requests

LEMMA PageRequestIs ==
  ASSUME StoreTypes, NEW v \in Views, NEW g \in Generations, NEW page \in Pages
  PROVE  /\ PageRequest(v, g, page) \in StoreCalls
         /\ PageRequest(v, g, page).kind = "page" /\ PageRequest(v, g, page).view = v
         /\ PageRequest(v, g, page).gen = g /\ PageRequest(v, g, page).status = "sent"
         /\ ~PageRequest(v, g, page).awaited
<1>1. lib.generation \in Generations /\ settings \in Nat
  BY LibFields DEF StoreTypes
<1>2. NoView \in Views \cup {NoView} /\ NoSong \in Songs \cup {NoSong} /\ 0 \in Pages /\ 0 \in Nat
      /\ "page" \in Kinds
  BY DEF Pages, Kinds
<1> QED  BY <1>1, <1>2 DEF PageRequest, Request, StoreCalls, Requests

LEMMA OutdatedIs ==
  ASSUME NEW cs, cs \subseteq StoreCalls, NEW kinds
  PROVE  /\ Outdated(cs, kinds) \subseteq StoreCalls
         /\ \A d \in Outdated(cs, kinds) : \E c \in cs :
              /\ SameRequest(c, d) /\ SameAnswer(c, d)
              /\ c.kind \in kinds => ~d.fresh /\ ~d.awaited
              /\ c.kind \notin kinds => d = c
         /\ \A c \in cs : c.kind \notin kinds => c \in Outdated(cs, kinds)
<1>1. Outdated(cs, kinds) = {IF c.kind \in kinds THEN Expired(c) ELSE c : c \in cs}
  BY DEF Outdated, Expired
<1>2. \A c \in StoreCalls : SameRequest(c, c) /\ SameAnswer(c, c)
  BY DEF SameRequest, SameAnswer
<1>3. \A c \in cs : Expired(c) \in StoreCalls /\ SameRequest(c, Expired(c)) /\ SameAnswer(c, Expired(c))
                   /\ ~Expired(c).fresh /\ ~Expired(c).awaited
  BY StoreCallEdits
<1> QED  BY <1>1, <1>2, <1>3

LEMMA BecomesIs ==
  ASSUME calls \subseteq StoreCalls, NEW c \in calls, NEW status \in {"sent", "ok", "installed"},
         NEW got \in Nat, Becomes(c, status, got),
         status = "installed" => c.kind \in {"reload", "import"}
  PROVE  \E d \in StoreCalls : /\ calls' = (calls \ {c}) \cup {d}
                          /\ SameRequest(c, d) /\ SameTokens(c, d) /\ d.status = status /\ d.got = got
<1> DEFINE d == [c EXCEPT !.status = status, !.got = got]
<1>0. c \in StoreCalls
  OBVIOUS
<1>1. d \in StoreCalls /\ SameRequest(c, d) /\ SameTokens(c, d) /\ d.status = status /\ d.got = got
  BY <1>0 DEF StoreCalls, Requests, SameRequest, SameTokens
<1>2. calls' = (calls \ {c}) \cup {d}
  BY DEF Becomes
<1> QED  BY <1>1, <1>2

(***************************************************************************)
(* The search.                                                             *)
(***************************************************************************)
LEMMA AskedIs ==
  ASSUME NEW l \in Libraries, NEW v \in Views
  PROVE  /\ Asked(l, v) \in Libraries
         /\ Asked(l, v).view = v /\ Asked(l, v).generation = l.generation
         /\ Asked(l, v).selected = l.selected /\ Asked(l, v).pages = {}
  BY DEF Libraries, Asked

LEMMA CompletedIs ==
  ASSUME NEW l \in Libraries, NEW g \in Generations
  PROVE  /\ Completed(l, g) \in Libraries
         /\ Completed(l, g).view = l.view /\ Completed(l, g).generation = g
         /\ Completed(l, g).selected = l.selected /\ Completed(l, g).pages = l.pages
         /\ ~Completed(l, g).loading
  BY DEF Libraries, Completed

LEMMA RefusedIs ==
  ASSUME NEW l \in Libraries
  PROVE  /\ Refused(l) \in Libraries
         /\ Refused(l).view = l.view /\ Refused(l).generation = l.generation
         /\ Refused(l).selected = l.selected /\ Refused(l).pages = l.pages /\ ~Refused(l).loading
  BY DEF Libraries, Refused

Merged(l, key) == MergePage(l, key, TRUE)

LEMMA MergeIs ==
  ASSUME NEW l \in Libraries, NEW key \in Keys, NEW m, m = Merged(l, key)
  PROVE  /\ m \in Libraries
         /\ m.view = l.view /\ m.generation = l.generation /\ m.selected = l.selected
         /\ m.loading = l.loading
         /\ \A p \in m.pages : p \in l.pages \/ (key[2] = l.generation /\ p = key)
<1> DEFINE rest == {p \in l.pages : p[3] # key[3]} \cup {key}
<1>2. l.pages \in SUBSET Keys
  BY LibFields
<1>3. rest \in SUBSET Keys
  BY <1>2
<1>5. CASE l.generation = key[2]
  <2>1. m = [l EXCEPT !.pages = rest, !.found = TRUE]
    BY <1>5 DEF Merged, MergePage
  <2> HIDE DEF rest
  <2>2. /\ m \in Libraries
        /\ m.view = l.view /\ m.generation = l.generation /\ m.selected = l.selected
        /\ m.loading = l.loading
        /\ m.pages = rest
    BY <1>3, <2>1 DEF Libraries
  <2>3. \A p \in rest : p \in l.pages \/ p = key
    BY DEF rest
  <2> QED  BY <2>1, <2>2, <2>3, <1>5
<1>6. CASE l.generation # key[2]
  BY <1>6 DEF Merged, MergePage
<1> QED  BY <1>5, <1>6

(* What a search for v in the library l leaves, among the requests cs. *)
Searched(l, cs, v) ==
  /\ lib' \in Libraries /\ calls' \subseteq StoreCalls
  /\ lib'.view = v /\ lib'.generation = l.generation /\ lib'.selected = l.selected
  /\ \A p \in lib'.pages : p = <<v, l.generation, 0>>
  /\ \A d \in calls' : d.kind # "page" => d \in cs
  /\ \A d \in cs : d.kind # "page" => d \in calls'
  /\ \A d \in calls' : d.kind = "page" =>
       /\ \/ d.view = v /\ d.status = "sent"
          \/ ~d.fresh /\ \E c \in cs : c.kind = "page" /\ SameRequest(c, d) /\ SameAnswer(c, d)
       /\ d.awaited => d.view = v /\ d.gen = l.generation
  /\ lib'.loading => \E c \in calls' : c.kind = "page" /\ c.awaited

LEMMA SearchIs ==
  ASSUME StoreTypes, NEW l \in Libraries, NEW cs, cs \subseteq StoreCalls, NEW v \in Views, Search(l, cs, v)
  PROVE  Searched(l, cs, v)
<1> DEFINE key  == <<v, l.generation, 0>>
           past == Outdated(cs, {"page"})
           way  == InFlight(past, v, l.generation, 0)
<1>1. past \subseteq StoreCalls
      /\ (\A d \in past : d.kind # "page" => d \in cs)
      /\ (\A d \in cs : d.kind # "page" => d \in past)
      /\ (\A d \in past : d.kind = "page" =>
            /\ ~d.fresh /\ ~d.awaited
            /\ \E c \in cs : c.kind = "page" /\ SameRequest(c, d) /\ SameAnswer(c, d))
  <2> HIDE DEF past
  <2>1. past \subseteq StoreCalls
    BY OutdatedIs DEF past
  <2>2. \A d \in cs : d.kind # "page" => d \in past
    BY OutdatedIs DEF past
  <2>3. ASSUME NEW d \in past
        PROVE  /\ d.kind # "page" => d \in cs
               /\ d.kind = "page" =>
                    /\ ~d.fresh /\ ~d.awaited
                    /\ \E c \in cs : c.kind = "page" /\ SameRequest(c, d) /\ SameAnswer(c, d)
    <3>1. PICK c \in cs : /\ SameRequest(c, d) /\ SameAnswer(c, d)
                          /\ c.kind \in {"page"} => ~d.fresh /\ ~d.awaited
                          /\ c.kind \notin {"page"} => d = c
      BY OutdatedIs DEF past
    <3>2. d.kind = c.kind
      BY <3>1 DEF SameRequest
    <3> QED  BY <3>1, <3>2
  <2> QED  BY <2>1, <2>2, <2>3
<1>2. l.generation \in Generations /\ 0 \in Pages
  BY LibFields DEF Pages
<1>3. Asked(l, v) \in Libraries /\ Asked(l, v).view = v /\ Asked(l, v).generation = l.generation
      /\ Asked(l, v).selected = l.selected /\ Asked(l, v).pages = {}
  BY AskedIs
<1>4. CASE key \in cache
  <2>1. lib' = Completed(Merged(Asked(l, v), key), l.generation) /\ calls' = past
    BY <1>4 DEF Search, Merged
  <2> DEFINE m == Merged(Asked(l, v), key)
  <2>2. /\ m \in Libraries /\ m.view = v /\ m.selected = l.selected
        /\ \A p \in m.pages : p = key
    <3>1. key \in Keys /\ m = Merged(Asked(l, v), key)
      BY <1>2 DEF Keys
    <3> HIDE DEF key, m
    <3>2. /\ m \in Libraries
          /\ m.view = Asked(l, v).view /\ m.selected = Asked(l, v).selected
          /\ \A p \in m.pages : p \in Asked(l, v).pages \/ p = key
      BY <1>3, <3>1, MergeIs
    <3> QED  BY <1>3, <3>2
  <2>3. lib' = Completed(m, l.generation)
    BY <2>1
  <2> HIDE DEF m, past, key
  <2>4. /\ lib' \in Libraries /\ lib'.view = v /\ lib'.generation = l.generation
        /\ lib'.selected = l.selected /\ ~lib'.loading
        /\ \A p \in lib'.pages : p = key
    BY <2>2, <2>3, <1>2, CompletedIs
  <2> QED  BY <2>1, <2>4, <1>1 DEF Searched, key
<1>5. CASE key \notin cache /\ way # {}
  <2>1. lib' = Asked(l, v) /\ calls' = (past \ way) \cup {[c EXCEPT !.awaited = TRUE] : c \in way}
    BY <1>5 DEF Search
  <2>2. way \subseteq past /\ \A c \in way : c.kind = "page" /\ c.view = v /\ c.gen = l.generation
    BY DEF InFlight
  <2> HIDE DEF way, past, key
  <2>3. ASSUME NEW d \in calls'
        PROVE  \/ d \in past \ way
               \/ \E c \in way : d \in StoreCalls /\ SameRequest(c, d) /\ SameAnswer(c, d) /\ d.awaited /\ d.fresh = c.fresh
    <3>1. ASSUME NEW c \in way, d = [c EXCEPT !.awaited = TRUE]
          PROVE  d \in StoreCalls /\ SameRequest(c, d) /\ SameAnswer(c, d) /\ d.awaited /\ d.fresh = c.fresh
      <4>1. c \in StoreCalls
        BY <2>2, <1>1
      <4> QED  BY <4>1, <3>1, StoreCallEdits, Zenon
    <3> QED  BY <2>1, <3>1
  <2>4. PICK w \in way : TRUE
    BY <1>5
  <2>5. [w EXCEPT !.awaited = TRUE] \in calls'
        /\ [w EXCEPT !.awaited = TRUE].kind = "page" /\ [w EXCEPT !.awaited = TRUE].awaited
    <3>1. w \in StoreCalls /\ w.kind = "page"
      BY <2>2, <2>4, <1>1
    <3>2. SameRequest(w, [w EXCEPT !.awaited = TRUE]) /\ [w EXCEPT !.awaited = TRUE].awaited
      BY <3>1, StoreCallEdits, Zenon
    <3> QED  BY <2>1, <2>4, <3>1, <3>2 DEF SameRequest
  <2>6. ASSUME NEW d \in calls', d \notin past \ way
        PROVE  /\ d \in StoreCalls /\ d.kind = "page" /\ ~d.fresh /\ d.view = v /\ d.gen = l.generation
               /\ \E c \in cs : c.kind = "page" /\ SameRequest(c, d) /\ SameAnswer(c, d)
    <3>1. PICK e \in way : d \in StoreCalls /\ SameRequest(e, d) /\ SameAnswer(e, d) /\ d.awaited /\ d.fresh = e.fresh
      BY <2>3, <2>6
    <3>2. PICK c \in cs : c.kind = "page" /\ SameRequest(c, e) /\ SameAnswer(c, e)
      BY <2>2, <1>1
    <3> QED  BY <3>1, <3>2, <2>2, <1>1 DEF SameRequest, SameAnswer
  <2>7. calls' \subseteq StoreCalls /\ \A d \in cs : d.kind # "page" => d \in calls'
    BY <2>1, <2>2, <2>6, <1>1
  <2>8. /\ \A d \in calls' : d.kind # "page" => d \in cs
        /\ \A d \in calls' : d.kind = "page" =>
             /\ \/ d.view = v /\ d.status = "sent"
                \/ ~d.fresh /\ \E c \in cs : c.kind = "page" /\ SameRequest(c, d) /\ SameAnswer(c, d)
             /\ d.awaited => d.view = v /\ d.gen = l.generation
    BY <2>6, <1>1
  <2> QED  BY <2>1, <2>5, <2>7, <2>8, <1>3 DEF Searched
<1>6. CASE key \notin cache /\ way = {}
  <2> DEFINE new == [PageRequest(v, l.generation, 0) EXCEPT !.awaited = TRUE]
  <2>1. lib' = Asked(l, v) /\ calls' = past \cup {new}
    BY <1>6 DEF Search
  <2>2. new \in StoreCalls /\ new.kind = "page" /\ new.view = v /\ new.gen = l.generation
        /\ new.status = "sent" /\ new.awaited
    <3> DEFINE r == PageRequest(v, l.generation, 0)
    <3>1. r \in StoreCalls /\ r.kind = "page" /\ r.view = v /\ r.gen = l.generation /\ r.status = "sent"
      BY <1>2, PageRequestIs
    <3>2. new = [r EXCEPT !.awaited = TRUE]
      OBVIOUS
    <3> HIDE DEF r, new
    <3> QED  BY <3>1, <3>2, StoreCallEdits DEF SameRequest, SameAnswer
  <2> HIDE DEF new, past, way, key
  <2> QED  BY <2>1, <2>2, <1>1, <1>3 DEF Searched
<1> QED  BY <1>4, <1>5, <1>6

(***************************************************************************)
(* What a step that leaves the requests of a kind alone leaves alone.      *)
(***************************************************************************)
CallsKept(kinds) ==
  /\ \A d \in calls' : d.kind \notin kinds => d \in calls
  /\ \A c \in calls : c.kind \notin kinds => c \in calls'

SameGeneration == lib'.generation = lib.generation
SamePlace      == lib'.view = lib.view /\ SameGeneration

LEMMA PageFrame ==
  ASSUME PageCallsInv, SamePlace, NEW kinds, CallsKept(kinds), "page" \notin kinds
  PROVE  PageCallsInv'
  BY DEF PageCallsInv, SamePlace, SameGeneration, CallsKept

LEMMA DetailFrame ==
  ASSUME DetailCallsInv, SameGeneration, NEW kinds, CallsKept(kinds), "detail" \notin kinds
  PROVE  DetailCallsInv'
  BY DEF DetailCallsInv, SameGeneration, CallsKept

LEMMA PatchFrame ==
  ASSUME NEW kinds, CallsKept(kinds), "patch" \notin kinds
  PROVE  PatchDone => PatchDone'
  BY DEF PatchDone, CallsKept

LEMMA PlanFrame ==
  ASSUME PlanCallsInv, NEW kinds, CallsKept(kinds), "prepare" \notin kinds,
         settings' = settings, stored' = stored, PatchDone => PatchDone'
  PROVE  PlanCallsInv'
  BY DEF PlanCallsInv, CallsKept

LEMMA LoadingFrame ==
  ASSUME LoadingInv, SameGeneration, NEW kinds, CallsKept(kinds), "page" \notin kinds, "reload" \notin kinds,
         lib'.loading => lib.loading, announced \subseteq announced'
  PROVE  LoadingInv'
<1> SUFFICES ASSUME lib'.loading
             PROVE  Loads'
  BY DEF LoadingInv
<1>1. Loads
  BY DEF LoadingInv
<1> QED  BY <1>1 DEF Loads, SameGeneration, CallsKept

LEMMA AwaitFrame ==
  ASSUME DetailIsAwaited, SameGeneration, lib'.selected = lib.selected, detail' = detail,
         NEW kinds, CallsKept(kinds), "detail" \notin kinds
  PROVE  DetailIsAwaited'
  BY DEF DetailIsAwaited, SameGeneration, CallsKept

LEMMA PreparedFrame ==
  ASSUME PlanInv, SameGeneration, lib'.selected = lib.selected, prepared' = prepared,
         settings' = settings, stored' = stored, PatchDone => PatchDone'
  PROVE  PlanInv'
  BY DEF PlanInv, SameGeneration

LEMMA CatalogFrame ==
  ASSUME CatalogInv, SameGeneration, served' = served, announced' = announced,
         NEW kinds, CallsKept(kinds), "reload" \notin kinds, "import" \notin kinds
  PROVE  CatalogInv'
<1>1. lib'.generation \leq served' /\ \A g \in announced' : g \leq served'
  BY DEF CatalogInv, SameGeneration
<1>2. \A c \in calls' : c.kind \in {"reload", "import"} /\ c.status # "sent" => c.got \in 1..served'
  BY DEF CatalogInv, CallsKept
<1>3. \A c \in calls : Newest(c) => Newest(c)'
  BY DEF Newest
<1>4. served' > lib'.generation =>
        served' \in announced' \/ \E c \in calls' : c.kind \in {"reload", "import"} /\ Newest(c)'
  <2> SUFFICES ASSUME served > lib.generation, served \notin announced
               PROVE  \E c \in calls' : c.kind \in {"reload", "import"} /\ Newest(c)'
    BY DEF SameGeneration
  <2>1. PICK c \in calls : c.kind \in {"reload", "import"} /\ Newest(c)
    BY DEF CatalogInv
  <2> QED  BY <2>1, <1>3 DEF CallsKept
<1> QED  BY <1>1, <1>2, <1>4 DEF CatalogInv

LEMMA PagesFrame ==
  ASSUME PagesAnswerTheQuery, SamePlace, lib'.pages = lib.pages
  PROVE  PagesAnswerTheQuery'
  BY DEF PagesAnswerTheQuery, SamePlace, SameGeneration

(* A step of the requests alone. *)
LEMMA StoreFrame ==
  ASSUME StoreInv, UNCHANGED store, NEW kinds, CallsKept(kinds)
  PROVE  /\ SamePlace /\ PagesAnswerTheQuery'
         /\ "page" \notin kinds => PageCallsInv'
         /\ "detail" \notin kinds => DetailCallsInv' /\ DetailIsAwaited'
         /\ "page" \notin kinds /\ "reload" \notin kinds /\ announced \subseteq announced' => LoadingInv'
<1>1. SamePlace /\ SameGeneration /\ lib' = lib /\ detail' = detail
  BY DEF SamePlace, SameGeneration, store
<1>2. PagesAnswerTheQuery' /\ ("page" \notin kinds => PageCallsInv')
  BY <1>1, PagesFrame, PageFrame DEF StoreInv
<1>3. "detail" \notin kinds => DetailCallsInv' /\ DetailIsAwaited'
  BY <1>1, DetailFrame, AwaitFrame DEF StoreInv
<1>4. "page" \notin kinds /\ "reload" \notin kinds /\ announced \subseteq announced' => LoadingInv'
  BY <1>1, LoadingFrame DEF StoreInv
<1> QED  BY <1>1, <1>2, <1>3, <1>4

(***************************************************************************)
(* The searches.                                                           *)
(***************************************************************************)
LEMMA SearchKeeps ==
  ASSUME StoreInv, NEW l \in Libraries, NEW cs, NEW v \in Views, Searched(l, cs, v),
         \A c \in cs : c.kind = "page" => c \in calls
  PROVE  PageCallsInv' /\ LoadingInv' /\ PagesAnswerTheQuery'
<1>1. PageCallsInv'
  <2> SUFFICES ASSUME NEW d \in calls', d.kind = "page"
               PROVE  /\ d.view \in Views
                      /\ d.status = "ok" => d.got = d.gen
                      /\ d.fresh => d.view = lib'.view
                      /\ d.awaited => d.view = lib'.view /\ d.gen = lib'.generation
    BY DEF PageCallsInv
  <2>1. /\ \/ d.view = v /\ d.status = "sent"
           \/ ~d.fresh /\ \E c \in cs : c.kind = "page" /\ SameRequest(c, d) /\ SameAnswer(c, d)
        /\ d.awaited => d.view = v /\ d.gen = l.generation
        /\ lib'.view = v /\ lib'.generation = l.generation
    BY DEF Searched
  <2>2. CASE d.view = v /\ d.status = "sent"
    BY <2>1, <2>2
  <2>3. CASE ~d.fresh /\ \E c \in cs : c.kind = "page" /\ SameRequest(c, d) /\ SameAnswer(c, d)
    <3>1. PICK c \in cs : c.kind = "page" /\ SameRequest(c, d) /\ SameAnswer(c, d)
      BY <2>3
    <3>2. c.view \in Views /\ (c.status = "ok" => c.got = c.gen)
      BY <3>1 DEF StoreInv, PageCallsInv
    <3> QED  BY <2>1, <2>3, <3>1, <3>2 DEF SameRequest, SameAnswer
  <2> QED  BY <2>1, <2>2, <2>3
<1>2. LoadingInv'
  BY DEF Searched, LoadingInv, Loads
<1>3. PagesAnswerTheQuery'
  BY DEF Searched, PagesAnswerTheQuery
<1> QED  BY <1>1, <1>2, <1>3

LEMMA NoDetails == NoDetail \in Details /\ \A s \in Songs : NoDetail[s].state = "idle"
  BY DEF NoDetail, Details

(* A search after which nothing is selected. *)
LEMMA ResetKeeps ==
  ASSUME StoreInv, NEW l \in Libraries, l.selected = NoSong, NEW cs, cs \subseteq calls, NEW v \in Views,
         Search(l, Outdated(cs, {"detail", "prepare"}), v),
         detail' = NoDetail, prepared' = Unprepared, UNCHANGED <<cache, settings, stored, served>>,
         announced' \subseteq Generations
  PROVE  /\ StoreTypes' /\ PageCallsInv' /\ DetailCallsInv' /\ PlanCallsInv' /\ PagesAnswerTheQuery'
         /\ LoadingInv' /\ DetailIsAwaited' /\ PlanInv'
         /\ lib'.generation = l.generation
         /\ \A d \in calls' : d.kind \in {"reload", "import"} => d \in cs
         /\ \A d \in cs : d.kind \in {"reload", "import"} => d \in calls'
<1> DEFINE past == Outdated(cs, {"detail", "prepare"})
<1>1. cs \subseteq StoreCalls /\ StoreTypes
  BY DEF StoreInv, StoreTypes
<1>2. past \subseteq StoreCalls /\ \A d \in cs : d.kind \notin {"detail", "prepare"} => d \in past
  <2> HIDE DEF past
  <2> QED  BY <1>1, OutdatedIs DEF past
<1>3. ASSUME NEW d \in past
      PROVE  /\ d.kind \notin {"detail", "prepare"} => d \in cs
             /\ d.kind \in {"detail", "prepare"} =>
                  ~d.fresh /\ \E c \in cs : SameRequest(c, d) /\ SameAnswer(c, d)
  <2> HIDE DEF past
  <2>1. PICK c \in cs : /\ SameRequest(c, d) /\ SameAnswer(c, d)
                        /\ c.kind \in {"detail", "prepare"} => ~d.fresh /\ ~d.awaited
                        /\ c.kind \notin {"detail", "prepare"} => d = c
    BY <1>1, OutdatedIs DEF past
  <2> QED  BY <2>1 DEF SameRequest
<1>4. Searched(l, past, v)
  BY <1>1, <1>2, SearchIs
<1> HIDE DEF past
<1>5. PageCallsInv' /\ LoadingInv' /\ PagesAnswerTheQuery'
  BY <1>3, <1>4, SearchKeeps
<1>6. StoreTypes'
  BY <1>1, <1>4, NoDetails DEF Searched, StoreTypes
<1>7. \A d \in calls' : d.kind # "page" => d \in past
  BY <1>4 DEF Searched
<1>8. DetailCallsInv'
  <2> SUFFICES ASSUME NEW d \in calls', d.kind = "detail"
               PROVE  /\ d.song \in Songs
                      /\ d.status = "ok" => d.got = d.gen
                      /\ d.fresh => d.gen = lib'.generation
    BY DEF DetailCallsInv
  <2>1. PICK c \in cs : ~d.fresh /\ SameRequest(c, d) /\ SameAnswer(c, d)
    BY <1>3, <1>7
  <2> QED  BY <2>1 DEF StoreInv, DetailCallsInv, SameRequest, SameAnswer
<1>9. PlanCallsInv'
  <2> SUFFICES ASSUME NEW d \in calls', d.kind = "prepare"
               PROVE  ~d.fresh
    BY DEF PlanCallsInv
  <2>1. PICK c \in cs : ~d.fresh /\ SameRequest(c, d) /\ SameAnswer(c, d)
    BY <1>3, <1>7
  <2> QED  BY <2>1 DEF StoreInv, PlanCallsInv, SameRequest, SameAnswer
<1>10. DetailIsAwaited'
  BY <1>4, NoDetails DEF Searched, DetailIsAwaited
<1>11. PlanInv'
  BY DEF PlanInv
<1>12. (\A d \in calls' : d.kind \in {"reload", "import"} => d \in cs)
       /\ (\A d \in cs : d.kind \in {"reload", "import"} => d \in calls')
       /\ lib'.generation = l.generation
  BY <1>2, <1>3, <1>4 DEF Searched
<1> QED  BY <1>5, <1>6, <1>8, <1>9, <1>10, <1>11, <1>12

(***************************************************************************)
(* The user.                                                               *)
(***************************************************************************)
LEMMA StoreStarts ==
  ASSUME StoreInit
  PROVE  StoreInv
<1> DEFINE first == [PageRequest(AllSongs, 1, 0) EXCEPT !.awaited = TRUE]
<1>1. 1 \in Generations /\ 0 \in Pages /\ AllSongs \in Views
  BY FirstView, ActsAreNat DEF Generations, Pages
<1>2. lib \in Libraries /\ lib.generation = 1 /\ lib.view = AllSongs /\ lib.selected = NoSong /\ lib.pages = {}
  BY <1>1 DEF StoreInit, Libraries
<1>3. settings = 0 /\ stored = 0 /\ served = 1 /\ announced = {} /\ cache = {} /\ detail = NoDetail
      /\ prepared = Unprepared /\ calls = {first}
  BY DEF StoreInit
<1>4. first \in StoreCalls /\ first.kind = "page" /\ first.view = AllSongs /\ first.gen = 1
      /\ first.status = "sent" /\ first.awaited
  <2>1. lib.generation \in Generations /\ settings \in Nat
    BY <1>1, <1>2, <1>3
  <2>2. NoView \in Views \cup {NoView} /\ NoSong \in Songs \cup {NoSong} /\ 0 \in Nat /\ "page" \in Kinds
    BY DEF Kinds
  <2> QED  BY <1>1, <2>1, <2>2 DEF PageRequest, Request, StoreCalls, Requests
<1> HIDE DEF first
<1>5. StoreTypes
  BY <1>1, <1>2, <1>3, <1>4, NoDetails DEF StoreTypes
<1>6. PageCallsInv /\ DetailCallsInv /\ PlanCallsInv
  BY <1>1, <1>2, <1>3, <1>4 DEF PageCallsInv, DetailCallsInv, PlanCallsInv
<1>7. PagesAnswerTheQuery /\ LoadingInv /\ DetailIsAwaited /\ PlanInv
  BY <1>2, <1>3, <1>4, NoDetails DEF PagesAnswerTheQuery, LoadingInv, Loads, DetailIsAwaited, PlanInv
<1>8. CatalogInv
  BY <1>2, <1>3, <1>4 DEF CatalogInv
<1> QED  BY <1>5, <1>6, <1>7, <1>8 DEF StoreInv

LEMMA SearchForStep ==
  ASSUME StoreInv, NEW v \in Views, SearchFor(v)
  PROVE  StoreInv'
<1>1. lib \in Libraries /\ calls \subseteq StoreCalls /\ StoreTypes
  BY DEF StoreInv, StoreTypes
<1>2. Searched(lib, calls, v)
  BY <1>1, SearchIs DEF SearchFor
<1>3. PageCallsInv' /\ LoadingInv' /\ PagesAnswerTheQuery'
  BY <1>1, <1>2, SearchKeeps
<1>4. CallsKept({"page"}) /\ SameGeneration /\ lib'.selected = lib.selected
  BY <1>2 DEF Searched, CallsKept, SameGeneration
<1>5. UNCHANGED <<cache, detail, prepared, settings, served, stored, announced>>
  BY DEF SearchFor, native
<1>6. StoreTypes'
  BY <1>1, <1>2, <1>5 DEF StoreTypes, Searched
<1>7. PatchDone => PatchDone'
  BY <1>4, PatchFrame
<1>8. DetailCallsInv' /\ PlanCallsInv' /\ DetailIsAwaited' /\ PlanInv'
  BY <1>4, <1>5, <1>7, DetailFrame, PlanFrame, AwaitFrame, PreparedFrame DEF StoreInv
<1>9. CatalogInv'
  BY <1>4, <1>5, CatalogFrame DEF StoreInv
<1> QED  BY <1>3, <1>6, <1>8, <1>9 DEF StoreInv

LEMMA SelectSourceStep ==
  ASSUME StoreInv, NEW v \in Views, SelectSource(v)
  PROVE  StoreInv'
<1> DEFINE l == [lib EXCEPT !.selected = NoSong]
<1>1. l \in Libraries /\ l.selected = NoSong /\ l.generation = lib.generation
  BY DEF StoreInv, StoreTypes, Libraries
<1>2. /\ Search(l, Outdated(calls, {"detail", "prepare"}), v)
      /\ detail' = NoDetail /\ prepared' = Unprepared
      /\ UNCHANGED <<cache, settings, stored, served, announced>>
  BY DEF SelectSource, native
<1>3. announced' \subseteq Generations
  BY <1>2 DEF StoreInv, StoreTypes
<1> HIDE DEF l
<1>4. /\ StoreTypes' /\ PageCallsInv' /\ DetailCallsInv' /\ PlanCallsInv' /\ PagesAnswerTheQuery'
      /\ LoadingInv' /\ DetailIsAwaited' /\ PlanInv'
      /\ lib'.generation = l.generation
      /\ \A d \in calls' : d.kind \in {"reload", "import"} => d \in calls
      /\ \A d \in calls : d.kind \in {"reload", "import"} => d \in calls'
  BY <1>1, <1>2, <1>3, ResetKeeps
<1>5. CatalogInv'
  <2>1. lib'.generation \leq served' /\ \A g \in announced' : g \leq served'
    BY <1>1, <1>2, <1>4 DEF StoreInv, CatalogInv
  <2>2. \A c \in calls' : c.kind \in {"reload", "import"} /\ c.status # "sent" => c.got \in 1..served'
    BY <1>2, <1>4 DEF StoreInv, CatalogInv
  <2>3. served' > lib'.generation =>
          served' \in announced' \/ \E c \in calls' : c.kind \in {"reload", "import"} /\ Newest(c)'
    BY <1>1, <1>2, <1>4 DEF StoreInv, CatalogInv, Newest
  <2> QED  BY <2>1, <2>2, <2>3 DEF CatalogInv
<1> QED  BY <1>4, <1>5 DEF StoreInv

LEMMA SelectSongStep ==
  ASSUME StoreInv, NEW s \in Songs, SelectSong(s)
  PROVE  StoreInv'
<1> DEFINE past == Outdated(calls, {"detail", "prepare"})
           new  == [Request("detail") EXCEPT !.song = s]
<1>0. StoreTypes /\ calls \subseteq StoreCalls
  BY DEF StoreInv, StoreTypes
<1>1. /\ lib' = [lib EXCEPT !.selected = s]
      /\ detail' = [detail EXCEPT ![s].state = IF @ = "idle" THEN "loading" ELSE @]
      /\ prepared' = Unprepared
      /\ calls' = past \cup (IF AsksDetail(s) THEN {new} ELSE {})
      /\ UNCHANGED <<cache, settings, stored, served, announced>>
  BY DEF SelectSong, native
<1>2. /\ lib' \in Libraries /\ SamePlace /\ SameGeneration /\ lib'.pages = lib.pages
      /\ lib'.selected = s /\ lib'.loading = lib.loading
  BY <1>1 DEF StoreInv, StoreTypes, Libraries, SamePlace, SameGeneration
<1>3. new \in StoreCalls /\ IsNew(new, "detail") /\ new.song = s
  <2>1. "detail" \in Kinds /\ s \in Songs \cup {NoSong}
    BY DEF Kinds
  <2> QED  BY <1>0, <2>1, RequestIs DEF IsNew
<1> HIDE DEF past, new
<1>4. past \subseteq StoreCalls /\ \A d \in calls : d.kind \notin {"detail", "prepare"} => d \in past
  BY <1>0, OutdatedIs DEF past
<1>5. ASSUME NEW d \in past
      PROVE  /\ d.kind \notin {"detail", "prepare"} => d \in calls
             /\ d.kind \in {"detail", "prepare"} =>
                  ~d.fresh /\ \E c \in calls : SameRequest(c, d) /\ SameAnswer(c, d)
  <2>1. PICK c \in calls : /\ SameRequest(c, d) /\ SameAnswer(c, d)
                           /\ c.kind \in {"detail", "prepare"} => ~d.fresh /\ ~d.awaited
                           /\ c.kind \notin {"detail", "prepare"} => d = c
    BY <1>0, OutdatedIs DEF past
  <2> QED  BY <2>1 DEF SameRequest
<1>6. CallsKept({"detail", "prepare"})
  BY <1>1, <1>3, <1>4, <1>5 DEF CallsKept, IsNew
<1>7. /\ detail' \in Details
      /\ \A t \in Songs : t # s => detail'[t] = detail[t]
      /\ detail'[s].gen = detail[s].gen
      /\ detail'[s].state = IF detail[s].state = "idle" THEN "loading" ELSE detail[s].state
  BY <1>0, <1>1 DEF StoreTypes, Details
<1>8. StoreTypes'
  BY <1>0, <1>1, <1>2, <1>3, <1>4, <1>7 DEF StoreTypes
<1>9. PageCallsInv' /\ PagesAnswerTheQuery' /\ LoadingInv' /\ CatalogInv'
  BY <1>1, <1>2, <1>6, PageFrame, PagesFrame, LoadingFrame, CatalogFrame DEF StoreInv
<1>10. DetailCallsInv'
  <2> SUFFICES ASSUME NEW d \in calls', d.kind = "detail"
               PROVE  /\ d.song \in Songs
                      /\ d.status = "ok" => d.got = d.gen
                      /\ d.fresh => d.gen = lib'.generation
    BY DEF DetailCallsInv
  <2>1. CASE d \in past
    <3>1. PICK c \in calls : ~d.fresh /\ SameRequest(c, d) /\ SameAnswer(c, d)
      BY <1>5, <2>1
    <3> QED  BY <3>1 DEF StoreInv, DetailCallsInv, SameRequest, SameAnswer
  <2>2. CASE d = new
    BY <1>2, <1>3, <2>2 DEF IsNew, SameGeneration
  <2> QED  BY <1>1, <2>1, <2>2
<1>11. PlanCallsInv'
  <2> SUFFICES ASSUME NEW d \in calls', d.kind = "prepare"
               PROVE  ~d.fresh
    BY DEF PlanCallsInv
  <2>1. d \in past
    BY <1>1, <1>3 DEF IsNew
  <2>2. PICK c \in calls : ~d.fresh /\ SameRequest(c, d) /\ SameAnswer(c, d)
    BY <1>5, <2>1
  <2> QED  BY <2>2 DEF StoreInv, PlanCallsInv, SameRequest, SameAnswer
<1>12. DetailIsAwaited'
  <2>1. \A t \in Songs : detail'[t].state = "ready" => detail'[t].gen = lib'.generation
    BY <1>2, <1>7 DEF StoreInv, DetailIsAwaited, SameGeneration
  <2>2. detail'[s].state = "loading" => AsksDetail(s)
    BY <1>7 DEF AsksDetail
  <2>3. AsksDetail(s) => new \in calls'
    BY <1>1
  <2> QED  BY <1>2, <1>3, <2>1, <2>2, <2>3 DEF DetailIsAwaited, IsNew
<1>13. PlanInv'
  BY <1>1 DEF PlanInv
<1> QED  BY <1>8, <1>9, <1>10, <1>11, <1>12, <1>13 DEF StoreInv

(* A new request that is neither of a page nor of a detail. *)
LEMMA RequestStep ==
  ASSUME StoreInv, NEW kind \in {"reload", "import", "prepare", "patch"}, NEW new,
         IsNew(new, kind), calls' = calls \cup {new},
         UNCHANGED <<cache, detail, prepared, settings, served, stored, announced>>,
         lib' \in Libraries, SamePlace, lib'.pages = lib.pages, lib'.selected = lib.selected,
         lib'.loading => lib.loading \/ kind = "reload"
  PROVE  StoreInv'
<1>1. new \in StoreCalls /\ new.kind = kind /\ new.config = settings /\ new.status = "sent"
  BY DEF IsNew
<1>2. CallsKept({kind}) /\ SameGeneration
  BY <1>1 DEF CallsKept, SamePlace
<1>3. StoreTypes'
  BY <1>1 DEF StoreInv, StoreTypes
<1>4. PageCallsInv' /\ DetailCallsInv' /\ PagesAnswerTheQuery' /\ DetailIsAwaited'
  BY <1>2, PageFrame, DetailFrame, PagesFrame, AwaitFrame DEF StoreInv
<1>5. PatchDone => PatchDone'
  BY DEF PatchDone
<1>6. PlanInv'
  BY <1>2, <1>5, PreparedFrame DEF StoreInv
<1>7. PlanCallsInv'
  BY <1>1, <1>5 DEF StoreInv, PlanCallsInv
<1>8. LoadingInv'
  <2>1. CASE kind = "reload"
    BY <1>1, <2>1 DEF LoadingInv, Loads
  <2>2. CASE kind # "reload"
    <3>1. "page" \notin {kind} /\ "reload" \notin {kind}
      BY <2>2
    <3> QED  BY <1>2, <2>2, <3>1, LoadingFrame DEF StoreInv
  <2> QED  BY <2>1, <2>2
<1>9. CatalogInv'
  BY <1>1, <1>2 DEF StoreInv, CatalogInv, Newest, SameGeneration
<1> QED  BY <1>3, <1>4, <1>6, <1>7, <1>8, <1>9 DEF StoreInv

LEMMA UserSteps ==
  ASSUME StoreInv, ReloadLibrary \/ ImportLocal \/ PrepareSelectedPlayback \/ PatchSettings
  PROVE  StoreInv'
<1>1. StoreTypes /\ lib \in Libraries
  BY DEF StoreInv, StoreTypes
<1>2. CASE ReloadLibrary
  <2>1. /\ calls' = calls \cup {Request("reload")} /\ lib' = [lib EXCEPT !.loading = TRUE, !.error = FALSE]
        /\ UNCHANGED <<cache, detail, prepared, settings, served, stored, announced>>
    BY <1>2 DEF ReloadLibrary, native
  <2>2. lib' \in Libraries /\ SamePlace /\ lib'.pages = lib.pages /\ lib'.selected = lib.selected
    BY <1>1, <2>1 DEF Libraries, SamePlace, SameGeneration
  <2>3. IsNew(Request("reload"), "reload")
    BY <1>1, RequestIs DEF Kinds
  <2> QED  BY <2>1, <2>2, <2>3, RequestStep
<1>3. CASE ImportLocal
  <2>1. calls' = calls \cup {Request("import")} /\ UNCHANGED <<lib, cache, detail, prepared, settings, served, stored, announced>>
    BY <1>3 DEF ImportLocal, native, store
  <2>2. IsNew(Request("import"), "import")
    BY <1>1, RequestIs DEF Kinds
  <2> QED  BY <1>1, <2>1, <2>2, RequestStep DEF SamePlace, SameGeneration
<1>4. CASE PrepareSelectedPlayback
  <2> DEFINE new == [Request("prepare") EXCEPT !.song = lib.selected]
  <2>1. calls' = calls \cup {new} /\ UNCHANGED <<lib, cache, detail, prepared, settings, served, stored, announced>>
    BY <1>4 DEF PrepareSelectedPlayback, native, store
  <2>2. IsNew(new, "prepare")
    <3>1. lib.selected \in Songs \cup {NoSong}
      BY <1>1, LibFields
    <3> QED  BY <1>1, <3>1, RequestIs DEF Kinds
  <2> HIDE DEF new
  <2> QED  BY <1>1, <2>1, <2>2, RequestStep DEF SamePlace, SameGeneration
<1>5. CASE PatchSettings
  <2>1. calls' = calls \cup {Request("patch")} /\ UNCHANGED <<lib, cache, detail, prepared, settings, served, stored, announced>>
    BY <1>5 DEF PatchSettings, native, store
  <2>2. IsNew(Request("patch"), "patch")
    BY <1>1, RequestIs DEF Kinds
  <2> QED  BY <1>1, <2>1, <2>2, RequestStep DEF SamePlace, SameGeneration
<1> QED  BY <1>2, <1>3, <1>4, <1>5

LEMMA SetViewportStep ==
  ASSUME StoreInv, NEW page \in Pages, SetViewport(page)
  PROVE  StoreInv'
<1> DEFINE key == <<lib.view, lib.generation, page>>
           way == InFlight(calls, lib.view, lib.generation, page)
           new == [PageRequest(lib.view, lib.generation, page) EXCEPT !.watched = TRUE]
<1>0. StoreTypes /\ lib \in Libraries /\ calls \subseteq StoreCalls
  BY DEF StoreInv, StoreTypes
<1>1. /\ lib' = IF key \in cache THEN Merged(lib, key) ELSE lib
      /\ calls' = IF key \in cache THEN calls
                  ELSE IF way # {} THEN (calls \ way) \cup {[c EXCEPT !.watched = TRUE] : c \in way}
                  ELSE calls \cup {new}
      /\ UNCHANGED <<cache, detail, prepared, settings, served, stored, announced>>
  BY DEF SetViewport, native, Merged
<1>2. key \in Keys /\ key[2] = lib.generation
  BY <1>0, LibFields DEF Keys
<1>3. /\ lib' \in Libraries /\ SamePlace /\ SameGeneration /\ lib'.selected = lib.selected /\ lib'.loading = lib.loading
      /\ PagesAnswerTheQuery'
  <2>1. CASE key \in cache
    <3>1. lib' = Merged(lib, key)
      BY <1>1, <2>1
    <3>2. key[1] = lib.view
      OBVIOUS
    <3> HIDE DEF key
    <3>3. /\ lib' \in Libraries
          /\ lib'.view = lib.view /\ lib'.generation = lib.generation /\ lib'.selected = lib.selected
          /\ lib'.loading = lib.loading
          /\ \A p \in lib'.pages : p \in lib.pages \/ p = key
      BY <1>0, <1>2, <3>1, MergeIs
    <3> QED  BY <1>2, <3>2, <3>3 DEF StoreInv, PagesAnswerTheQuery, SamePlace, SameGeneration
  <2>2. CASE key \notin cache
    BY <1>0, <1>1, <2>2 DEF StoreInv, PagesAnswerTheQuery, SamePlace, SameGeneration
  <2> QED  BY <2>1, <2>2
<1>4. new \in StoreCalls /\ new.kind = "page" /\ new.view = lib.view /\ new.gen = lib.generation
      /\ new.status = "sent" /\ ~new.awaited
  <2> DEFINE r == PageRequest(lib.view, lib.generation, page)
  <2>1. r \in StoreCalls /\ r.kind = "page" /\ r.view = lib.view /\ r.gen = lib.generation /\ r.status = "sent" /\ ~r.awaited
    BY <1>0, LibFields, PageRequestIs
  <2>2. new = [r EXCEPT !.watched = TRUE]
    OBVIOUS
  <2> HIDE DEF r, new
  <2> QED  BY <2>1, <2>2, StoreCallEdits DEF SameRequest, SameAnswer
<1>5. way \subseteq calls /\ \A c \in way : c.kind = "page"
  BY DEF InFlight
<1> HIDE DEF key, way, new
<1>6. ASSUME NEW d \in calls'
      PROVE  \/ d \in calls
             \/ d = new
             \/ \E c \in calls : /\ d \in StoreCalls /\ c.kind = "page" /\ SameRequest(c, d) /\ SameAnswer(c, d)
                                 /\ d.awaited = c.awaited /\ d.fresh = c.fresh
  <2>1. ASSUME NEW c \in way, d = [c EXCEPT !.watched = TRUE]
        PROVE  /\ c \in calls /\ d \in StoreCalls /\ c.kind = "page" /\ SameRequest(c, d) /\ SameAnswer(c, d)
               /\ d.awaited = c.awaited /\ d.fresh = c.fresh
    <3>1. c \in StoreCalls
      BY <1>0, <1>5
    <3> QED  BY <1>5, <2>1, <3>1, StoreCallEdits, Zenon
  <2> QED  BY <1>1, <2>1
<1>7. ASSUME NEW c \in calls
      PROVE  \/ c \in calls'
             \/ c.kind = "page" /\ \E d \in calls' : d.kind = "page" /\ d.awaited = c.awaited
  <2>1. CASE c \in way /\ c \notin calls'
    <3>1. [c EXCEPT !.watched = TRUE] \in calls'
      BY <1>1, <2>1
    <3>2. c \in StoreCalls /\ c.kind = "page"
      BY <1>0, <1>5, <2>1
    <3>3. SameRequest(c, [c EXCEPT !.watched = TRUE]) /\ [c EXCEPT !.watched = TRUE].awaited = c.awaited
      BY <3>2, StoreCallEdits, Zenon
    <3> QED  BY <3>1, <3>2, <3>3 DEF SameRequest
  <2>2. CASE c \notin way
    BY <1>1, <2>2
  <2> QED  BY <2>1, <2>2
<1>8. CallsKept({"page"})
  <2>1. ASSUME NEW d \in calls', d.kind \notin {"page"}
        PROVE  d \in calls
    BY <1>4, <1>6, <2>1 DEF SameRequest
  <2>2. ASSUME NEW c \in calls, c.kind \notin {"page"}
        PROVE  c \in calls'
    BY <1>7, <2>2
  <2> QED  BY <2>1, <2>2 DEF CallsKept
<1>9. PatchDone => PatchDone'
  BY <1>8, PatchFrame
<1>10. DetailCallsInv' /\ PlanCallsInv' /\ DetailIsAwaited' /\ PlanInv' /\ CatalogInv'
  BY <1>1, <1>3, <1>8, <1>9, DetailFrame, PlanFrame, AwaitFrame, PreparedFrame, CatalogFrame DEF StoreInv
<1>11. StoreTypes'
  <2>1. calls' \subseteq StoreCalls
    BY <1>0, <1>4, <1>6
  <2> QED  BY <1>0, <1>1, <1>3, <2>1 DEF StoreTypes
<1>12. PageCallsInv'
  <2> SUFFICES ASSUME NEW d \in calls', d.kind = "page"
               PROVE  /\ d.view \in Views
                      /\ d.status = "ok" => d.got = d.gen
                      /\ d.fresh => d.view = lib.view
                      /\ d.awaited => d.view = lib.view /\ d.gen = lib.generation
    BY <1>3 DEF PageCallsInv, SamePlace, SameGeneration
  <2>1. CASE d \in calls
    BY <2>1 DEF StoreInv, PageCallsInv
  <2>2. CASE d = new
    BY <1>0, <1>4, <2>2, LibFields
  <2>3. ASSUME NEW c \in calls, c.kind = "page", SameRequest(c, d), SameAnswer(c, d),
               d.awaited = c.awaited, d.fresh = c.fresh
        PROVE  /\ d.view \in Views
               /\ d.status = "ok" => d.got = d.gen
               /\ d.fresh => d.view = lib.view
               /\ d.awaited => d.view = lib.view /\ d.gen = lib.generation
    BY <2>3 DEF StoreInv, PageCallsInv, SameRequest, SameAnswer
  <2> QED  BY <1>6, <2>1, <2>2, <2>3
<1>13. LoadingInv'
  <2> SUFFICES ASSUME lib'.loading
               PROVE  Loads'
    BY DEF LoadingInv
  <2>1. Loads
    BY <1>3 DEF StoreInv, LoadingInv
  <2>2. ASSUME NEW c \in calls, c.kind = "page" /\ c.awaited
        PROVE  \E d \in calls' : d.kind = "page" /\ d.awaited
    BY <1>7, <2>2
  <2>3. ASSUME NEW c \in calls, c.kind = "reload"
        PROVE  c \in calls'
    BY <1>7, <2>3
  <2> QED  BY <1>1, <1>3, <2>1, <2>2, <2>3 DEF Loads, SameGeneration
<1> QED  BY <1>3, <1>10, <1>11, <1>12, <1>13 DEF StoreInv

(***************************************************************************)
(* The native side.                                                        *)
(***************************************************************************)
LEMMA ServeReadStep ==
  ASSUME StoreInv, NEW c \in calls, ServeRead(c)
  PROVE  StoreInv'
<1>1. StoreTypes /\ calls \subseteq StoreCalls /\ c \in StoreCalls
  BY DEF StoreInv, StoreTypes
<1>2. c.kind \in {"page", "detail", "prepare"} /\ c.status = "sent" /\ c.gen = served
  BY DEF ServeRead
<1>3. UNCHANGED <<store, served, stored, announced>>
  BY DEF ServeRead, native
<1>4. PICK d \in StoreCalls : /\ calls' = (calls \ {c}) \cup {d} /\ SameRequest(c, d) /\ SameTokens(c, d)
                         /\ d.status = "ok" /\ d.got = IF c.kind = "prepare" THEN stored ELSE served
  <2> DEFINE got == IF c.kind = "prepare" THEN stored ELSE served
  <2>1. got \in Nat
    BY <1>1, ActsAreNat DEF StoreTypes, Generations
  <2>2. Becomes(c, "ok", got)
    BY DEF ServeRead
  <2> HIDE DEF got
  <2>3. \E d \in StoreCalls : /\ calls' = (calls \ {c}) \cup {d} /\ SameRequest(c, d) /\ SameTokens(c, d)
                         /\ d.status = "ok" /\ d.got = got
    BY <1>1, <2>1, <2>2, BecomesIs
  <2> QED  BY <2>3 DEF got
<1>5. /\ d.kind = c.kind /\ d.view = c.view /\ d.gen = c.gen /\ d.song = c.song /\ d.config = c.config
      /\ d.fresh = c.fresh /\ d.awaited = c.awaited
  BY <1>4 DEF SameRequest, SameTokens
<1>6. CallsKept({"page", "detail", "prepare"})
  BY <1>2, <1>4, <1>5 DEF CallsKept
<1>7. /\ lib' = lib /\ detail' = detail /\ prepared' = prepared /\ settings' = settings /\ cache' = cache
      /\ SamePlace /\ SameGeneration /\ PagesAnswerTheQuery'
  BY <1>3, <1>6, StoreFrame DEF store, SameGeneration
<1>8. PatchDone => PatchDone'
  BY <1>6, PatchFrame
<1>9. StoreTypes' /\ PlanInv' /\ CatalogInv'
  BY <1>1, <1>3, <1>4, <1>6, <1>7, <1>8, PreparedFrame, CatalogFrame DEF StoreInv, StoreTypes
<1>10. PageCallsInv'
  BY <1>2, <1>4, <1>5, <1>7 DEF StoreInv, PageCallsInv
<1>11. DetailCallsInv'
  BY <1>2, <1>4, <1>5, <1>7 DEF StoreInv, DetailCallsInv
<1>12. PlanCallsInv'
  BY <1>2, <1>3, <1>4, <1>5, <1>7, <1>8 DEF StoreInv, PlanCallsInv
<1>13. LoadingInv'
  BY <1>2, <1>3, <1>4, <1>5, <1>7 DEF StoreInv, LoadingInv, Loads
<1>14. DetailIsAwaited'
  BY <1>4, <1>5, <1>7 DEF StoreInv, DetailIsAwaited
<1> QED  BY <1>7, <1>9, <1>10, <1>11, <1>12, <1>13, <1>14 DEF StoreInv

(* What a step of a reload or an import leaves of the rest. *)
LEMMA CatalogStepKeeps ==
  ASSUME StoreInv, UNCHANGED <<store, stored>>, CallsKept({"reload", "import"})
  PROVE  /\ PageCallsInv' /\ DetailCallsInv' /\ PlanCallsInv' /\ PagesAnswerTheQuery'
         /\ DetailIsAwaited' /\ PlanInv' /\ SamePlace /\ SameGeneration
<1>1. SamePlace /\ PagesAnswerTheQuery' /\ PageCallsInv' /\ DetailCallsInv' /\ DetailIsAwaited'
  BY StoreFrame
<1>2. PatchDone => PatchDone'
  BY PatchFrame
<1>3. SameGeneration /\ lib' = lib /\ prepared' = prepared /\ settings' = settings
  BY DEF store, SameGeneration
<1> QED  BY <1>1, <1>2, <1>3, PlanFrame, PreparedFrame DEF StoreInv

LEMMA ServeReloadStep ==
  ASSUME StoreInv, NEW c \in calls, ServeReload(c)
  PROVE  StoreInv'
<1>1. StoreTypes /\ calls \subseteq StoreCalls /\ c \in StoreCalls /\ served \in Nat /\ CatalogInv
  BY ActsAreNat DEF StoreInv, StoreTypes, Generations
<1>2. c.kind \in {"reload", "import"} /\ c.status = "sent"
  BY DEF ServeReload
<1>3. UNCHANGED <<store, stored, announced>>
  BY DEF ServeReload
<1>4. CASE c.kind = "import" /\ Becomes(c, "ok", served) /\ UNCHANGED served
  <2>1. PICK d \in StoreCalls : /\ calls' = (calls \ {c}) \cup {d} /\ SameRequest(c, d) /\ SameTokens(c, d)
                           /\ d.status = "ok" /\ d.got = served
    BY <1>1, <1>4, BecomesIs
  <2>2. d.kind = "import"
    BY <1>4, <2>1 DEF SameRequest
  <2>3. CallsKept({"reload", "import"}) /\ CallsKept({"import"})
    BY <1>4, <2>1, <2>2 DEF CallsKept
  <2>4. LoadingInv'
    BY <1>3, <2>3, StoreFrame
  <2>5. StoreTypes'
    BY <1>1, <1>3, <1>4, <2>1 DEF StoreTypes, store
  <2>6. CatalogInv'
    <3>1. served \in 1..served
      BY <1>1 DEF StoreTypes, Generations
    <3>2. \A e \in calls' : e = d \/ (e \in calls /\ e # c)
      BY <2>1
    <3>3. lib' = lib
      BY <1>3 DEF store
    <3>4. lib'.generation \leq served' /\ \A g \in announced' : g \leq served'
      BY <1>1, <1>3, <1>4, <3>3 DEF CatalogInv
    <3>5. \A e \in calls' : e.kind \in {"reload", "import"} /\ e.status # "sent" => e.got \in 1..served'
      BY <1>1, <1>4, <2>1, <3>1, <3>2 DEF CatalogInv
    <3> QED  BY <1>4, <2>1, <2>2, <3>4, <3>5 DEF CatalogInv, Newest
  <2> QED  BY <1>3, <2>3, <2>4, <2>5, <2>6, CatalogStepKeeps DEF StoreInv
<1>5. CASE served < MaxGeneration /\ served' = served + 1 /\ Becomes(c, "installed", served + 1)
  <2>1. PICK d \in StoreCalls : /\ calls' = (calls \ {c}) \cup {d} /\ SameRequest(c, d) /\ SameTokens(c, d)
                           /\ d.status = "installed" /\ d.got = served + 1
    <3>1. served + 1 \in Nat
      BY <1>1
    <3> QED  BY <1>1, <1>2, <1>5, <3>1, BecomesIs
  <2>2. d.kind = c.kind /\ d.kind \in {"reload", "import"}
    BY <1>2, <2>1 DEF SameRequest
  <2>3. CallsKept({"reload", "import"})
    BY <1>2, <2>1, <2>2 DEF CallsKept
  <2>4. served' \in Generations
    BY <1>1, <1>5, ActsAreNat DEF StoreTypes, Generations
  <2>5. StoreTypes'
    BY <1>1, <1>3, <2>1, <2>4 DEF StoreTypes, store
  <2>6. lib' = lib /\ lib.generation \in Nat /\ lib.generation < served'
    <3>1. lib.generation \in Generations
      BY <1>1, LibFields DEF StoreTypes
    <3> QED  BY <1>1, <1>3, <1>5, <3>1, ActsAreNat DEF store, CatalogInv, Generations
  <2>7. LoadingInv'
    <3> SUFFICES ASSUME lib.loading
                 PROVE  Loads'
      BY <2>6 DEF LoadingInv
    <3>1. Loads
      BY DEF StoreInv, LoadingInv
    <3>2. CASE \E e \in calls : e.kind = "page" /\ e.awaited
      BY <1>2, <2>1, <3>2 DEF Loads
    <3>3. CASE \E e \in calls : /\ e.kind = "reload"
                                /\ (e.status = "sent" \/ (e.status = "installed" /\ e.got > lib.generation))
      <4>1. PICK e \in calls : /\ e.kind = "reload"
                               /\ (e.status = "sent" \/ (e.status = "installed" /\ e.got > lib.generation))
        BY <3>3
      <4>2. CASE e = c
        BY <1>1, <1>5, <2>1, <2>2, <2>6, <4>1, <4>2 DEF Loads
      <4>3. CASE e # c
        BY <2>1, <2>6, <4>1, <4>3 DEF Loads
      <4> QED  BY <4>2, <4>3
    <3>4. CASE \E g \in announced : g > lib.generation
      BY <1>3, <2>6, <3>4 DEF Loads
    <3> QED  BY <3>1, <3>2, <3>3, <3>4 DEF Loads
  <2>8. CatalogInv'
    <3>1. \A e \in calls' : e = d \/ (e \in calls /\ e # c)
      BY <2>1
    <3>2. \A g \in announced' : g \leq served'
      <4>1. \A g \in announced : g \in Nat /\ g \leq served
        BY <1>1, ActsAreNat DEF CatalogInv, StoreTypes, Generations
      <4> QED  BY <1>1, <1>3, <1>5, <4>1
    <3>3. \A e \in calls' : e.kind \in {"reload", "import"} /\ e.status # "sent" => e.got \in 1..served'
      <4>1. \A e \in calls : e.kind \in {"reload", "import"} /\ e.status # "sent" => e.got \in 1..served
        BY <1>1 DEF CatalogInv
      <4> QED  BY <1>1, <1>5, <2>1, <3>1, <4>1
    <3>4. d \in calls' /\ Newest(d)'
      BY <1>5, <2>1 DEF Newest
    <3>5. lib'.generation \leq served'
      BY <1>1, <1>5, <2>6
    <3> QED  BY <2>2, <3>2, <3>3, <3>4, <3>5 DEF CatalogInv
  <2> QED  BY <1>3, <2>3, <2>5, <2>7, <2>8, CatalogStepKeeps DEF StoreInv
<1> QED  BY <1>4, <1>5 DEF ServeReload

LEMMA AnnounceStep ==
  ASSUME StoreInv, NEW c \in calls, c.kind \in {"reload", "import"}, Announce(c)
  PROVE  StoreInv'
<1>1. StoreTypes /\ calls \subseteq StoreCalls /\ c \in StoreCalls /\ served \in Nat /\ CatalogInv
  BY ActsAreNat DEF StoreInv, StoreTypes, Generations
<1>2. c.status = "installed" /\ c.got = served /\ announced' = announced \cup {served}
      /\ UNCHANGED <<store, served, stored>>
  BY DEF Announce
<1>3. PICK d \in StoreCalls : /\ calls' = (calls \ {c}) \cup {d} /\ SameRequest(c, d) /\ SameTokens(c, d)
                         /\ d.status = "ok" /\ d.got = served
  BY <1>1, <1>2, BecomesIs DEF Announce
<1>4. d.kind = c.kind /\ lib' = lib
  BY <1>2, <1>3 DEF SameRequest, store
<1>5. CallsKept({"reload", "import"})
  BY <1>3, <1>4 DEF CallsKept
<1>6. StoreTypes'
  BY <1>1, <1>2, <1>3 DEF StoreTypes, store
<1>7. LoadingInv'
  <2> SUFFICES ASSUME lib.loading
               PROVE  Loads'
    BY <1>4 DEF LoadingInv
  <2>1. Loads
    BY DEF StoreInv, LoadingInv
  <2>2. CASE \E e \in calls : e.kind = "page" /\ e.awaited
    BY <1>3, <2>2 DEF Loads
  <2>3. CASE \E e \in calls : /\ e.kind = "reload"
                              /\ (e.status = "sent" \/ (e.status = "installed" /\ e.got > lib.generation))
    BY <1>2, <1>3, <1>4, <2>3 DEF Loads
  <2>4. CASE \E g \in announced : g > lib.generation
    BY <1>2, <1>4, <2>4 DEF Loads
  <2> QED  BY <2>1, <2>2, <2>3, <2>4 DEF Loads
<1>8. CatalogInv'
  <2>1. \A e \in calls' : e = d \/ (e \in calls /\ e # c)
    BY <1>3
  <2>2. served \in 1..served
    BY <1>1 DEF StoreTypes, Generations
  <2>3. lib'.generation \leq served' /\ (\A g \in announced' : g \leq served') /\ served' \in announced'
    BY <1>1, <1>2, <1>4 DEF CatalogInv
  <2>4. \A e \in calls' : e.kind \in {"reload", "import"} /\ e.status # "sent" => e.got \in 1..served'
    BY <1>1, <1>2, <1>3, <2>1, <2>2 DEF CatalogInv
  <2> QED  BY <2>3, <2>4 DEF CatalogInv
<1> QED  BY <1>2, <1>5, <1>6, <1>7, <1>8, CatalogStepKeeps DEF StoreInv

LEMMA ServePatchStep ==
  ASSUME StoreInv, NEW c \in calls, ServePatch(c)
  PROVE  StoreInv'
<1>1. StoreTypes /\ calls \subseteq StoreCalls /\ stored \in Nat
  BY DEF StoreInv, StoreTypes
<1>2. c.kind = "patch" /\ Becomes(c, "ok", stored + 1) /\ stored' = stored + 1
      /\ UNCHANGED <<store, served, announced>>
  BY DEF ServePatch
<1>3. PICK d \in StoreCalls : /\ calls' = (calls \ {c}) \cup {d} /\ SameRequest(c, d) /\ SameTokens(c, d)
                         /\ d.status = "ok" /\ d.got = stored + 1
  <2>1. stored + 1 \in Nat
    BY <1>1
  <2> QED  BY <1>1, <1>2, <2>1, BecomesIs
<1>4. d.kind = "patch" /\ lib' = lib /\ prepared' = prepared /\ settings' = settings
  BY <1>2, <1>3 DEF SameRequest, store
<1>5. PatchDone'
  BY <1>3, <1>4 DEF PatchDone
<1>6. CallsKept({"patch"})
  BY <1>2, <1>3, <1>4 DEF CallsKept
<1>7. /\ SamePlace /\ PagesAnswerTheQuery' /\ PageCallsInv' /\ DetailCallsInv' /\ DetailIsAwaited' /\ LoadingInv'
  BY <1>2, <1>6, StoreFrame
<1>8. StoreTypes'
  BY <1>1, <1>2, <1>3 DEF StoreTypes, store
<1>9. PlanInv' /\ PlanCallsInv'
  BY <1>4, <1>5, <1>6 DEF StoreInv, PlanInv, PlanCallsInv, CallsKept
<1>10. CatalogInv'
  BY <1>2, <1>4, <1>6, CatalogFrame DEF StoreInv, SameGeneration
<1> QED  BY <1>7, <1>8, <1>9, <1>10 DEF StoreInv

(***************************************************************************)
(* The answers.                                                            *)
(***************************************************************************)
LEMMA PageStep ==
  ASSUME StoreInv, NEW c \in calls, PageComes(c) \/ PageFails(c)
  PROVE  StoreInv'
<1>1. StoreTypes /\ calls \subseteq StoreCalls /\ c \in StoreCalls /\ lib \in Libraries /\ PageCallsInv
  BY DEF StoreInv, StoreTypes
<1>2. c.kind = "page" /\ calls' = calls \ {c}
      /\ UNCHANGED <<detail, prepared, settings, served, stored, announced>>
  BY DEF PageComes, PageFails, Comes, Fails, Arrives, native
<1>3. CallsKept({"page"})
  BY <1>2 DEF CallsKept
<1>4. /\ lib' \in Libraries /\ cache' \subseteq Keys
      /\ SamePlace /\ lib'.selected = lib.selected /\ PagesAnswerTheQuery'
      /\ lib'.loading => lib.loading /\ ~c.awaited
  <2>1. CASE PageComes(c)
    <3> DEFINE key == <<c.view, c.got, c.page>>
               l   == MergePage(lib, key, c.fresh)
    <3>1. /\ cache' = cache \cup {key}
          /\ lib' = IF c.awaited THEN Completed(l, c.got) ELSE l
          /\ c.status = "ok"
      BY <2>1 DEF PageComes, Comes
    <3>2. /\ c.view \in Views /\ c.got = c.gen /\ c.got \in Generations /\ c.page \in Pages
          /\ c.fresh => c.view = lib.view
          /\ c.awaited => c.got = lib.generation
      BY <1>1, <1>2, <3>1, StoreCallFields DEF PageCallsInv
    <3>3. key \in Keys /\ key[1] = c.view /\ key[2] = c.got
      BY <3>2 DEF Keys
    <3>4. c.fresh => l = Merged(lib, key)
      BY DEF Merged, MergePage
    <3>5. ~c.fresh => l = lib
      BY DEF MergePage
    <3> HIDE DEF key, l
    <3>6. /\ l \in Libraries
          /\ l.view = lib.view /\ l.generation = lib.generation /\ l.selected = lib.selected
          /\ l.loading = lib.loading
          /\ \A p \in l.pages : p \in lib.pages \/ (p = key /\ c.view = lib.view /\ c.got = lib.generation)
      <4>1. CASE c.fresh
        <5>1. /\ l \in Libraries
              /\ l.view = lib.view /\ l.generation = lib.generation /\ l.selected = lib.selected
              /\ l.loading = lib.loading
              /\ \A p \in l.pages : p \in lib.pages \/ (key[2] = lib.generation /\ p = key)
          BY <1>1, <3>3, <3>4, <4>1, MergeIs
        <5> QED  BY <3>2, <3>3, <4>1, <5>1
      <4>2. CASE ~c.fresh
        BY <1>1, <3>5, <4>2
      <4> QED  BY <4>1, <4>2
    <3>7. /\ lib' \in Libraries /\ lib'.view = lib.view /\ lib'.generation = lib.generation
          /\ lib'.selected = lib.selected /\ lib'.pages = l.pages
          /\ lib'.loading => lib.loading /\ ~c.awaited
      <4>1. CASE c.awaited
        BY <3>1, <3>2, <3>6, <4>1, CompletedIs
      <4>2. CASE ~c.awaited
        BY <3>1, <3>6, <4>2
      <4> QED  BY <4>1, <4>2
    <3>8. PagesAnswerTheQuery'
      BY <3>3, <3>6, <3>7 DEF StoreInv, PagesAnswerTheQuery
    <3> QED  BY <1>1, <3>1, <3>3, <3>7, <3>8 DEF StoreTypes, SamePlace, SameGeneration
  <2>2. CASE PageFails(c)
    <3>1. cache' = cache /\ lib' = IF c.awaited \/ c.watched THEN Refused(lib) ELSE lib
      BY <2>2 DEF PageFails
    <3>2. /\ lib' \in Libraries /\ lib'.view = lib.view /\ lib'.generation = lib.generation
          /\ lib'.selected = lib.selected /\ lib'.pages = lib.pages
          /\ lib'.loading => lib.loading /\ ~c.awaited
      BY <1>1, <3>1, RefusedIs
    <3> QED  BY <1>1, <3>1, <3>2 DEF StoreInv, StoreTypes, SamePlace, SameGeneration, PagesAnswerTheQuery
  <2> QED  BY <2>1, <2>2
<1>5. SameGeneration
  BY <1>4 DEF SamePlace
<1>6. PatchDone => PatchDone'
  BY <1>3, PatchFrame
<1>7. DetailCallsInv' /\ PlanCallsInv' /\ DetailIsAwaited' /\ PlanInv' /\ CatalogInv'
  BY <1>2, <1>3, <1>4, <1>5, <1>6, DetailFrame, PlanFrame, AwaitFrame, PreparedFrame, CatalogFrame DEF StoreInv
<1>8. StoreTypes'
  BY <1>1, <1>2, <1>4 DEF StoreTypes
<1>9. PageCallsInv'
  BY <1>1, <1>2, <1>4 DEF PageCallsInv, SamePlace, SameGeneration
<1>10. LoadingInv'
  BY <1>2, <1>4, <1>5 DEF StoreInv, LoadingInv, Loads, SameGeneration
<1> QED  BY <1>4, <1>7, <1>8, <1>9, <1>10 DEF StoreInv

LEMMA DetailStep ==
  ASSUME StoreInv, NEW c \in calls, DetailComes(c)
  PROVE  StoreInv'
<1>1. StoreTypes /\ calls \subseteq StoreCalls /\ c \in StoreCalls /\ DetailCallsInv /\ detail \in Details
  BY DEF StoreInv, StoreTypes
<1>2. c.kind = "detail" /\ calls' = calls \ {c}
      /\ UNCHANGED <<lib, cache, prepared, settings, served, stored, announced>>
  BY DEF DetailComes, Comes, Fails, Arrives, native
<1>3. CallsKept({"detail"}) /\ SamePlace /\ SameGeneration
  BY <1>2 DEF CallsKept, SamePlace, SameGeneration
<1>4. PatchDone => PatchDone'
  BY <1>3, PatchFrame
<1>5. PageCallsInv' /\ PlanCallsInv' /\ PlanInv' /\ CatalogInv' /\ LoadingInv' /\ PagesAnswerTheQuery'
  BY <1>2, <1>3, <1>4, PageFrame, PlanFrame, PreparedFrame, CatalogFrame, LoadingFrame, PagesFrame DEF StoreInv
<1>6. DetailCallsInv'
  BY <1>1, <1>2 DEF DetailCallsInv
<1>7. c.song \in Songs /\ (c.status = "ok" => c.got = c.gen)
      /\ (c.fresh => c.gen = lib.generation) /\ c.got \in Nat
  BY <1>1, <1>2, StoreCallFields DEF DetailCallsInv
<1>8. /\ detail' \in Details
      /\ \A s \in Songs : s # c.song => detail'[s] = detail[s]
      /\ c.fresh => detail'[c.song].state \in {"ready", "fatal"}
      /\ ~c.fresh => detail' = detail
      /\ detail'[c.song].state = "ready" => detail'[c.song].gen = lib.generation
  <2>1. CASE ~TakesDetail(c)
    <3>1. detail' = detail /\ ~c.fresh
      BY <1>7, <2>1 DEF DetailComes, TakesDetail
    <3> QED  BY <1>1, <1>7, <3>1 DEF StoreInv, DetailIsAwaited
  <2>2. CASE TakesDetail(c) /\ c.status = "ok"
    <3>1. detail' = [detail EXCEPT ![c.song] = [state |-> "ready", gen |-> c.got]]
      BY <2>2 DEF DetailComes
    <3> QED  BY <1>1, <1>7, <2>2, <3>1 DEF Details, TakesDetail
  <2>3. CASE TakesDetail(c) /\ c.status # "ok"
    <3>1. detail' = [detail EXCEPT ![c.song] = [state |-> "fatal", gen |-> 0]]
      BY <2>3 DEF DetailComes
    <3> QED  BY <1>1, <1>7, <2>3, <3>1 DEF Details, TakesDetail
  <2> QED  BY <2>1, <2>2, <2>3
<1>9. DetailIsAwaited'
  <2>1. \A s \in Songs : detail'[s].state = "ready" => detail'[s].gen = lib.generation
    BY <1>8 DEF StoreInv, DetailIsAwaited
  <2>2. ASSUME lib.selected # NoSong, detail'[lib.selected].state = "loading"
        PROVE  \E d \in calls' : d.kind = "detail" /\ d.song = lib.selected /\ d.fresh
    <3>1. lib.selected \in Songs
      BY <1>1, <2>2, LibFields DEF StoreTypes
    <3>2. detail'[lib.selected] = detail[lib.selected] /\ (lib.selected = c.song => ~c.fresh)
      BY <1>7, <1>8, <2>2, <3>1
    <3>3. PICK d \in calls : d.kind = "detail" /\ d.song = lib.selected /\ d.fresh
      BY <2>2, <3>2 DEF StoreInv, DetailIsAwaited
    <3> QED  BY <1>2, <3>2, <3>3
  <2> QED  BY <1>2, <2>1, <2>2 DEF DetailIsAwaited
<1>10. StoreTypes'
  BY <1>1, <1>2, <1>8 DEF StoreTypes
<1> QED  BY <1>5, <1>6, <1>9, <1>10 DEF StoreInv

LEMMA PlanStep ==
  ASSUME StoreInv, NEW c \in calls, PlanComes(c)
  PROVE  StoreInv'
<1>1. StoreTypes /\ calls \subseteq StoreCalls /\ c \in StoreCalls /\ PlanCallsInv
  BY DEF StoreInv, StoreTypes
<1>2. c.kind = "prepare" /\ calls' = calls \ {c}
      /\ UNCHANGED <<lib, cache, detail, settings, served, stored, announced>>
  BY DEF PlanComes, Comes, Fails, Arrives, native
<1>3. CallsKept({"prepare"}) /\ SamePlace /\ SameGeneration
  BY <1>2 DEF CallsKept, SamePlace, SameGeneration
<1>4. PatchDone => PatchDone'
  BY <1>3, PatchFrame
<1>5. PageCallsInv' /\ DetailCallsInv' /\ DetailIsAwaited' /\ CatalogInv' /\ LoadingInv' /\ PagesAnswerTheQuery'
  BY <1>2, <1>3, PageFrame, DetailFrame, AwaitFrame, CatalogFrame, LoadingFrame, PagesFrame DEF StoreInv
<1>6. PlanCallsInv'
  BY <1>1, <1>2, <1>4 DEF PlanCallsInv
<1>7. StoreTypes'
  BY <1>1, <1>2 DEF StoreTypes
<1>8. PlanInv'
  <2>1. CASE prepared' = prepared
    BY <1>2, <1>3, <1>4, <2>1, PreparedFrame DEF StoreInv
  <2>2. CASE prepared' = Unprepared
    BY <2>2 DEF PlanInv
  <2>3. CASE /\ TakesPlan(c) /\ c.status # "sent"
             /\ prepared' = [song |-> c.song, gen |-> c.gen, config |-> c.config, made |-> c.got]
    <3>1. c.status = "ok"
      BY <1>1, <1>2, <2>3, StoreCallFields DEF PlanCallsInv
    <3>2. c.config = settings /\ (c.got = stored \/ PatchDone)
      BY <1>1, <1>2, <2>3, <3>1 DEF PlanCallsInv, TakesPlan
    <3>3. prepared'.song = c.song /\ prepared'.gen = c.gen /\ prepared'.config = c.config /\ prepared'.made = c.got
      BY <2>3
    <3> QED  BY <1>2, <1>4, <2>3, <3>2, <3>3 DEF PlanInv, TakesPlan
  <2> QED  BY <2>1, <2>2, <2>3 DEF PlanComes
<1> QED  BY <1>5, <1>6, <1>7, <1>8 DEF StoreInv

LEMMA PatchStep ==
  ASSUME StoreInv, NEW c \in calls, PatchComes(c)
  PROVE  StoreInv'
<1>1. StoreTypes /\ calls \subseteq StoreCalls /\ c \in StoreCalls /\ c.kind = "patch"
      /\ UNCHANGED <<lib, cache, detail, served, stored, announced>>
  BY DEF StoreInv, StoreTypes, PatchComes, native
<1>2. CASE c.status = "ok" /\ calls' = Outdated(calls \ {c}, {"prepare"}) /\ settings' = c.got /\ prepared' = Unprepared
  <2>1. calls \ {c} \subseteq StoreCalls
    BY <1>1
  <2>2. calls' \subseteq StoreCalls /\ \A d \in calls \ {c} : d.kind \notin {"prepare"} => d \in calls'
    BY <1>2, <2>1, OutdatedIs
  <2>3. ASSUME NEW d \in calls'
        PROVE  /\ d.kind # "prepare" => d \in calls
               /\ d.kind = "prepare" => ~d.fresh /\ \E b \in calls : SameRequest(b, d) /\ SameAnswer(b, d)
    <3>1. PICK b \in calls \ {c} : /\ SameRequest(b, d) /\ SameAnswer(b, d)
                                   /\ b.kind \in {"prepare"} => ~d.fresh /\ ~d.awaited
                                   /\ b.kind \notin {"prepare"} => d = b
      BY <1>2, <2>1, OutdatedIs
    <3> QED  BY <3>1 DEF SameRequest
  <2>4. CallsKept({"prepare", "patch"}) /\ SamePlace /\ SameGeneration
    BY <1>1, <2>2, <2>3 DEF CallsKept, SamePlace, SameGeneration
  <2>5. PageCallsInv' /\ DetailCallsInv' /\ DetailIsAwaited' /\ CatalogInv' /\ LoadingInv' /\ PagesAnswerTheQuery'
    BY <1>1, <2>4, PageFrame, DetailFrame, AwaitFrame, CatalogFrame, LoadingFrame, PagesFrame DEF StoreInv
  <2>6. PlanCallsInv'
    <3> SUFFICES ASSUME NEW d \in calls', d.kind = "prepare"
                 PROVE  ~d.fresh
      BY DEF PlanCallsInv
    <3>1. PICK b \in calls : ~d.fresh /\ SameRequest(b, d) /\ SameAnswer(b, d)
      BY <2>3
    <3> QED  BY <3>1 DEF StoreInv, PlanCallsInv, SameRequest, SameAnswer
  <2>7. PlanInv'
    BY <1>2 DEF PlanInv
  <2>8. StoreTypes'
    <3>1. c.got \in Nat
      BY <1>1, StoreCallFields
    <3> QED  BY <1>1, <1>2, <2>2, <3>1 DEF StoreTypes
  <2> QED  BY <2>5, <2>6, <2>7, <2>8 DEF StoreInv
<1>3. CASE Fails(c) /\ UNCHANGED <<settings, prepared>>
  <2>1. calls' = calls \ {c} /\ c.status # "ok"
    BY <1>3 DEF Fails, Arrives
  <2>2. CallsKept({"patch"}) /\ SamePlace /\ SameGeneration
    BY <1>1, <2>1 DEF CallsKept, SamePlace, SameGeneration
  <2>3. PatchDone => PatchDone'
    BY <2>1 DEF PatchDone
  <2>4. PageCallsInv' /\ DetailCallsInv' /\ DetailIsAwaited' /\ CatalogInv' /\ LoadingInv' /\ PagesAnswerTheQuery'
    BY <1>1, <2>2, PageFrame, DetailFrame, AwaitFrame, CatalogFrame, LoadingFrame, PagesFrame DEF StoreInv
  <2>5. PlanCallsInv' /\ PlanInv'
    BY <1>1, <1>3, <2>2, <2>3, PlanFrame, PreparedFrame DEF StoreInv
  <2>6. StoreTypes'
    BY <1>1, <1>3, <2>1 DEF StoreTypes
  <2> QED  BY <2>4, <2>5, <2>6 DEF StoreInv
<1> QED  BY <1>2, <1>3 DEF PatchComes

(* A catalogue, or an announcement, comes: what it has to bring along. *)
LEMMA AdvanceStep ==
  ASSUME StoreInv, NEW g \in Generations, g \leq served, NEW cs, cs \subseteq calls, Advance(g, cs),
         UNCHANGED <<cache, settings, served, stored>>, announced' \subseteq announced,
         \A d \in calls : d.kind # "import" => d \in cs,
         \A h \in announced : h # g => h \in announced',
         \A d \in calls : d.kind = "import" /\ d.got # g => d \in cs
  PROVE  StoreInv'
<1>1. StoreTypes /\ lib \in Libraries /\ served \in Nat /\ g \in Nat /\ lib.generation \in Nat
      /\ (\A h \in announced : h \in Nat) /\ CatalogInv
  <2>1. lib \in Libraries /\ StoreTypes /\ CatalogInv
    BY DEF StoreInv, StoreTypes
  <2>2. lib.generation \in Generations
    BY <2>1, LibFields
  <2> QED  BY <2>1, <2>2, ActsAreNat DEF StoreTypes, Generations
<1>2. CASE g \leq lib.generation /\ calls' = cs /\ UNCHANGED <<lib, detail, prepared>>
  <2>1. CallsKept({"import"}) /\ SamePlace /\ SameGeneration
    BY <1>2 DEF CallsKept, SamePlace, SameGeneration
  <2>2. PatchDone => PatchDone'
    BY <2>1, PatchFrame
  <2>3. PageCallsInv' /\ DetailCallsInv' /\ DetailIsAwaited' /\ PagesAnswerTheQuery' /\ PlanCallsInv' /\ PlanInv'
    BY <1>2, <2>1, <2>2, PageFrame, DetailFrame, AwaitFrame, PagesFrame, PlanFrame, PreparedFrame DEF StoreInv
  <2>4. LoadingInv'
    <3> SUFFICES ASSUME lib.loading
                 PROVE  Loads'
      BY <1>2 DEF LoadingInv
    <3>1. Loads
      BY DEF StoreInv, LoadingInv
    <3> QED  BY <1>1, <1>2, <3>1 DEF Loads
  <2>5. CatalogInv'
    <3>1. \A d \in calls : d.kind = "import" /\ d.status # "sent" => d.got \in 1..served
      BY <1>1 DEF CatalogInv
    <3> QED  BY <1>1, <1>2, <3>1 DEF CatalogInv, Newest
  <2>6. StoreTypes'
    BY <1>1, <1>2 DEF StoreTypes
  <2> QED  BY <2>3, <2>4, <2>5, <2>6 DEF StoreInv
<1>3. CASE /\ g > lib.generation
           /\ Search([lib EXCEPT !.generation = g, !.selected = NoSong], Outdated(cs, {"detail", "prepare"}), lib.view)
           /\ detail' = NoDetail /\ prepared' = Unprepared
  <2> DEFINE l == [lib EXCEPT !.generation = g, !.selected = NoSong]
  <2>1. l \in Libraries /\ l.selected = NoSong /\ l.generation = g /\ lib.view \in Views
    BY <1>1 DEF Libraries
  <2>2. announced' \subseteq Generations
    BY <1>1 DEF StoreTypes
  <2>3. Search(l, Outdated(cs, {"detail", "prepare"}), lib.view)
    BY <1>3
  <2> HIDE DEF l
  <2>4. /\ StoreTypes' /\ PageCallsInv' /\ DetailCallsInv' /\ PlanCallsInv' /\ PagesAnswerTheQuery'
        /\ LoadingInv' /\ DetailIsAwaited' /\ PlanInv'
        /\ lib'.generation = g
        /\ \A d \in calls' : d.kind \in {"reload", "import"} => d \in cs
        /\ \A d \in cs : d.kind \in {"reload", "import"} => d \in calls'
    BY <1>3, <2>1, <2>2, <2>3, ResetKeeps
  <2>5. CatalogInv'
    <3>1. lib'.generation \leq served' /\ \A h \in announced' : h \leq served'
      BY <1>1, <2>4 DEF CatalogInv
    <3>2. \A c \in calls' : c.kind \in {"reload", "import"} /\ c.status # "sent" => c.got \in 1..served'
      BY <1>1, <2>4 DEF CatalogInv
    <3>3. ASSUME served > g
          PROVE  served \in announced' \/ \E c \in calls' : c.kind \in {"reload", "import"} /\ Newest(c)'
      <4>1. served \in announced \/ \E c \in calls : c.kind \in {"reload", "import"} /\ Newest(c)
        BY <1>1, <1>3, <3>3 DEF CatalogInv
      <4>2. ASSUME NEW c \in calls, c.kind \in {"reload", "import"}, Newest(c)
            PROVE  c \in calls' /\ Newest(c)'
        BY <1>1, <2>4, <3>3, <4>2 DEF Newest
      <4> QED  BY <1>1, <3>3, <4>1, <4>2
    <3> QED  BY <2>4, <3>1, <3>2, <3>3 DEF CatalogInv
  <2> QED  BY <2>4, <2>5 DEF StoreInv
<1> QED  BY <1>2, <1>3 DEF Advance

LEMMA EventSteps ==
  ASSUME StoreInv, NEW g \in Generations, CatalogChanged(g)
  PROVE  StoreInv'
<1>1. g \in announced /\ announced' = announced \ {g} /\ Advance(g, calls)
      /\ UNCHANGED <<cache, settings, served, stored>>
  BY DEF CatalogChanged
<1>2. g \leq served
  BY <1>1 DEF StoreInv, CatalogInv
<1>3. announced' \subseteq announced /\ \A h \in announced : h # g => h \in announced'
  BY <1>1
<1> QED  BY <1>1, <1>2, <1>3, AdvanceStep

LEMMA ImportStep ==
  ASSUME StoreInv, NEW c \in calls, ImportComes(c)
  PROVE  StoreInv'
<1>1. StoreTypes /\ calls \subseteq StoreCalls /\ c \in StoreCalls /\ CatalogInv /\ served \in Generations
      /\ c.kind = "import" /\ UNCHANGED <<cache, settings, served, stored, announced>>
  BY DEF StoreInv, StoreTypes, ImportComes, native
<1>2. CASE c.status = "ok" /\ Advance(c.got, calls \ {c})
  <2>1. c.got \in 1..served
    BY <1>1, <1>2 DEF CatalogInv
  <2>2. c.got \in Generations /\ c.got \leq served
    BY <1>1, <2>1, ActsAreNat DEF Generations
  <2>3. /\ calls \ {c} \subseteq calls /\ announced' \subseteq announced
        /\ \A d \in calls : d.kind # "import" => d \in calls \ {c}
        /\ \A h \in announced : h # c.got => h \in announced'
        /\ \A d \in calls : d.kind = "import" /\ d.got # c.got => d \in calls \ {c}
    BY <1>1
  <2> QED  BY <1>1, <1>2, <2>2, <2>3, AdvanceStep
<1>3. CASE Fails(c) /\ UNCHANGED <<lib, detail, prepared>>
  <2>1. calls' = calls \ {c} /\ ~Newest(c)
    BY <1>3 DEF Fails, Arrives, Newest
  <2>2. CallsKept({"import"}) /\ CallsKept({"reload", "import"})
    BY <1>1, <2>1 DEF CallsKept
  <2>3. UNCHANGED <<store, stored>>
    BY <1>1, <1>3 DEF store
  <2>4. LoadingInv'
    BY <1>1, <2>2, <2>3, StoreFrame
  <2>5. StoreTypes'
    BY <1>1, <1>3, <2>1 DEF StoreTypes
  <2>6. CatalogInv'
    BY <1>1, <1>3, <2>1 DEF CatalogInv, Newest
  <2> QED  BY <2>2, <2>3, <2>4, <2>5, <2>6, CatalogStepKeeps DEF StoreInv
<1> QED  BY <1>2, <1>3 DEF ImportComes

LEMMA ReloadStep ==
  ASSUME StoreInv, NEW c \in calls, ReloadComes(c)
  PROVE  StoreInv'
<1>1. StoreTypes /\ calls \subseteq StoreCalls /\ c \in StoreCalls /\ CatalogInv /\ lib \in Libraries
      /\ c.kind = "reload" /\ UNCHANGED <<cache, detail, prepared, settings, served, stored, announced>>
  BY DEF StoreInv, StoreTypes, ReloadComes, native
<1>2. /\ calls' = calls \ {c} /\ ~Newest(c)
      /\ \/ c.status = "ok" /\ lib' = lib
         \/ lib' = Refused(lib)
  BY <1>1 DEF ReloadComes, Comes, Fails, Arrives, Newest
<1>3. /\ lib' \in Libraries /\ SamePlace /\ SameGeneration /\ lib'.pages = lib.pages
      /\ lib'.selected = lib.selected
      /\ lib'.loading => lib.loading /\ c.status = "ok"
  BY <1>1, <1>2, RefusedIs DEF SamePlace, SameGeneration
<1>4. CallsKept({"reload"})
  BY <1>1, <1>2 DEF CallsKept
<1>5. PatchDone => PatchDone'
  BY <1>4, PatchFrame
<1>6. PageCallsInv' /\ DetailCallsInv' /\ DetailIsAwaited' /\ PagesAnswerTheQuery' /\ PlanCallsInv' /\ PlanInv'
  BY <1>1, <1>3, <1>4, <1>5, PageFrame, DetailFrame, AwaitFrame, PagesFrame, PlanFrame, PreparedFrame DEF StoreInv
<1>7. LoadingInv'
  BY <1>1, <1>2, <1>3 DEF StoreInv, LoadingInv, Loads, SameGeneration
<1>8. StoreTypes'
  BY <1>1, <1>2, <1>3 DEF StoreTypes
<1>9. CatalogInv'
  BY <1>1, <1>2, <1>3 DEF CatalogInv, Newest, SameGeneration
<1> QED  BY <1>6, <1>7, <1>8, <1>9 DEF StoreInv

(***************************************************************************)
(* The theorem.                                                            *)
(***************************************************************************)
LEMMA StoreStep ==
  ASSUME StoreInv, [StoreNext]_storeVars
  PROVE  StoreInv'
<1>1. CASE User
  BY <1>1, SearchForStep, SelectSourceStep, SelectSongStep, UserSteps DEF User
<1>2. CASE Serve
  <2>1. ASSUME NEW c \in calls, Announce(c)
        PROVE  c.kind \in {"reload", "import"}
    BY <2>1, StoreCallFields DEF StoreInv, StoreTypes, Announce
  <2> QED  BY <1>2, <2>1, ServeReadStep, ServeReloadStep, AnnounceStep, ServePatchStep DEF Serve
<1>3. CASE Answer
  BY <1>3, PageStep, DetailStep, PlanStep, PatchStep, ImportStep, ReloadStep DEF Answer
<1>4. CASE Event
  BY <1>4, EventSteps DEF Event
<1>5. CASE Scroll
  BY <1>5, SetViewportStep DEF Scroll
<1>6. CASE UNCHANGED storeVars
  BY <1>6 DEF storeVars, store, native, StoreInv, StoreTypes, PageCallsInv, DetailCallsInv, PlanCallsInv,
     PatchDone, PagesAnswerTheQuery, LoadingInv, Loads, DetailIsAwaited, PlanInv, CatalogInv, Newest
<1> QED  BY <1>1, <1>2, <1>3, <1>4, <1>5, <1>6 DEF StoreNext


LEMMA StoreInvariant == StoreSpec => []StoreInv
<1>1. StoreInit => StoreInv
  BY StoreStarts
<1>2. StoreInv /\ [StoreNext]_storeVars => StoreInv'
  BY StoreStep
<1> QED  BY <1>1, <1>2, PTL DEF StoreSpec

(* The library, the page cache and the announced generations keep their types. *)
THEOREM StoreIsTyped == StoreSpec => []StoreTypeOK
<1>1. StoreInv => StoreTypeOK
  BY DEF StoreInv, StoreTypes, StoreTypeOK, Libraries, Keys
<1> QED  BY <1>1, StoreInvariant, PTL

(* Whatever answers, failures and announcements come in whatever order, the  *)
(* window shows the query asked last, a plan of the selected song, and a     *)
(* spinner only where an answer will be taken; and once everything has come  *)
(* the store has the catalogue's generation (store.ts:380-520, 940-964).     *)
THEOREM TheViewIsCurrent == StoreSpec => []ViewIsCurrent
<1> SUFFICES StoreInv => ViewIsCurrent
  BY StoreInvariant, PTL
<1> SUFFICES ASSUME StoreInv
             PROVE  ViewIsCurrent
  OBVIOUS
<1>1. LoadingIsAwaited
  BY DEF StoreInv, LoadingInv, Loads, LoadingIsAwaited
<1>2. PreparedIsCurrent
  BY DEF StoreInv, PlanInv, PatchDone, PreparedIsCurrent
<1>3. CatchesUp
  <2>1. served \in Nat /\ lib.generation \in Nat
    <3>1. lib.generation \in Generations
      BY LibFields DEF StoreInv, StoreTypes
    <3> QED  BY <3>1, ActsAreNat DEF StoreInv, StoreTypes, Generations
  <2> QED  BY <2>1 DEF StoreInv, CatalogInv, CatchesUp
<1> QED  BY <1>1, <1>2, <1>3 DEF StoreInv, ViewIsCurrent

-----------------------------------------------------------------------------
(***************************************************************************)
(* The reports on a playback's health.  A snapshot that has seen the end   *)
(* was begun after the worker's last store, so that every cell it has      *)
(* loaded since is the last; and a supervisor that publishes holds the     *)
(* gate that a switch waits for.                                           *)
(***************************************************************************)

\* A snapshot in progress, or one that is taken.
SnapshotRecord ==
  [at : Nat, phase : {"load", "gate", "publish", "over"},
   use : {"playback", "diagnostics", "report"},
   lifecycle : {"running", "finished", "poisoned"}, metrics : Metrics,
   terminal : BOOLEAN, last : BOOLEAN, ready : BOOLEAN, latency : BOOLEAN, sample : Nat]

\* What the worker has stored by the time it is where it is.
CellsInv ==
  /\ errors.last \in BOOLEAN /\ errors.terminal \in BOOLEAN
  /\ errors = [last |-> errors.last, terminal |-> errors.terminal]
  /\ startup.ready \in BOOLEAN /\ startup.latency \in BOOLEAN
  /\ startup = [ready |-> startup.ready, latency |-> startup.latency]
  /\ metrics \in Metrics
  /\ lifecycle \in {"running", "finished", "poisoned"}
  /\ lifecycle # "running" <=> worker = "over"
  /\ worker = "refused" \/ (lifecycle = "finished" /\ ~metrics.final) => errors.last
  /\ worker = "ending" => metrics.final
  /\ worker = "panicked" \/ lifecycle = "poisoned" => errors.terminal
  /\ worker \in {"timed", "playing"} \/ startup.ready => startup.latency

\* Which cells a snapshot has loaded when n is the next one.
HasMetrics(n) == n > 2
HasTerminal(use, n) == IF use = "report" THEN n > 5 ELSE n > 3
HasLast(n) == n > 4
HasLatency(n) == n > 6

\* A snapshot that knows of the end holds the last values of what it has loaded
\* since, and one that knows of a ready worker finds the latency.
TruthfulAt(x, n) ==
  /\ Finished(x) =>
       /\ x.lifecycle = lifecycle
       /\ HasMetrics(n) => x.metrics = metrics
       /\ HasTerminal(x.use, n) => x.terminal = errors.terminal
       /\ HasLast(n) => x.last = errors.last
  /\ x.ready => x.use = "report" /\ n > 3 /\ startup.ready
  /\ x.ready /\ HasLatency(n) => x.latency

Truthful(x) == x.at >= 1 /\ TruthfulAt(x, x.at)

\* A supervisor that publishes holds the gate, which was enabled when it came.
GateInv ==
  /\ gate.sequence \in Nat /\ reported.sequence \in Nat
  /\ reported.sequence <= gate.sequence
  /\ gate.enabled \in BOOLEAN
  /\ gate = [enabled |-> gate.enabled, epoch |-> gate.epoch, emitted |-> gate.emitted,
             sequence |-> gate.sequence, owner |-> gate.owner]
  /\ reported = [sequence |-> reported.sequence, backend |-> reported.backend,
                 health |-> reported.health]
  /\ quiet => ~gate.enabled
  /\ gateNow \in Nat
  /\ \A s \in Supervisors : super[s].phase = "publish" =>
       gate.owner = s /\ gate.enabled /\ gate.sequence > reported.sequence

SnapshotsInv ==
  /\ super \in [Supervisors -> SnapshotRecord]
  /\ \A s \in Supervisors : Truthful(super[s])

HealthInv == CellsInv /\ SnapshotsInv /\ GateInv

\* A supervisor that starts over, or leaves, knows of nothing.
LEMMA PollingIsTruthful ==
  /\ \A x \in {Polling, [Polling EXCEPT !.use = "diagnostics"], [Polling EXCEPT !.phase = "over"]} :
       x \in SnapshotRecord /\ Truthful(x) /\ x.phase # "publish"
<1>1. Clean \in Metrics
  BY DEF Clean, Metrics
<1>2. Polling \in SnapshotRecord
  BY <1>1 DEF Polling, SnapshotRecord
<1>3. /\ [Polling EXCEPT !.use = "diagnostics"] \in SnapshotRecord
      /\ [Polling EXCEPT !.phase = "over"] \in SnapshotRecord
  BY <1>2 DEF SnapshotRecord
<1>4. Polling.at = 1 /\ Polling.phase = "load" /\ Polling.lifecycle = "running" /\ Polling.ready = FALSE
  BY DEF Polling
<1>5. QED
  BY <1>2, <1>3, <1>4 DEF SnapshotRecord, Truthful, TruthfulAt, Finished

LEMMA HealthInvInit == ReportsInit => HealthInv
<1> SUFFICES ASSUME ReportsInit PROVE HealthInv
  OBVIOUS
<1> USE DEF ReportsInit
<1>1. CellsInv
  BY DEF CellsInv, Clean, Metrics
<1>2. SnapshotsInv
  BY PollingIsTruthful DEF SnapshotsInv
<1>3. GateInv
  BY DEF GateInv, Polling
<1>4. QED
  BY <1>1, <1>2, <1>3 DEF HealthInv

\* A step of the worker: nothing moves once the lifecycle is stored.
LEMMA WorkerIsTruthful ==
  ASSUME HealthInv, Worker
  PROVE  HealthInv'
<1> USE DEF HealthInv
<1>1. /\ UNCHANGED <<super, gate, quiet, reported, gateNow>>
      /\ worker # "over"
  BY DEF Worker, RefusesBoot, StoreLatency, StoreReady, PublishError, PublishMetrics,
         StoreTerminalError, PublishFinal, Panics, StoreLifecycle, Unread, gateVars
<1>2. CellsInv'
  <2>1. CASE RefusesBoot
    BY <2>1 DEF RefusesBoot, CellsInv
  <2>2. CASE StoreLatency
    BY <2>2 DEF StoreLatency, CellsInv
  <2>3. CASE StoreReady
    BY <2>3 DEF StoreReady, CellsInv
  <2>4. CASE PublishError
    BY <2>4 DEF PublishError, CellsInv
  <2>5. CASE PublishMetrics
    BY <2>5 DEF PublishMetrics, CellsInv
  <2>6. CASE StoreTerminalError
    BY <2>6 DEF StoreTerminalError, CellsInv
  <2>7. CASE PublishFinal
    BY <2>7 DEF PublishFinal, CellsInv
  <2>8. CASE Panics
    BY <2>8 DEF Panics, CellsInv
  <2>9. CASE StoreLifecycle
    BY <2>9 DEF StoreLifecycle, CellsInv
  <2>10. QED
    BY <2>1, <2>2, <2>3, <2>4, <2>5, <2>6, <2>7, <2>8, <2>9 DEF Worker
<1>3. startup.ready => startup'.ready
  BY DEF Worker, RefusesBoot, StoreLatency, StoreReady, PublishError, PublishMetrics,
         StoreTerminalError, PublishFinal, Panics, StoreLifecycle, CellsInv
<1>4. ASSUME NEW s \in Supervisors PROVE ~Finished(super[s])
  BY <1>1, <1>4 DEF SnapshotsInv, Truthful, TruthfulAt, Finished, CellsInv
<1>5. SnapshotsInv'
  BY <1>1, <1>3, <1>4 DEF SnapshotsInv, Truthful, TruthfulAt, Finished, HasLatency
<1>6. GateInv'
  BY <1>1 DEF GateInv
<1>7. QED
  BY <1>2, <1>5, <1>6

\* A step of one supervisor that leaves the gate and the events alone.
LEMMA SnapshotEdit ==
  ASSUME HealthInv, NEW s \in Supervisors, NEW x \in SnapshotRecord,
         super' = [super EXCEPT ![s] = x],
         UNCHANGED <<workerVars, gate, quiet, gateNow>>,
         reported'.sequence = reported.sequence,
         reported' = [sequence |-> reported'.sequence, backend |-> reported'.backend,
                      health |-> reported'.health],
         Truthful(x), x.phase = "publish" => super[s].phase = "publish"
  PROVE  HealthInv'
<1> USE DEF HealthInv
<1>1. CellsInv'
  BY DEF CellsInv, workerVars
<1>2. SnapshotsInv'
  BY DEF SnapshotsInv, workerVars, Truthful, TruthfulAt, Finished, HasMetrics, HasTerminal, HasLast, HasLatency
<1>3. GateInv'
  BY DEF GateInv, SnapshotsInv
<1>4. QED
  BY <1>1, <1>2, <1>3

\* The cells in their order, for a report and for an event.
LEMMA CellOrder ==
  ASSUME NEW x \in SnapshotRecord, x.at >= 1, x.at <= Len(LoadOrder(x.use))
  PROVE  /\ LoadOrder(x.use)[x.at] = "lifecycle" => x.at = 1
         /\ LoadOrder(x.use)[x.at] = "metrics" => x.at = 2
         /\ LoadOrder(x.use)[x.at] = "terminal" => IF x.use = "report" THEN x.at = 5 ELSE x.at = 3
         /\ LoadOrder(x.use)[x.at] = "last" => x.at = 4
         /\ LoadOrder(x.use)[x.at] = "ready" => x.use = "report" /\ x.at = 3
         /\ LoadOrder(x.use)[x.at] = "latency" => x.use = "report" /\ x.at = 6
<1>1. CASE x.use = "report"
  BY <1>1 DEF LoadOrder, SnapshotRecord
<1>2. CASE x.use # "report"
  BY <1>2 DEF LoadOrder, SnapshotRecord
<1>3. QED
  BY <1>1, <1>2

\* One load: the snapshot stays truthful.
LEMMA LoadIsTruthful ==
  ASSUME HealthInv, NEW s \in Supervisors,
         \/ LoadLifecycle(s) \/ LoadMetrics(s) \/ LoadTerminalError(s) \/ LoadLastError(s)
         \/ LoadReady(s) \/ LoadLatency(s)
  PROVE  HealthInv'
<1> DEFINE x == super[s]
<1>1. x \in SnapshotRecord /\ Truthful(x) /\ CellsInv
  BY DEF HealthInv, SnapshotsInv
<1>2. ASSUME NEW cell, NEW y \in SnapshotRecord, Load(s, cell, y), y.at = x.at, y.phase = x.phase,
             TruthfulAt(y, x.at + 1)
      PROVE  HealthInv'
  <2>1. PICK z : z = [y EXCEPT !.at = @ + 1]
    OBVIOUS
  <2>2. /\ super' = [super EXCEPT ![s] = z]
        /\ UNCHANGED <<workerVars, gate, quiet, gateNow, reported>>
        /\ x.phase = "load"
    BY <1>2, <2>1 DEF Load, gateVars
  <2>3. z \in SnapshotRecord /\ z.at = x.at + 1 /\ z.phase # "publish"
    BY <1>1, <1>2, <2>1, <2>2 DEF SnapshotRecord
  <2>4. Truthful(z)
    BY <1>1, <1>2, <2>1, <2>3 DEF SnapshotRecord, Truthful, TruthfulAt, Finished
  <2>5. reported' = [sequence |-> reported'.sequence, backend |-> reported'.backend,
                     health |-> reported'.health]
    BY <2>2 DEF HealthInv, GateInv
  <2>6. QED
    BY <2>2, <2>3, <2>4, <2>5, SnapshotEdit
<1>3. CASE LoadLifecycle(s)
  <2>1. PICK use \in {"playback", "diagnostics", "report"} :
          Load(s, "lifecycle", [x EXCEPT !.use = use, !.lifecycle = lifecycle])
    BY <1>3 DEF LoadLifecycle
  <2>2. PICK w : w = [x EXCEPT !.use = use]
    OBVIOUS
  <2> DEFINE y == [w EXCEPT !.lifecycle = lifecycle]
  <2>3. Load(s, "lifecycle", y)
    BY <2>1, <2>2, Zenon
  <2>4. x.at = 1
    BY <1>1, <2>1, CellOrder DEF Load, Truthful
  <2>5. /\ w \in SnapshotRecord /\ y \in SnapshotRecord
        /\ y.at = x.at /\ y.phase = x.phase /\ y.lifecycle = lifecycle /\ y.ready = x.ready /\ y.use = use
    BY <1>1, <2>2 DEF SnapshotRecord, CellsInv
  <2>6. ~x.ready
    BY <1>1, <2>4 DEF Truthful, TruthfulAt
  <2>7. TruthfulAt(y, x.at + 1)
    BY <1>1, <2>4, <2>5, <2>6 DEF Truthful, TruthfulAt, HasMetrics, HasTerminal, HasLast, HasLatency
  <2>8. QED
    BY <1>2, <2>3, <2>5, <2>7
<1>4. CASE LoadMetrics(s)
  <2> DEFINE y == [x EXCEPT !.metrics = metrics]
  <2>1. Load(s, "metrics", y)
    BY <1>4 DEF LoadMetrics
  <2>2. x.at = 2
    BY <1>1, <2>1, CellOrder DEF Load, Truthful
  <2>3. y \in SnapshotRecord /\ y.at = x.at /\ y.phase = x.phase
    BY <1>1 DEF SnapshotRecord, CellsInv
  <2>4. TruthfulAt(y, x.at + 1)
    BY <1>1, <2>2 DEF SnapshotRecord, CellsInv, Truthful, TruthfulAt, Finished, HasMetrics,
       HasTerminal, HasLast, HasLatency
  <2>5. QED
    BY <1>2, <2>1, <2>3, <2>4
<1>5. CASE LoadTerminalError(s)
  <2> DEFINE y == [x EXCEPT !.terminal = errors.terminal]
  <2>1. Load(s, "terminal", y)
    BY <1>5 DEF LoadTerminalError
  <2>2. IF x.use = "report" THEN x.at = 5 ELSE x.at = 3
    BY <1>1, <2>1, CellOrder DEF Load, Truthful
  <2>3. y \in SnapshotRecord /\ y.at = x.at /\ y.phase = x.phase
    BY <1>1 DEF SnapshotRecord, CellsInv
  <2>4. TruthfulAt(y, x.at + 1)
    BY <1>1, <2>2 DEF SnapshotRecord, CellsInv, Truthful, TruthfulAt, Finished, HasMetrics,
       HasTerminal, HasLast, HasLatency
  <2>5. QED
    BY <1>2, <2>1, <2>3, <2>4
<1>6. CASE LoadLastError(s)
  <2> DEFINE y == [x EXCEPT !.last = errors.last]
  <2>1. Load(s, "last", y)
    BY <1>6 DEF LoadLastError
  <2>2. x.at = 4
    BY <1>1, <2>1, CellOrder DEF Load, Truthful
  <2>3. y \in SnapshotRecord /\ y.at = x.at /\ y.phase = x.phase
    BY <1>1 DEF SnapshotRecord, CellsInv
  <2>4. TruthfulAt(y, x.at + 1)
    BY <1>1, <2>2 DEF SnapshotRecord, CellsInv, Truthful, TruthfulAt, Finished, HasMetrics,
       HasTerminal, HasLast, HasLatency
  <2>5. QED
    BY <1>2, <2>1, <2>3, <2>4
<1>7. CASE LoadReady(s)
  <2> DEFINE y == [x EXCEPT !.ready = startup.ready]
  <2>1. Load(s, "ready", y)
    BY <1>7 DEF LoadReady
  <2>2. x.use = "report" /\ x.at = 3
    BY <1>1, <2>1, CellOrder DEF Load, Truthful
  <2>3. y \in SnapshotRecord /\ y.at = x.at /\ y.phase = x.phase
    BY <1>1 DEF SnapshotRecord, CellsInv
  <2>4. TruthfulAt(y, x.at + 1)
    BY <1>1, <2>2 DEF SnapshotRecord, CellsInv, Truthful, TruthfulAt, Finished, HasMetrics,
       HasTerminal, HasLast, HasLatency
  <2>5. QED
    BY <1>2, <2>1, <2>3, <2>4
<1>8. CASE LoadLatency(s)
  <2> DEFINE y == [x EXCEPT !.latency = @ \/ (x.ready /\ startup.latency)]
  <2>1. Load(s, "latency", y)
    BY <1>8 DEF LoadLatency
  <2>2. x.use = "report" /\ x.at = 6
    BY <1>1, <2>1, CellOrder DEF Load, Truthful
  <2>3. y \in SnapshotRecord /\ y.at = x.at /\ y.phase = x.phase
    BY <1>1 DEF SnapshotRecord, CellsInv
  <2>4. TruthfulAt(y, x.at + 1)
    BY <1>1, <2>2 DEF SnapshotRecord, CellsInv, Truthful, TruthfulAt, Finished, HasMetrics,
       HasTerminal, HasLast, HasLatency
  <2>5. QED
    BY <1>2, <2>1, <2>3, <2>4
<1>9. QED
  BY <1>3, <1>4, <1>5, <1>6, <1>7, <1>8

\* A step that leaves the loads alone; the gate is taken and given back.
LEMMA GateIsKept ==
  ASSUME HealthInv, NEW s \in Supervisors,
         \/ PlaybackEvent(s) \/ ReportTaken(s) \/ SampleTime(s) \/ GateRefuses(s)
         \/ GateAdmits(s) \/ DiagnosticsEvent(s) \/ DeliveryFails(s) \/ SupervisorEnds(s)
  PROVE  HealthInv'
<1> DEFINE x == super[s]
<1>1. x \in SnapshotRecord /\ Truthful(x) /\ CellsInv /\ GateInv
  BY DEF HealthInv, SnapshotsInv
<1>3. CASE PlaybackEvent(s)
  BY <1>1, <1>3, SnapshotEdit, PollingIsTruthful DEF PlaybackEvent, GateInv
<1>4. CASE ReportTaken(s)
  BY <1>1, <1>4, SnapshotEdit, PollingIsTruthful DEF ReportTaken, gateVars, GateInv
<1>5. CASE SampleTime(s)
  <2> DEFINE y == [x EXCEPT !.phase = "gate", !.sample = gateNow]
  <2>1. y \in SnapshotRecord /\ y.phase # "publish"
    BY <1>1 DEF SnapshotRecord, GateInv
  <2>2. Truthful(y)
    BY <1>1 DEF SnapshotRecord, Truthful, TruthfulAt, Finished, HasMetrics, HasTerminal, HasLast, HasLatency
  <2>3. super' = [super EXCEPT ![s] = y]
    BY <1>5 DEF SampleTime, HealthInv, SnapshotsInv
  <2>4. QED
    BY <1>1, <1>5, <2>1, <2>2, <2>3, SnapshotEdit DEF SampleTime, gateVars, GateInv
<1>6. CASE GateRefuses(s)
  BY <1>1, <1>6, SnapshotEdit, PollingIsTruthful DEF GateRefuses, gateVars, GateInv
<1>7. CASE GateAdmits(s)
  <2> DEFINE y == [x EXCEPT !.phase = "publish"]
  <2>1. y \in SnapshotRecord
    BY <1>1 DEF SnapshotRecord
  <2>2. Truthful(y)
    BY <1>1 DEF SnapshotRecord, Truthful, TruthfulAt, Finished, HasMetrics, HasTerminal, HasLast, HasLatency
  <2>3. /\ super' = [super EXCEPT ![s] = y]
        /\ UNCHANGED <<workerVars, quiet, reported, gateNow>>
    BY <1>7 DEF GateAdmits
  <2>4. SnapshotsInv'
    BY <1>1, <2>1, <2>2, <2>3 DEF HealthInv, SnapshotsInv, workerVars, Truthful, TruthfulAt, Finished,
       HasMetrics, HasTerminal, HasLast, HasLatency
  <2>5. CellsInv'
    BY <1>1, <2>3 DEF CellsInv, workerVars
  <2>6. /\ gate.owner = Never /\ gate.enabled
        /\ gate'.owner = s /\ gate'.sequence = gate.sequence + 1 /\ gate'.enabled = gate.enabled
        /\ gate' = [enabled |-> gate'.enabled, epoch |-> gate'.epoch, emitted |-> gate'.emitted,
                    sequence |-> gate'.sequence, owner |-> gate'.owner]
    BY <1>1, <1>7 DEF GateAdmits, Due, GateInv
  <2>7. ASSUME NEW t \in Supervisors, super'[t].phase = "publish" PROVE t = s
    BY <1>1, <2>3, <2>6, <2>7, NeverIsNobody DEF GateInv, HealthInv, SnapshotsInv
  <2>8. GateInv'
    BY <1>1, <2>3, <2>6, <2>7 DEF GateInv
  <2>9. QED
    BY <2>4, <2>5, <2>8 DEF HealthInv
<1>8. CASE super[s].phase = "publish" /\ (DiagnosticsEvent(s) \/ DeliveryFails(s))
  <2>1. PICK y \in SnapshotRecord :
          /\ super' = [super EXCEPT ![s] = y]
          /\ Truthful(y) /\ y.phase # "publish"
    BY <1>8, PollingIsTruthful DEF DiagnosticsEvent, DeliveryFails
  <2>2. /\ UNCHANGED <<workerVars, quiet, gateNow>>
        /\ gate' = [gate EXCEPT !.owner = Never]
        /\ reported'.sequence \in {reported.sequence, gate.sequence}
        /\ reported' = [sequence |-> reported'.sequence, backend |-> reported'.backend,
                        health |-> reported'.health]
    BY <1>1, <1>8 DEF DiagnosticsEvent, DeliveryFails, Taken, SnapshotRecord, GateInv
  <2>3. SnapshotsInv'
    BY <1>1, <2>1, <2>2 DEF HealthInv, SnapshotsInv, workerVars, Truthful, TruthfulAt, Finished,
       HasMetrics, HasTerminal, HasLast, HasLatency
  <2>4. CellsInv'
    BY <1>1, <2>2 DEF CellsInv, workerVars
  <2>5. ASSUME NEW t \in Supervisors PROVE super'[t].phase # "publish"
    BY <1>1, <1>8, <2>1 DEF GateInv, HealthInv, SnapshotsInv
  <2>6. GateInv'
    BY <1>1, <2>2, <2>5 DEF GateInv
  <2>7. QED
    BY <2>3, <2>4, <2>6 DEF HealthInv
<1>9. CASE DeliveryFails(s) /\ super[s].phase # "publish"
  BY <1>1, <1>9, SnapshotEdit, PollingIsTruthful DEF DeliveryFails, GateInv
<1>10. CASE SupervisorEnds(s)
  BY <1>1, <1>10, SnapshotEdit, PollingIsTruthful DEF SupervisorEnds, gateVars, GateInv
<1>11. DiagnosticsEvent(s) => super[s].phase = "publish"
  BY DEF DiagnosticsEvent
<1>12. QED
  BY <1>3, <1>4, <1>5, <1>6, <1>7, <1>8, <1>9, <1>10, <1>11

LEMMA HealthInvNext == HealthInv /\ [ReportsNext]_reportVars => HealthInv'
<1> SUFFICES ASSUME HealthInv, [ReportsNext]_reportVars
             PROVE  HealthInv'
  OBVIOUS
<1>1. CASE Worker
  BY <1>1, WorkerIsTruthful
<1>2. CASE Tick
  BY <1>2 DEF Tick, workerVars, gateVars, HealthInv, CellsInv, SnapshotsInv, Truthful, TruthfulAt, Finished,
     HasMetrics, HasTerminal, HasLast, HasLatency, GateInv
<1>3. ASSUME NEW s \in Supervisors, Supervise(s) PROVE HealthInv'
  BY <1>3, LoadIsTruthful, GateIsKept DEF Supervise
<1>4. ASSUME NEW on \in BOOLEAN, Toggle(on) PROVE HealthInv'
  <2>1. CellsInv' /\ SnapshotsInv'
    BY <1>4 DEF Toggle, workerVars, HealthInv, CellsInv, SnapshotsInv, Truthful, TruthfulAt, Finished,
       HasMetrics, HasTerminal, HasLast, HasLatency
  <2>2. ASSUME NEW s \in Supervisors PROVE super'[s].phase # "publish"
    BY <1>4, NeverIsNobody DEF Toggle, HealthInv, GateInv
  <2>3. GateInv'
    BY <1>4, <2>2 DEF Toggle, HealthInv, GateInv
  <2>4. QED
    BY <2>1, <2>3 DEF HealthInv
<1>5. CASE UNCHANGED reportVars
  BY <1>5 DEF reportVars, workerVars, gateVars, HealthInv, CellsInv, SnapshotsInv, Truthful, TruthfulAt, Finished,
     HasMetrics, HasTerminal, HasLast, HasLatency, GateInv
<1>6. QED
  BY <1>1, <1>2, <1>3, <1>4, <1>5 DEF ReportsNext

LEMMA TruthfulSnapshots == HealthInv => SnapshotsAreOrdered
<1> SUFFICES ASSUME HealthInv, NEW s \in Supervisors, super[s].at > Len(LoadOrder(super[s].use))
             PROVE  /\ Finished(super[s]) =>
                         super[s].terminal = errors.terminal /\ super[s].last = errors.last
                    /\ super[s].lifecycle = "finished" => super[s].metrics.final \/ super[s].last
                    /\ super[s].lifecycle = "poisoned" => super[s].terminal
                    /\ super[s].ready => super[s].latency
  BY DEF SnapshotsAreOrdered
<1>1. super[s] \in SnapshotRecord /\ Truthful(super[s]) /\ CellsInv
  BY DEF HealthInv, SnapshotsInv
<1>2. super[s].at > IF super[s].use = "report" THEN 6 ELSE 4
  BY DEF LoadOrder
<1>3. QED
  BY <1>1, <1>2 DEF SnapshotRecord, CellsInv, Truthful, TruthfulAt, Finished, HasMetrics, HasTerminal, HasLast,
     HasLatency

LEMMA DisabledMeansSilent ==
  HealthInv /\ [ReportsNext]_reportVars =>
    [reported'.sequence # reported.sequence => ~quiet /\ reported'.sequence > reported.sequence]_reportVars
<1> SUFFICES ASSUME HealthInv, ReportsNext, reported'.sequence # reported.sequence
             PROVE  ~quiet /\ reported'.sequence > reported.sequence
  OBVIOUS
<1>1. ASSUME NEW s \in Supervisors, ~DiagnosticsEvent(s), Supervise(s) PROVE FALSE
  BY <1>1 DEF Supervise, LoadLifecycle, LoadMetrics, LoadTerminalError, LoadLastError, LoadReady,
     LoadLatency, Load, PlaybackEvent, ReportTaken, SampleTime, GateRefuses, GateAdmits,
     DeliveryFails, SupervisorEnds, gateVars, HealthInv, GateInv
<1>2. PICK s \in Supervisors : DiagnosticsEvent(s)
  <2>1. ~Worker /\ ~Tick /\ \A on \in BOOLEAN : ~Toggle(on)
    BY DEF Worker, RefusesBoot, StoreLatency, StoreReady, PublishError, PublishMetrics, StoreTerminalError,
       PublishFinal, Panics, StoreLifecycle, Unread, Tick, Toggle, gateVars
  <2>2. QED
    BY <1>1, <2>1 DEF ReportsNext
<1>3. reported'.sequence = gate.sequence
  BY <1>2 DEF DiagnosticsEvent, HealthInv, GateInv
<1>4. QED
  BY <1>2, <1>3 DEF DiagnosticsEvent, HealthInv, GateInv

\* No report tells of an end with the numbers of before it, nor of a ready worker
\* without its latency, and once the diagnostics are switched off none comes
\* until they are switched on again, for any number of supervisors, publications
\* and switches (session.rs snapshot_lite and snapshot, DiagnosticsPublicationGate).
THEOREM ReportsTellTheTruth == ReportsSpec => ReportsAreTrue
<1>1. ReportsInit => HealthInv
  BY HealthInvInit
<1>2. HealthInv /\ [ReportsNext]_reportVars => HealthInv'
  BY HealthInvNext
<1>3. HealthInv => SnapshotsAreOrdered
  BY TruthfulSnapshots
<1>4. HealthInv /\ [ReportsNext]_reportVars =>
        [reported'.sequence # reported.sequence => ~quiet /\ reported'.sequence > reported.sequence]_reportVars
  BY DisabledMeansSilent
<1>5. QED
  BY <1>1, <1>2, <1>3, <1>4, PTL DEF ReportsSpec, ReportsAreTrue, SilentWhileDisabled

-----------------------------------------------------------------------------
(***************************************************************************)
(* The settings on the disk.  The document an operation is about to put in *)
(* place is the migrated one, or one made of it and of the next settings,  *)
(* so that what a restart loads is what was there or what was promised.    *)
(***************************************************************************)
\* Every document has a hold that is an option once it is migrated, and the
\* rest is what it was.
LEMMA NearestIsAnOption ==
  ASSUME NEW value \in Int
  PROVE  NearestHold(value) \in Options
<1> DEFINE Near(o) == \A p \in Options :
             Distance(o, value) < Distance(p, value)
             \/ (Distance(o, value) = Distance(p, value) /\ o >= p)
<1>1. \E o \in Options : Near(o)
  <2>1. CASE value <= 4
    <3>1. Near(4)
      BY <2>1 DEF Options, Distance
    <3>2. QED
      BY <3>1 DEF Options
  <2>2. CASE value = 5
    <3>1. Near(5)
      BY <2>2 DEF Options, Distance
    <3>2. QED
      BY <3>1 DEF Options
  <2>3. CASE value >= 6
    <3>1. Near(6)
      BY <2>3 DEF Options, Distance
    <3>2. QED
      BY <3>1 DEF Options
  <2>4. QED
    BY <2>1, <2>2, <2>3
<1>2. QED
  BY <1>1 DEF NearestHold

LEMMA Migrated ==
  ASSUME NEW d \in DocumentRecords
  PROVE  /\ Migrate(d) \in DocumentRecords
         /\ Migrate(d).schema = 3 /\ Migrate(d).profile = Absent /\ Migrate(d).hold \in Options
         /\ d.hold \in Options => Migrate(d).hold = d.hold
         /\ Migrate(d).likes = d.likes /\ Migrate(d).checked = d.checked
         /\ Migrate(d).other = d.other /\ Migrate(d).inUpdate = d.inUpdate
<1>1. Candidate(d.profile) \in Options
  BY NearestIsAnOption, AbsentIsNoValue DEF Candidate, DocumentRecords, Options, DefaultHold
<1>2. PICK a : a = [d EXCEPT !.schema = 3]
  OBVIOUS
<1>3. PICK b : b = [a EXCEPT !.profile = Absent]
  OBVIOUS
<1>4. Migrate(d) = [b EXCEPT !.hold = IF @ = Absent THEN Candidate(d.profile)
                                      ELSE IF @ \in Options THEN @ ELSE DefaultHold]
  BY <1>2, <1>3, Zenon DEF Migrate
<1>5. /\ a \in DocumentRecords /\ a.schema = 3 /\ a.hold = d.hold /\ a.likes = d.likes
      /\ a.checked = d.checked /\ a.other = d.other /\ a.inUpdate = d.inUpdate
  BY <1>2 DEF DocumentRecords
<1>6. /\ b \in DocumentRecords /\ b.schema = 3 /\ b.profile = Absent /\ b.hold = d.hold
      /\ b.likes = d.likes /\ b.checked = d.checked /\ b.other = d.other /\ b.inUpdate = d.inUpdate
  BY <1>3, <1>5 DEF DocumentRecords
<1>7. QED
  BY <1>1, <1>4, <1>6, AbsentIsNoValue DEF DocumentRecords, Options, DefaultHold

\* What is written over a document keeps its other keys, and is loaded as it was
\* meant.
LEMMA Overlaid ==
  ASSUME NEW d \in DocumentRecords, NEW s \in SettingsRecords
  PROVE  /\ Overlay(d, s) \in DocumentRecords
         /\ SettingsOf(Migrate(Overlay(d, s))) = s
         /\ Overlay(d, s).other = d.other /\ Overlay(d, s).inUpdate = d.inUpdate
<1>1. PICK a : a = [d EXCEPT !.schema = 3]
  OBVIOUS
<1>2. PICK b : b = [a EXCEPT !.profile = Absent]
  OBVIOUS
<1>3. PICK c : c = [b EXCEPT !.hold = s.hold]
  OBVIOUS
<1>4. PICK e : e = [c EXCEPT !.checked = s.checked]
  OBVIOUS
<1>5. Overlay(d, s) = [e EXCEPT !.likes = IF s.likes # {} \/ @ # Absent THEN s.likes ELSE @]
  BY <1>1, <1>2, <1>3, <1>4, Zenon DEF Overlay
<1>6. /\ a \in DocumentRecords /\ a.likes = d.likes /\ a.other = d.other /\ a.inUpdate = d.inUpdate
  BY <1>1 DEF DocumentRecords
<1>7. /\ b \in DocumentRecords /\ b.likes = d.likes /\ b.other = d.other /\ b.inUpdate = d.inUpdate
  BY <1>2, <1>6 DEF DocumentRecords
<1>8. /\ c \in DocumentRecords /\ c.hold = s.hold
      /\ c.likes = d.likes /\ c.other = d.other /\ c.inUpdate = d.inUpdate
  BY <1>3, <1>7 DEF DocumentRecords, SettingsRecords, Options
<1>9. /\ e \in DocumentRecords /\ e.hold = s.hold /\ e.checked = s.checked
      /\ e.likes = d.likes /\ e.other = d.other /\ e.inUpdate = d.inUpdate
  BY <1>4, <1>8 DEF DocumentRecords, SettingsRecords
<1> DEFINE o == Overlay(d, s)
<1>10. /\ o \in DocumentRecords /\ o.hold = s.hold /\ o.checked = s.checked
       /\ o.likes = (IF s.likes # {} \/ d.likes # Absent THEN s.likes ELSE Absent)
       /\ o.other = d.other /\ o.inUpdate = d.inUpdate
  BY <1>5, <1>9 DEF DocumentRecords, SettingsRecords
<1>11. SettingsOf(Migrate(o)) = [hold |-> s.hold, likes |-> s.likes, checked |-> s.checked]
  <2>1. /\ Migrate(o).hold \in Options /\ Migrate(o).hold = s.hold
        /\ Migrate(o).likes = o.likes /\ Migrate(o).checked = o.checked
    BY <1>10, Migrated DEF SettingsRecords
  <2>2. s.likes # Absent /\ s.checked # Absent
    BY AbsentIsNoValue DEF SettingsRecords
  <2>3. (IF o.likes = Absent THEN {} ELSE o.likes) = s.likes
    BY <1>10, <2>2
  <2>4. QED
    BY <1>10, <2>1, <2>2, <2>3 DEF SettingsOf
<1>12. s = [hold |-> s.hold, likes |-> s.likes, checked |-> s.checked]
  BY DEF SettingsRecords
<1>13. QED
  BY <1>10, <1>11, <1>12

LEMMA LoadedAreSettings ==
  ASSUME NEW d \in DocumentRecords
  PROVE  SettingsOf(d) \in SettingsRecords
BY AbsentIsNoValue DEF DocumentRecords, SettingsOf, SettingsRecords, Options, DefaultHold

\* A second migration changes nothing.
LEMMA MigratedOnce ==
  ASSUME NEW d \in DocumentRecords
  PROVE  SettingsOf(Migrate(Migrate(d))) = SettingsOf(Migrate(d))
BY Migrated DEF SettingsOf

OpRecords ==
  [kind : {"none", "load", "reload", "like", "patch", "check"},
   pc : {"idle", "read", "change", "save", "write", "replace"},
   next : {Absent} \cup SettingsRecords, contents : {Absent} \cup DocumentRecords]

Files == {Missing, Torn} \cup {Whole(d) : d \in DocumentRecords}

DiskTypes ==
  /\ file \in Files /\ temp \in Files
  /\ memory \in {Absent} \cup SettingsRecords
  /\ op \in OpRecords
  /\ operations \in Nat /\ edits \in Nat /\ blind \in BOOLEAN

\* What an operation has at each of its steps, and that what it is about to put
\* in place is the document that is there, migrated, or holds the next settings.
OpInv ==
  /\ op.pc # "idle" => op.kind # "none"
  /\ op.pc \in {"change", "save"} => memory # Absent /\ op.kind \in {"like", "patch", "check"}
  /\ op.pc \in {"read", "change"} => op.next = Absent
  /\ op.pc = "save" => op.next # Absent
  /\ op.pc \in {"write", "replace"} =>
       /\ op.contents \in DocumentRecords
       /\ ~blind => /\ op.contents.other = Object(file).other
                    /\ op.contents.inUpdate = Object(file).inUpdate
       /\ op.next # Absent => SettingsOf(Migrate(op.contents)) = op.next
       /\ op.next = Absent /\ ~blind => op.contents = Migrate(Object(file))
       /\ op.next = Absent /\ op.kind # "load" => memory # Absent
  /\ op.pc = "replace" => temp = Whole(op.contents)
  /\ op.pc # "idle" /\ op.kind # "load" => memory # Absent
  /\ op.kind = "load" /\ op.pc # "idle" => op.next = Absent

\* The document, and what is known of it.
DocumentInv ==
  ~blind =>
    /\ AfterRestart \in possible
    /\ memory # Absent /\ edits = 0 => AfterRestart = memory
    /\ Unknown(file) = foreign

DiskInv == DiskTypes /\ OpInv /\ DocumentInv

LEMMA ObjectsAreDocuments ==
  ASSUME NEW f \in Files
  PROVE  Object(f) \in DocumentRecords
<1>1. NoKeys \in DocumentRecords
  BY DEF NoKeys, DocumentRecords
<1>2. QED
  BY <1>1 DEF Files, Object, IsWhole, Missing, Torn, Whole

LEMMA WholeIsItsObject == \A d : Object(Whole(d)) = d /\ IsWhole(Whole(d))
BY DEF Object, Whole, IsWhole

LEMMA DiskInvInit == SettingsInit => DiskInv
<1> SUFFICES ASSUME SettingsInit PROVE DiskInv
  OBVIOUS
<1> USE DEF SettingsInit
<1>1. NoOp \in OpRecords /\ NoOp.pc = "idle"
  BY DEF NoOp, OpRecords
<1>2. DiskTypes
  BY <1>1, DocumentsAreDocuments DEF DiskTypes, Files
<1>3. OpInv /\ DocumentInv
  BY <1>1 DEF OpInv, DocumentInv
<1>4. QED
  BY <1>2, <1>3 DEF DiskInv

\* An operation that has ended, failed or been cut short.
LEMMA EndedIsIdle == NoOp \in OpRecords /\ NoOp.pc = "idle"
BY DEF NoOp, OpRecords

\* The operation goes on, with other contents.
LEMMA GoingOn ==
  ASSUME op \in OpRecords, NEW pc \in {"idle", "read", "change", "save", "write", "replace"},
         NEW d \in {Absent} \cup DocumentRecords, OpGoes(pc, d)
  PROVE  /\ op' \in OpRecords /\ op'.kind = op.kind /\ op'.pc = pc
         /\ op'.next = op.next /\ op'.contents = d
<1>1. PICK a : a = [op EXCEPT !.pc = pc]
  OBVIOUS
<1>2. op' = [a EXCEPT !.contents = d]
  BY <1>1, Zenon DEF OpGoes
<1>3. a \in OpRecords /\ a.kind = op.kind /\ a.next = op.next /\ a.pc = pc
  BY <1>1 DEF OpRecords
<1>4. QED
  BY <1>2, <1>3 DEF OpRecords

LEMMA BeginKeepsDisk ==
  ASSUME DiskInv, NEW kind \in {"load", "reload", "like", "patch", "check"}, Begin(kind)
  PROVE  DiskInv'
<1> USE DEF DiskInv
<1> DEFINE pc == IF kind = "patch" THEN "change" ELSE "read"
<1>1. PICK a : a = [NoOp EXCEPT !.kind = kind]
  OBVIOUS
<1>2. op' = [a EXCEPT !.pc = pc]
  BY <1>1, Zenon DEF Begin
<1>3. a \in OpRecords /\ a.kind = kind /\ a.next = Absent
  BY <1>1 DEF NoOp, OpRecords
<1>4. op' \in OpRecords /\ op'.kind = kind /\ op'.next = Absent /\ op'.pc = pc
  BY <1>2, <1>3 DEF OpRecords
<1>5. UNCHANGED <<file, temp, memory, faults, edits, possible, foreign, blind>>
  BY DEF Begin, fileVars, history
<1>6. DiskTypes'
  BY <1>4, <1>5 DEF Begin, DiskTypes
<1>7. OpInv'
  BY <1>4, <1>5 DEF Begin, OpInv, ProgramRuns
<1>8. DocumentInv'
  BY <1>5 DEF DocumentInv, AfterRestart
<1>9. QED
  BY <1>6, <1>7, <1>8

\* The document, or what a failing read takes for it, is loaded or saved over.
LEMMA ReadKeepsDisk ==
  ASSUME DiskInv, NEW d \in DocumentRecords,
         \/ OpAt("read") /\ LoadFrom(d)
         \/ OpAt("save") /\ SaveOver(d),
         UNCHANGED <<file, temp, operations, edits, foreign>>, blind' \in BOOLEAN,
         ~blind' => d = Object(file) /\ ~blind
  PROVE  DiskInv'
<1> USE DEF DiskInv, OpAt
<1>1. op \in OpRecords /\ memory \in {Absent} \cup SettingsRecords
  BY DEF DiskTypes
<1>2. CASE OpAt("read") /\ Migrate(d) # d
  <2>1. OpGoes("write", Migrate(d)) /\ UNCHANGED <<memory, possible>>
    BY <1>2 DEF LoadFrom
  <2>2. /\ Migrate(d) \in DocumentRecords
        /\ Migrate(d).other = d.other /\ Migrate(d).inUpdate = d.inUpdate
    BY Migrated
  <2>3. /\ op' \in OpRecords /\ op'.kind = op.kind /\ op'.pc = "write" /\ op'.next = op.next
        /\ op'.contents = Migrate(d)
    BY <1>1, <2>1, <2>2, GoingOn
  <2>4. DiskTypes'
    BY <2>1, <2>3 DEF DiskTypes
  <2>5. op.next = Absent /\ op.kind # "none" /\ (op.kind # "load" => memory # Absent)
    BY <1>2 DEF OpInv
  <2>6. OpInv'
    BY <2>1, <2>2, <2>3, <2>5 DEF OpInv
  <2>7. DocumentInv'
    BY <2>1 DEF DocumentInv, AfterRestart
  <2>8. QED
    BY <2>4, <2>6, <2>7
<1>3. CASE OpAt("read") /\ Migrate(d) = d
  <2>1. memory' = SettingsOf(d) /\ possible' = {SettingsOf(d)} /\ AfterLoad(d)
    BY <1>3 DEF LoadFrom
  <2>2. SettingsOf(d) \in SettingsRecords /\ SettingsOf(d) # Absent
    BY LoadedAreSettings, AbsentIsNoValue
  <2>3. CASE op.kind \in {"load", "reload"}
    <3>1. op' \in OpRecords /\ op'.pc = "idle"
      BY <2>1, <2>3, EndedIsIdle DEF AfterLoad, OpEnds
    <3>2. DiskTypes' /\ OpInv'
      BY <2>1, <2>2, <3>1 DEF DiskTypes, OpInv
    <3>3. QED
      BY <1>3, <2>1, <3>2 DEF DocumentInv, AfterRestart
  <2>4. CASE op.kind \notin {"load", "reload"}
    <3>1. OpGoes("change", Absent)
      BY <2>1, <2>4 DEF AfterLoad
    <3>2. /\ op' \in OpRecords /\ op'.kind = op.kind /\ op'.pc = "change" /\ op'.next = op.next
      BY <1>1, <3>1, GoingOn
    <3>3. op.next = Absent /\ op.kind \in {"like", "patch", "check"}
      BY <1>1, <1>3, <2>4 DEF OpInv, OpRecords
    <3>4. DiskTypes' /\ OpInv'
      BY <2>1, <2>2, <3>2, <3>3 DEF DiskTypes, OpInv
    <3>5. QED
      BY <1>3, <2>1, <3>4 DEF DocumentInv, AfterRestart
  <2>5. QED
    BY <2>3, <2>4
<1>4. CASE OpAt("save")
  <2>1. op.next \in SettingsRecords /\ op.kind \in {"like", "patch", "check"} /\ memory # Absent
    BY <1>1, <1>4 DEF OpInv, OpRecords
  <2> DEFINE o == Overlay(d, op.next)
  <2>2. OpGoes("write", o) /\ UNCHANGED <<memory, possible>>
    BY <1>4 DEF SaveOver
  <2>3. /\ o \in DocumentRecords /\ SettingsOf(Migrate(o)) = op.next
        /\ o.other = d.other /\ o.inUpdate = d.inUpdate
    BY <2>1, Overlaid
  <2>4. /\ op' \in OpRecords /\ op'.kind = op.kind /\ op'.pc = "write" /\ op'.next = op.next
        /\ op'.contents = o
    BY <1>1, <2>2, <2>3, GoingOn
  <2>5. DiskTypes'
    BY <2>2, <2>4 DEF DiskTypes
  <2>6. OpInv'
    BY <1>4, <2>1, <2>2, <2>3, <2>4, AbsentIsNoValue DEF OpInv
  <2>7. DocumentInv'
    BY <2>2 DEF DocumentInv, AfterRestart
  <2>8. QED
    BY <2>5, <2>6, <2>7
<1>5. QED
  BY <1>2, <1>3, <1>4

\* The new document is in place: memory and disk change together.
LEMMA MoveKeepsDisk ==
  ASSUME DiskInv, Move
  PROVE  DiskInv'
<1> USE DEF DiskInv, OpAt
<1> DEFINE d == op.contents
<1>1. /\ op \in OpRecords /\ op.pc = "replace" /\ op.kind # "none" /\ d \in DocumentRecords
      /\ file' = Whole(d) /\ temp' = Missing /\ possible' = {memory'}
      /\ UNCHANGED <<operations, edits, foreign, blind>>
  BY DEF Move, Replace, DiskTypes, OpInv
<1>2. Object(file') = d /\ file' \in Files /\ temp' \in Files
  BY <1>1, WholeIsItsObject DEF Files
<1>3. memory' \in SettingsRecords /\ (~blind => memory' = SettingsOf(Migrate(d)))
  <2>1. CASE op.next = Absent
    <3>1. memory' = SettingsOf(d)
      BY <2>1 DEF Move, Commit
    <3>2. ~blind => d = Migrate(Object(file)) /\ Object(file) \in DocumentRecords
      BY <1>1, <2>1, ObjectsAreDocuments DEF OpInv, DiskTypes
    <3>3. QED
      BY <1>1, <3>1, <3>2, LoadedAreSettings, MigratedOnce
  <2>2. CASE op.next # Absent
    BY <1>1, <2>2 DEF Move, Commit, OpInv, OpRecords
  <2>3. QED
    BY <2>1, <2>2
<1>4. \/ op' \in OpRecords /\ op'.pc = "idle"
      \/ /\ op' \in OpRecords /\ op'.pc = "change" /\ op'.next = Absent
         /\ op'.kind = op.kind /\ op.kind \in {"like", "patch", "check"}
  <2>1. CASE op.next = Absent /\ op.kind \notin {"load", "reload"}
    <3>1. OpGoes("change", Absent)
      BY <2>1 DEF Move, Commit, AfterLoad
    <3>2. QED
      BY <1>1, <2>1, <3>1, GoingOn DEF OpRecords
  <2>2. CASE op.next # Absent \/ op.kind \in {"load", "reload"}
    BY <2>2, EndedIsIdle DEF Move, Commit, AfterLoad, OpEnds
  <2>3. QED
    BY <2>1, <2>2
<1>5. DiskTypes'
  BY <1>1, <1>2, <1>3, <1>4 DEF DiskTypes
<1>6. OpInv'
  BY <1>3, <1>4, AbsentIsNoValue DEF OpInv
<1>7. ~blind => Unknown(file') = foreign
  BY <1>1, <1>2 DEF OpInv, DocumentInv, Unknown
<1>8. DocumentInv'
  BY <1>1, <1>2, <1>3, <1>7 DEF DocumentInv, AfterRestart
<1>9. QED
  BY <1>5, <1>6, <1>8

\* The next settings are promised before they are written.
LEMMA ChangeKeepsDisk ==
  ASSUME DiskInv, Change
  PROVE  DiskInv'
<1> USE DEF DiskInv, OpAt
<1>1. /\ op \in OpRecords /\ op.pc = "change" /\ op.kind \in {"like", "patch", "check"}
      /\ memory \in SettingsRecords /\ operations \in Nat
      /\ UNCHANGED <<file, temp, memory, operations, edits, foreign, blind>>
  BY DEF Change, DiskTypes, OpInv, fileVars
<1>2. PICK next \in Changed :
        IF next = memory
          THEN OpEnds /\ UNCHANGED possible
          ELSE op' = [op EXCEPT !.next = next, !.pc = "save"] /\ possible' = possible \union {next}
  BY DEF Change
<1>3. next \in SettingsRecords
  <2>1. CASE op.kind = "like"
    <3>1. PICK l \in SUBSET Likeable : next = [memory EXCEPT !.likes = l]
      BY <1>1, <1>2, <2>1 DEF Changed, SettingsRecords
    <3>2. QED
      BY <1>1, <3>1 DEF SettingsRecords
  <2>2. CASE op.kind = "patch"
    BY <1>1, <1>2, <2>2 DEF Changed, SettingsRecords
  <2>3. CASE op.kind = "check"
    BY <1>1, <1>2, <2>3 DEF Changed, SettingsRecords
  <2>4. QED
    BY <1>1, <2>1, <2>2, <2>3
<1>4. CASE next = memory
  <2>1. op' \in OpRecords /\ op'.pc = "idle" /\ possible' = possible
    BY <1>2, <1>4, EndedIsIdle DEF OpEnds
  <2>2. DiskTypes' /\ OpInv'
    BY <1>1, <2>1 DEF DiskTypes, OpInv
  <2>3. QED
    BY <1>1, <2>1, <2>2 DEF DocumentInv, AfterRestart
<1>5. CASE next # memory
  <2>1. PICK a : a = [op EXCEPT !.next = next]
    OBVIOUS
  <2>2. op' = [a EXCEPT !.pc = "save"]
    BY <1>2, <1>5, <2>1, Zenon
  <2>3. a \in OpRecords /\ a.kind = op.kind /\ a.next = next
    BY <1>1, <1>3, <2>1 DEF OpRecords
  <2>4. op' \in OpRecords /\ op'.kind = op.kind /\ op'.next = next /\ op'.pc = "save"
    BY <2>2, <2>3 DEF OpRecords
  <2>5. possible' = possible \union {next}
    BY <1>2, <1>5
  <2>6. DiskTypes'
    BY <1>1, <2>4 DEF DiskTypes
  <2>7. OpInv'
    BY <1>1, <1>3, <2>4, AbsentIsNoValue DEF OpInv
  <2>8. DocumentInv'
    BY <1>1, <2>5 DEF DocumentInv, AfterRestart
  <2>9. QED
    BY <2>6, <2>7, <2>8
<1>6. QED
  BY <1>4, <1>5

LEMMA DiskInvNext == DiskInv /\ [SettingsNext]_settingsVars => DiskInv'
<1> SUFFICES ASSUME DiskInv, [SettingsNext]_settingsVars
             PROVE  DiskInv'
  OBVIOUS
<1> USE DEF DiskInv
<1>1. ASSUME NEW kind \in {"load", "reload", "like", "patch", "check"}, Begin(kind) PROVE DiskInv'
  BY <1>1, BeginKeepsDisk
<1>2. CASE Read
  BY <1>2, ReadKeepsDisk, ObjectsAreDocuments DEF Read, DiskTypes, fileVars
<1>3. CASE ReadFails
  <2>1. NoKeys \in DocumentRecords
    BY DEF NoKeys, DocumentRecords
  <2>2. QED
    BY <1>3, <2>1, ReadKeepsDisk DEF ReadFails, fileVars
<1>4. CASE Write
  <2>1. /\ op' = [op EXCEPT !.pc = "replace"] /\ op \in OpRecords /\ op.pc = "write"
        /\ temp' = Whole(op.contents) /\ op.contents \in DocumentRecords
        /\ UNCHANGED <<file, memory, operations, edits, possible, foreign, blind>>
    BY <1>4 DEF Write, WriteTemp, OpAt, DiskTypes, OpInv, history
  <2>2. /\ op' \in OpRecords /\ op'.pc = "replace" /\ op'.kind = op.kind /\ op'.next = op.next
        /\ op'.contents = op.contents
    BY <2>1 DEF OpRecords
  <2>3. DiskTypes'
    BY <2>1, <2>2 DEF DiskTypes, Files
  <2>4. OpInv'
    BY <2>1, <2>2 DEF OpInv
  <2>5. DocumentInv'
    BY <2>1 DEF DocumentInv, AfterRestart
  <2>6. QED
    BY <2>3, <2>4, <2>5
<1>5. CASE Move
  BY <1>5, MoveKeepsDisk
\* A failure and a crash leave the document alone.
<1>6. CASE OpFails \/ Crash
  <2>1. /\ op' = NoOp /\ UNCHANGED <<file, operations, edits, possible, foreign, blind>>
        /\ temp' \in Files /\ memory' \in {memory, Absent}
    BY <1>6 DEF OpFails, Crash, OpEnds, WriteFails, ReplaceFails, history, DiskTypes, Files
  <2>2. DiskTypes' /\ OpInv'
    BY <2>1, EndedIsIdle DEF DiskTypes, OpInv
  <2>3. DocumentInv'
    BY <2>1 DEF DocumentInv, AfterRestart
  <2>4. QED
    BY <2>2, <2>3
<1>7. CASE Change
  BY <1>7, ChangeKeepsDisk
<1>8. CASE Edit
  <2>1. /\ op.pc = "idle" /\ edits' # 0 /\ edits' \in Nat /\ file' \in Files
        /\ possible' = {SettingsOf(Migrate(Object(file')))} /\ foreign' = Unknown(file')
        /\ UNCHANGED <<temp, memory, op, operations, blind>>
    BY <1>8, DocumentsAreDocuments DEF Edit, OpAt, DiskTypes, Files
  <2>2. QED
    BY <2>1 DEF DiskTypes, OpInv, DocumentInv, AfterRestart
<1>9. CASE UNCHANGED settingsVars
  BY <1>9 DEF settingsVars, fileVars, opVars, history, DiskTypes, OpInv, DocumentInv, AfterRestart
<1>10. QED
  BY <1>1, <1>2, <1>3, <1>4, <1>5, <1>6, <1>7, <1>8, <1>9 DEF SettingsNext

\* For any documents, faults, crashes, edits and operations: a restart loads what
\* was there before the operation under way or what the operation promised, memory
\* is what is on the disk, and no unknown key at the top of the document or inside
\* of "update" is lost, as long as no read of a document that is there has failed
\* (settings.rs of sky_app_core, sky_native_adapters).
THEOREM SettingsSurvive == SettingsSpec => []DocumentsAreDurable
<1>1. SettingsInit => DiskInv
  BY DiskInvInit
<1>2. DiskInv /\ [SettingsNext]_settingsVars => DiskInv'
  BY DiskInvNext
<1>3. DiskInv => DocumentsAreDurable
  BY DEF DiskInv, DocumentInv, DocumentsAreDurable, SettingsAreDurable, UnknownKeysSurvive, ProgramRuns
<1>4. QED
  BY <1>1, <1>2, <1>3, PTL DEF SettingsSpec

(***************************************************************************)
(* The store's view of the playback.  The first event of a session finds   *)
(* the view of the one before it ended, because the end of that one is     *)
(* ahead of it in the feed; and what is still to come of the session that  *)
(* plays ends with its state.                                              *)
(***************************************************************************)
OrderRecord ==
  [kind : {"start", "pause", "resume", "stop", "skip"}, session : Nat,
   song : Titles \cup {NoTitle}, fresh : BOOLEAN,
   status : {"sent", "telling", "ok", "error"}, got : Nat]

ViewRecord ==
  [state : {"idle"} \cup RunStates \cup EndStates, session : Nat,
   title : Titles \cup {NoTitle}, pending : {"none", "pause", "resume"}]

EventRecord ==
  [s : Nat, kind : {"state", "snapshot", "outcome"}, value : RunStates \cup EndStates]

IsStart(c) == c \in orders /\ c.kind = "start"
Telling(s) == \E c \in orders : c.status = "telling" /\ c.session = s
Place(i)   == i \in 1 .. Len(feed)
Outcome(i) == Place(i) /\ feed[i].kind = "outcome"

ShownTypes ==
  /\ playback \in ViewRecord /\ playback.session \in 0 .. born
  /\ playback.session = NoId <=> playback.state = "idle"
  /\ planned \in Titles \cup {NoTitle} /\ waiting \in Titles \cup {NoTitle} /\ chosen \in Titles
  /\ retired \subseteq 1 .. born
  /\ muddled \in BOOLEAN

NativeTypes ==
  /\ born \in 0 .. MaxStarts /\ active \in {NoId, born}
  /\ songOf \in [SessionIds -> Titles \cup {NoTitle}]
  /\ \A s \in 1 .. born : songOf[s] \in Titles
  /\ feed \in Seq(EventRecord)
  /\ \A i : Place(i) => feed[i].s \in 1 .. born
  /\ \A i : Outcome(i) => feed[i].value \in EndStates

OrderTypes ==
  \A c \in orders :
    /\ c \in OrderRecord
    /\ IF c.kind = "start" THEN c.song \in Titles /\ c.status # "telling" /\ c.session = NoId
       ELSE c.session \in 1 .. born
    /\ c.status = "telling" => c.kind = "stop"

\* The session that plays is not shown as ended, nor is its end in the feed.
ActiveInv ==
  active # NoId =>
    /\ nativeState \in RunStates /\ active \notin retired
    /\ \A i : Place(i) /\ feed[i].s = active => feed[i].kind # "outcome" /\ feed[i].value \in RunStates
    /\ playback.session = active => playback.state \in RunStates
    /\ Telling(active) => nativeState = "stopping"

\* The start whose answer will be taken is the last one, and it has not been
\* taken for another once the end of its session has been shown.
FreshInv ==
  /\ \A c, d : IsStart(c) /\ IsStart(d) /\ c.fresh /\ d.fresh => c = d
  /\ \A c : IsStart(c) /\ c.fresh =>
       /\ waiting \in {c.song, NoTitle}
       /\ c.status = "ok" =>
            /\ c.got \in 1 .. born /\ songOf[c.got] = c.song
            /\ c.got \in retired => playback.session = c.got /\ waiting = NoTitle

\* What follows holds as long as every start can be told from what was before it.
OnlyStart ==
  /\ \A c, d : IsStart(c) /\ IsStart(d) => c = d
  /\ \A c : IsStart(c) => c.fresh /\ (c.status = "ok" => c.got = born)
  /\ waiting # NoTitle => \E c : IsStart(c)
  /\ \A c : IsStart(c) /\ waiting = NoTitle =>
       c.status # "sent" /\ (c.status = "ok" => playback.session = born)

\* Of the sessions with the song that the store waits for only the one that has
\* been started for it speaks.
OnlyOutcome(s) ==
  /\ s # active /\ ~Telling(s)
  /\ \A i : Place(i) /\ feed[i].s = s => feed[i].kind = "outcome"

OnlySpeaker ==
  \A s \in 1 .. born : songOf[s] = waiting /\ s \notin retired /\ StillSpeaks(s) =>
    \E c : IsStart(c) /\ (c.status = "ok" \/ (c.status = "error" /\ OnlyOutcome(s)))
                      /\ (c.status = "ok" => c.got = s)

\* Before its first event is applied the whole session is in the feed.
NothingApplied ==
  \A c : IsStart(c) /\ c.status = "ok" /\ waiting # NoTitle =>
    /\ playback.session # born /\ born \notin retired
    /\ \A d \in orders : d.session # born
    /\ \E i : Place(i) /\ feed[i].s = born
    /\ active # born => \E i : Outcome(i) /\ feed[i].s = born /\ \A j : Place(j) /\ feed[j].s = born => j <= i

\* The end of an older session that is still shown is ahead of all that is newer.
EndIsAhead ==
  playback.session \notin {NoId, active} \cup retired =>
    \E i : Outcome(i) /\ feed[i].s = playback.session
           /\ \A j : Place(j) /\ j < i => feed[j].s <= playback.session

IsShown ==
  active # NoId => playback.session = active \/ (waiting # NoTitle /\ \E c : IsStart(c) /\ c.status = "ok")

LastWord ==
  active # NoId /\ ~Telling(active) =>
    /\ \A i : Place(i) /\ feed[i].s = active /\ (\A j : Place(j) /\ j > i => feed[j].s # active) =>
         feed[i].value = nativeState
    /\ playback.session = active /\ (\A i : Place(i) => feed[i].s # active) =>
         playback.state = nativeState

TellsApart == OnlyStart /\ OnlySpeaker /\ NothingApplied /\ EndIsAhead /\ IsShown /\ LastWord

PlaybackInv ==
  /\ ShownTypes /\ NativeTypes /\ OrderTypes /\ ActiveInv /\ FreshInv /\ RetiredStaysRetired
  /\ ~muddled => TellsApart

\* What has been published is at the end of the feed.
LEMMA FeedGrows ==
  ASSUME feed \in Seq(EventRecord), NEW e \in EventRecord, Publish(<<e>>)
  PROVE  /\ feed' \in Seq(EventRecord) /\ Len(feed') = Len(feed) + 1 /\ Len(feed) \in Nat
         /\ feed'[Len(feed) + 1] = e /\ \A i \in 1 .. Len(feed) : feed'[i] = feed[i]
BY DEF Publish

LEMMA FeedGrowsTwice ==
  ASSUME feed \in Seq(EventRecord), NEW d \in EventRecord, NEW e \in EventRecord, Publish(<<d, e>>)
  PROVE  /\ feed' \in Seq(EventRecord) /\ Len(feed') = Len(feed) + 2 /\ Len(feed) \in Nat
         /\ feed'[Len(feed) + 1] = d /\ feed'[Len(feed) + 2] = e
         /\ \A i \in 1 .. Len(feed) : feed'[i] = feed[i]
BY DEF Publish

LEMMA FeedShrinks ==
  ASSUME feed \in Seq(EventRecord), feed # <<>>, feed' = Tail(feed)
  PROVE  /\ feed' \in Seq(EventRecord) /\ Len(feed) \in Nat \ {0} /\ Len(feed') = Len(feed) - 1
         /\ Head(feed) = feed[1] /\ feed[1] \in EventRecord
         /\ \A i \in 1 .. Len(feed') : feed'[i] = feed[i + 1]
OBVIOUS

\* An order that is served, refused or told.
Turned(c, d, status, got) ==
  /\ orders' = (orders \ {c}) \cup {d} /\ d \in OrderRecord
  /\ d.kind = c.kind /\ d.session = c.session /\ d.song = c.song /\ d.fresh = c.fresh
  /\ d.status = status /\ d.got = got

LEMMA TurnedOrder ==
  ASSUME NEW c \in OrderRecord, NEW status \in {"sent", "telling", "ok", "error"}, NEW got \in Nat,
         Turns(c, status, got)
  PROVE  \E d : Turned(c, d, status, got)
<1>1. PICK a : a = [c EXCEPT !.status = status]
  OBVIOUS
<1>2. PICK d : d = [a EXCEPT !.got = got]
  OBVIOUS
<1>3. orders' = (orders \ {c}) \cup {d}
  BY <1>1, <1>2, Zenon DEF Turns
<1>4. /\ a \in OrderRecord /\ a.kind = c.kind /\ a.session = c.session /\ a.song = c.song
      /\ a.fresh = c.fresh /\ a.status = status
  BY <1>1 DEF OrderRecord
<1>5. /\ d \in OrderRecord /\ d.kind = c.kind /\ d.session = c.session /\ d.song = c.song
      /\ d.fresh = c.fresh /\ d.status = status /\ d.got = got
  BY <1>2, <1>4 DEF OrderRecord
<1>6. QED
  BY <1>3, <1>5 DEF Turned

LEMMA PlaybackInvInit == PlaybackInit => PlaybackInv
<1> SUFFICES ASSUME PlaybackInit PROVE PlaybackInv
  OBVIOUS
<1> USE DEF PlaybackInit, NoId
<1>1. ShownTypes
  <2>1. playback \in ViewRecord
    BY DEF ViewRecord
  <2>2. playback.state = "idle" /\ playback.session = 0
    OBVIOUS
  <2>3. playback.session \in 0 .. born
    BY <2>2
  <2>4. retired \subseteq 1 .. born
    OBVIOUS
  <2>5. muddled \in BOOLEAN
    OBVIOUS
  <2>6. QED
    BY <2>1, <2>2, <2>3, <2>4, <2>5 DEF ShownTypes
<1>2. NativeTypes
  BY StartsAreNat DEF NativeTypes, Place, Outcome, SessionIds
<1>3. OrderTypes /\ ActiveInv /\ FreshInv /\ RetiredStaysRetired
  BY DEF OrderTypes, ActiveInv, FreshInv, IsStart, RetiredStaysRetired
<1>4. TellsApart
  BY DEF TellsApart, OnlyStart, OnlySpeaker, NothingApplied, EndIsAhead, IsShown, LastWord, IsStart
<1>5. QED
  BY <1>1, <1>2, <1>3, <1>4 DEF PlaybackInv

\* Nothing moves that the invariant speaks of.
LEMMA StandsStill ==
  ASSUME PlaybackInv, ShownTypes',
         UNCHANGED <<waiting, retired, orders, born, active, nativeState, songOf, feed, muddled>>,
         playback'.session = playback.session, playback'.state = playback.state
  PROVE  PlaybackInv'
<1> USE DEF PlaybackInv
<1>1. NativeTypes' /\ OrderTypes'
  BY DEF NativeTypes, OrderTypes, Place, Outcome
<1>2. ActiveInv' /\ FreshInv' /\ RetiredStaysRetired'
  BY DEF ActiveInv, FreshInv, RetiredStaysRetired, Place, Telling, IsStart
<1>3. ~muddled' => TellsApart'
  <2>1. SUFFICES ASSUME ~muddled PROVE TellsApart'
    OBVIOUS
  <2>2. OnlyStart' /\ NothingApplied' /\ IsShown'
    BY <2>1 DEF TellsApart, OnlyStart, NothingApplied, IsShown, IsStart, Place, Outcome
  <2>3. OnlySpeaker'
    BY <2>1 DEF TellsApart, OnlySpeaker, OnlyOutcome, StillSpeaks, Telling, IsStart, Place
  <2>4. EndIsAhead' /\ LastWord'
    BY <2>1 DEF TellsApart, EndIsAhead, LastWord, Telling, Place, Outcome
  <2>5. QED
    BY <2>2, <2>3, <2>4 DEF TellsApart
<1>4. QED
  BY <1>1, <1>2, <1>3

\* Who speaks and who tells depends on these only.
LEMMA SpeakersStay ==
  ASSUME UNCHANGED <<active, feed>>, NEW s,
         \A d \in orders' : d.status = "telling" => \E c \in orders : c.status = "telling" /\ c.session = d.session
  PROVE  (StillSpeaks(s)' => StillSpeaks(s)) /\ (Telling(s)' => Telling(s))
BY DEF StillSpeaks, Telling

LEMMA StartKeepsPlayback ==
  ASSUME PlaybackInv, NEW song \in Titles, StartPreparedPlayback(song),
         planned' \in Titles, UNCHANGED <<playback, retired, chosen, nativeVars>>
  PROVE  PlaybackInv'
<1> USE DEF PlaybackInv, nativeVars
<1> DEFINE n == Order("start", NoId, song)
<1>1. /\ n \in OrderRecord /\ n.kind = "start" /\ n.song = song /\ n.fresh /\ n.status = "sent"
      /\ n.session = NoId
  BY DEF Order, OrderRecord, NoId
<1>2. \A d \in orders' :
        \/ d = n
        \/ d \in orders /\ d.kind # "start"
        \/ /\ d \in OrderRecord /\ d.kind = "start" /\ ~d.fresh /\ d.song \in Titles
           /\ d.status # "telling" /\ d.session = NoId
  <2>1. \A c \in orders : c.kind = "start" =>
          LET d == [c EXCEPT !.fresh = FALSE] IN
          /\ d \in OrderRecord /\ d.kind = "start" /\ ~d.fresh /\ d.song = c.song
          /\ d.status = c.status /\ d.session = c.session
    BY DEF OrderTypes, OrderRecord
  <2>2. ASSUME NEW d \in orders', d # n
        PROVE  \E c \in orders : d = IF c.kind = "start" THEN [c EXCEPT !.fresh = FALSE] ELSE c
    BY <2>2 DEF StartPreparedPlayback
  <2>3. ASSUME NEW d \in orders', d # n
        PROVE  \/ d \in orders /\ d.kind # "start"
               \/ /\ d \in OrderRecord /\ d.kind = "start" /\ ~d.fresh /\ d.song \in Titles
                  /\ d.status # "telling" /\ d.session = NoId
    <3>1. PICK c \in orders : d = IF c.kind = "start" THEN [c EXCEPT !.fresh = FALSE] ELSE c
      BY <2>2, <2>3
    <3>2. CASE c.kind = "start"
      BY <2>1, <3>1, <3>2 DEF OrderTypes
    <3>3. CASE c.kind # "start"
      BY <3>1, <3>3
    <3>4. QED
      BY <3>2, <3>3
  <2>4. QED
    BY <2>3
<1>3. n \in orders' /\ \A d \in orders : d.kind # "start" => d \in orders'
  BY DEF StartPreparedPlayback
<1>4. waiting' = song /\ muddled' = (muddled \/ Muddles(song)) /\ muddled' \in BOOLEAN
  BY DEF StartPreparedPlayback
<1>5. ShownTypes' /\ NativeTypes'
  BY <1>4 DEF ShownTypes, NativeTypes, Place, Outcome
<1>6. OrderTypes'
  BY <1>1, <1>2 DEF OrderTypes
<1>7. \A s : (Telling(s) <=> Telling(s)') /\ (StillSpeaks(s) <=> StillSpeaks(s)')
  <2>1. \A d \in orders : d.status = "telling" => d.kind # "start"
    BY DEF OrderTypes
  <2>2. QED
    BY <1>1, <1>2, <1>3, <2>1 DEF Telling, StillSpeaks
<1>8. ActiveInv'
  BY <1>7 DEF ActiveInv, Place
<1>9. FreshInv' /\ RetiredStaysRetired'
  BY <1>1, <1>2, <1>4 DEF FreshInv, IsStart, RetiredStaysRetired
<1>10. ASSUME ~muddled' PROVE TellsApart'
  <2>1. /\ ~muddled /\ \A c \in orders : c.kind # "start"
        /\ \A s \in 1 .. born : songOf[s] = song /\ s \notin retired => ~StillSpeaks(s)
    BY <1>4, <1>10 DEF Muddles
  <2>2. \A d : IsStart(d)' => d = n
    BY <1>2, <1>10, <2>1 DEF IsStart, StartPreparedPlayback
  <2>3. OnlyStart' /\ NothingApplied'
    BY <1>1, <1>3, <1>4, <2>2, NoTitleIsNone DEF OnlyStart, NothingApplied, IsStart
  <2>4. OnlySpeaker'
    BY <1>4, <1>7, <2>1 DEF OnlySpeaker
  <2>5. EndIsAhead'
    BY <2>1 DEF TellsApart, EndIsAhead, Place, Outcome
  <2>6. IsShown' /\ LastWord'
    BY <1>7, <2>1 DEF TellsApart, IsShown, LastWord, IsStart, Place
  <2>7. QED
    BY <2>3, <2>4, <2>5, <2>6 DEF TellsApart
<1>11. QED
  BY <1>5, <1>6, <1>8, <1>9, <1>10

LEMMA CommandKeepsPlayback ==
  ASSUME PlaybackInv, NEW kind \in {"pause", "resume", "stop", "skip"}, Command(kind)
  PROVE  PlaybackInv'
<1> USE DEF PlaybackInv, nativeVars, shownVars
<1> DEFINE n == Order(kind, playback.session, NoTitle)
<1>1. /\ orders' = orders \cup {n} /\ playback.session \in 1 .. born
      /\ UNCHANGED <<shownVars, nativeVars, muddled>>
  <2>1. playback.state # "idle"
    BY DEF Command, Offered, LiveStates, RunStates
  <2>2. QED
    BY <2>1 DEF Command, ShownTypes, NativeTypes, NoId
<1>2. n \in OrderRecord /\ n.kind = kind /\ n.session = playback.session /\ n.status = "sent"
  BY <1>1 DEF Order, OrderRecord, NoId, NativeTypes
<1>3. ShownTypes' /\ NativeTypes' /\ OrderTypes'
  BY <1>1, <1>2 DEF ShownTypes, NativeTypes, OrderTypes, Place, Outcome
<1>4. \A s : (Telling(s) <=> Telling(s)') /\ (StillSpeaks(s) <=> StillSpeaks(s)')
  BY <1>1, <1>2 DEF Telling, StillSpeaks
<1>5. \A d : IsStart(d) <=> IsStart(d)'
  BY <1>1, <1>2 DEF IsStart
<1>6. ActiveInv' /\ FreshInv' /\ RetiredStaysRetired'
  <2>1. ActiveInv'
    BY <1>1, <1>4 DEF ActiveInv, Place
  <2>2. FreshInv'
    BY <1>1, <1>5 DEF FreshInv
  <2>3. QED
    BY <1>1, <2>1, <2>2 DEF RetiredStaysRetired
<1>7. ASSUME ~muddled PROVE TellsApart'
  <2> USE <1>7 DEF TellsApart
  <2>1. OnlyStart'
    BY <1>1, <1>5 DEF OnlyStart
  <2>2. OnlySpeaker'
    BY <1>1, <1>4, <1>5 DEF OnlySpeaker, OnlyOutcome, Place
  <2>3. NothingApplied'
    BY <1>1, <1>2, <1>5 DEF NothingApplied, Place, Outcome
  <2>4. EndIsAhead' /\ IsShown' /\ LastWord'
    BY <1>1, <1>4, <1>5 DEF EndIsAhead, IsShown, LastWord, Place, Outcome
  <2>5. QED
    BY <2>1, <2>2, <2>3, <2>4
<1>8. QED
  BY <1>1, <1>3, <1>6, <1>7

\* An order of which only the status changes: a command that is served, and one
\* that is refused.
LEMMA ServedKeepsPlayback ==
  ASSUME PlaybackInv, NEW c \in orders, NEW d, NEW status, NEW got \in Nat, Turned(c, d, status, got),
         status # "telling" \/ (c.kind = "stop" /\ c.session = active /\ nativeState' = "stopping"),
         c.status = "sent", status # "sent",
         c.kind = "start" => status = "error",
         nativeState' = nativeState \/ (active # NoId /\ status = "telling"),
         UNCHANGED <<shownVars, born, active, songOf, feed, muddled>>
  PROVE  PlaybackInv'
<1> USE DEF PlaybackInv, shownVars
<1>1. /\ c \in OrderRecord /\ d \in OrderRecord /\ d.kind = c.kind /\ d.session = c.session
      /\ d.song = c.song /\ d.fresh = c.fresh /\ d.status = status
      /\ orders' = (orders \ {c}) \cup {d}
  BY DEF Turned, OrderTypes
<1>2. ShownTypes' /\ NativeTypes' /\ OrderTypes'
  BY <1>1 DEF ShownTypes, NativeTypes, OrderTypes, Place, Outcome
<1>3. \A s : Telling(s)' => Telling(s) \/ (status = "telling" /\ s = active)
  BY <1>1 DEF Telling
<1>4. \A s : Telling(s) => Telling(s)'
  BY <1>1 DEF Telling
<1>5. \A s : StillSpeaks(s)' => StillSpeaks(s)
  BY <1>1 DEF StillSpeaks
<1>6. ActiveInv'
  BY <1>3, <1>4 DEF ActiveInv, Place, RunStates
<1>7. \A a : IsStart(a)' => IsStart(a) \/ (a = d /\ IsStart(c) /\ status = "error")
  BY <1>1 DEF IsStart
<1>8. FreshInv' /\ RetiredStaysRetired'
  <2>1. FreshInv'
    BY <1>1, <1>7 DEF FreshInv, IsStart
  <2>2. QED
    BY <2>1 DEF RetiredStaysRetired
<1>9. ASSUME ~muddled PROVE TellsApart'
  <2> USE <1>9 DEF TellsApart
  <2>1. OnlyStart'
    BY <1>1, <1>7 DEF OnlyStart, IsStart
  <2>2. OnlySpeaker'
    <3> SUFFICES ASSUME NEW s \in 1 .. born, songOf[s] = waiting, s \notin retired, StillSpeaks(s)'
                 PROVE  \E a : IsStart(a)' /\ (a.status = "ok" \/ (a.status = "error" /\ OnlyOutcome(s)'))
                                           /\ (a.status = "ok" => a.got = s)
      BY DEF OnlySpeaker
    <3>1. PICK a : /\ IsStart(a) /\ (a.status = "ok" \/ (a.status = "error" /\ OnlyOutcome(s)))
                   /\ (a.status = "ok" => a.got = s)
      BY <1>5 DEF OnlySpeaker
    <3>2. IsStart(a)'
      BY <1>1, <3>1 DEF IsStart
    <3>3. OnlyOutcome(s) => OnlyOutcome(s)'
      BY <1>3 DEF OnlyOutcome, Place
    <3>4. QED
      BY <3>1, <3>2, <3>3
  <2>3. NothingApplied'
    BY <1>1, <1>7 DEF NothingApplied, IsStart, Place, Outcome
  <2>4. EndIsAhead'
    BY DEF EndIsAhead, Place, Outcome
  <2>5. IsShown'
    BY <1>1 DEF IsShown, IsStart
  <2>6. LastWord'
    BY <1>1, <1>4 DEF LastWord, Place, Telling
  <2>7. QED
    BY <2>1, <2>2, <2>3, <2>4, <2>5, <2>6
<1>10. QED
  BY <1>2, <1>6, <1>8, <1>9

\* Who speaks, place by place.
LEMMA SpeakersByPlace ==
  ASSUME feed \in Seq(EventRecord), feed' \in Seq(EventRecord), NEW s
  PROVE  /\ StillSpeaks(s) <=> s = active \/ Telling(s) \/ \E i : Place(i) /\ feed[i].s = s
         /\ StillSpeaks(s)' <=> s = active' \/ Telling(s)' \/ \E i : Place(i)' /\ feed'[i].s = s
<1>1. DOMAIN feed = 1 .. Len(feed) /\ DOMAIN feed' = 1 .. Len(feed')
  OBVIOUS
<1>2. QED
  BY <1>1, Zenon DEF StillSpeaks, Telling, Place

\* An event more in the feed.
LEMMA GrownPlaces ==
  ASSUME feed \in Seq(EventRecord), NEW e \in EventRecord, Publish(<<e>>)
  PROVE  /\ \A i : Place(i)' <=> Place(i) \/ i = Len(feed) + 1
         /\ \A i : Place(i) => i \in Nat /\ i < Len(feed) + 1 /\ feed'[i] = feed[i]
         /\ \A i : Outcome(i)' <=> Outcome(i) \/ (i = Len(feed) + 1 /\ e.kind = "outcome")
         /\ \A i : Outcome(i) => Place(i)
         /\ feed'[Len(feed) + 1] = e /\ feed' \in Seq(EventRecord) /\ Len(feed) \in Nat
<1>1. /\ \A i : Place(i)' <=> Place(i) \/ i = Len(feed) + 1
      /\ \A i : Place(i) => i \in Nat /\ i < Len(feed) + 1 /\ feed'[i] = feed[i]
      /\ feed'[Len(feed) + 1] = e /\ feed' \in Seq(EventRecord) /\ Len(feed) \in Nat
  BY FeedGrows DEF Place
<1>2. QED
  BY <1>1 DEF Outcome

\* The end of what is shown stays ahead while the feed grows.
LEMMA EndStaysAhead ==
  ASSUME feed \in Seq(EventRecord), NEW e \in EventRecord, Publish(<<e>>), EndIsAhead,
         UNCHANGED <<playback, retired>>, active' = active \/ (active = NoId /\ playback.session # active')
  PROVE  EndIsAhead'
<1> SUFFICES ASSUME playback.session \notin {NoId, active'} \cup retired
             PROVE  \E i : Outcome(i)' /\ feed'[i].s = playback.session
                           /\ \A j : Place(j)' /\ j < i => feed'[j].s <= playback.session
  BY DEF EndIsAhead
<1>1. PICK i : /\ Outcome(i) /\ feed[i].s = playback.session
               /\ \A j : Place(j) /\ j < i => feed[j].s <= playback.session
  BY DEF EndIsAhead
<1>2. Outcome(i)' /\ feed'[i].s = playback.session /\ i < Len(feed) + 1 /\ i \in Nat /\ Len(feed) \in Nat
  BY <1>1, GrownPlaces
<1>3. ASSUME NEW j, Place(j)', j < i PROVE feed'[j].s <= playback.session
  <2>1. Place(j) /\ feed'[j] = feed[j]
    BY <1>2, <1>3, GrownPlaces
  <2>2. QED
    BY <1>1, <1>3, <2>1
<1>4. QED
  BY <1>2, <1>3

LEMMA ServeStartKeepsPlayback ==
  ASSUME PlaybackInv, NEW c \in orders, ServeStart(c)
  PROVE  PlaybackInv'
<1> USE DEF PlaybackInv, NoId, shownVars
<1> DEFINE place == Len(feed) + 1
<1>1. PICK b : b = born + 1
  OBVIOUS
<1>2. /\ c \in OrderRecord /\ c.kind = "start" /\ c.status = "sent" /\ active = 0 /\ born \in Nat
      /\ b \in SessionIds /\ born' = b /\ b = born + 1 /\ c.song \in Titles
      /\ UNCHANGED <<playback, planned, waiting, retired, chosen, muddled>>
      /\ songOf' \in [SessionIds -> Titles \cup {NoTitle}] /\ songOf'[b] = c.song
      /\ \A s \in 1 .. born : songOf'[s] = songOf[s]
  BY <1>1, StartsAreNat DEF ServeStart, OrderTypes, NativeTypes, SessionIds
<1>3. PICK e, d :
        /\ e \in EventRecord /\ Publish(<<e>>) /\ e.s = b
        /\ \/ /\ active' = b /\ nativeState' = "starting" /\ e.kind = "state" /\ e.value = "starting"
              /\ Turned(c, d, "ok", b)
           \/ /\ active' = 0 /\ nativeState' = nativeState /\ e.kind = "outcome" /\ e.value = "failed"
              /\ Turned(c, d, "error", 0)
  <2>1. CASE /\ active' = b /\ nativeState' = "starting"
             /\ Publish(<<[s |-> b, kind |-> "state", value |-> "starting"]>>)
             /\ Turns(c, "ok", b)
    <3>1. \E d : Turned(c, d, "ok", b)
      BY <1>2, <2>1, TurnedOrder
    <3>2. [s |-> b, kind |-> "state", value |-> "starting"] \in EventRecord
      BY <1>2 DEF EventRecord, RunStates
    <3>3. QED
      BY <1>1, <2>1, <3>1, <3>2
  <2>2. CASE /\ Publish(<<[s |-> b, kind |-> "outcome", value |-> "failed"]>>)
             /\ Turns(c, "error", 0) /\ UNCHANGED <<active, nativeState>>
    <3>1. \E d : Turned(c, d, "error", 0)
      BY <1>2, <2>2, TurnedOrder
    <3>2. [s |-> b, kind |-> "outcome", value |-> "failed"] \in EventRecord
      BY <1>2 DEF EventRecord, EndStates
    <3>3. QED
      BY <1>2, <2>2, <3>1, <3>2
  <2>3. QED
    BY <1>1, <2>1, <2>2 DEF ServeStart
<1>4. /\ d \in OrderRecord /\ d.kind = "start" /\ d.song = c.song /\ d.session = 0 /\ d.fresh = c.fresh
      /\ orders' = (orders \ {c}) \cup {d} /\ d.status \in {"ok", "error"}
      /\ d.status = "ok" => d.got = b
      /\ active' = b <=> d.status = "ok"
  BY <1>2, <1>3 DEF Turned, OrderTypes
<1>5. /\ \A i : Place(i)' <=> Place(i) \/ i = place
      /\ \A i : Place(i) => i < place /\ feed'[i] = feed[i] /\ feed[i].s \in 1 .. born
      /\ \A i : Outcome(i)' <=> Outcome(i) \/ (i = place /\ e.kind = "outcome")
      /\ \A i : Outcome(i) => Place(i)
      /\ feed'[place] = e /\ feed' \in Seq(EventRecord) /\ place \in Nat
  BY <1>3, GrownPlaces DEF NativeTypes
<1>6. /\ \A a : IsStart(a)' => (IsStart(a) /\ a # c) \/ a = d
      /\ IsStart(c) /\ IsStart(d)'
  BY <1>2, <1>4 DEF IsStart
<1>7. /\ \A s : Telling(s)' => Telling(s) /\ s \in 1 .. born
  BY <1>2, <1>4 DEF Telling, OrderTypes
<1>8. ShownTypes'
  BY <1>2 DEF ShownTypes
<1>9. NativeTypes'
  <2>1. born' \in 0 .. MaxStarts /\ active' \in {0, born'} /\ born' = b
    BY <1>2, <1>3, StartsAreNat DEF SessionIds
  <2>2. \A s \in 1 .. b : songOf'[s] \in Titles
    BY <1>2 DEF NativeTypes
  <2>3. \A i : Place(i)' => feed'[i].s \in 1 .. b
    BY <1>2, <1>3, <1>5
  <2>4. \A i : Outcome(i)' => feed'[i].value \in EndStates
    BY <1>3, <1>5 DEF NativeTypes, EndStates
  <2>5. QED
    BY <1>2, <1>5, <2>1, <2>2, <2>3, <2>4 DEF NativeTypes
<1>10. OrderTypes'
  BY <1>2, <1>4 DEF OrderTypes
<1>11. ActiveInv'
  BY <1>2, <1>3, <1>4, <1>5, <1>7 DEF ActiveInv, ShownTypes, RunStates
<1>12. FreshInv' /\ RetiredStaysRetired'
  <2>1. b \notin retired
    BY <1>2 DEF ShownTypes
  <2>2. \A a : IsStart(a) /\ a.fresh /\ a.status = "ok" => a.got \in 1 .. b /\ songOf'[a.got] = a.song
    BY <1>2 DEF FreshInv
  <2>3. ASSUME NEW a, IsStart(a)', a.fresh
        PROVE  /\ waiting \in {a.song, NoTitle}
               /\ a.status = "ok" =>
                    /\ a.got \in 1 .. b /\ songOf'[a.got] = a.song
                    /\ a.got \in retired => playback.session = a.got /\ waiting = NoTitle
    <3>1. CASE a = d
      BY <1>2, <1>4, <1>6, <2>1, <2>3, <3>1 DEF FreshInv
    <3>2. CASE IsStart(a)
      BY <2>2, <2>3, <3>2 DEF FreshInv
    <3>3. QED
      BY <1>6, <2>3, <3>1, <3>2
  <2>4. \A a, g : IsStart(a)' /\ IsStart(g)' /\ a.fresh /\ g.fresh => a = g
    BY <1>4, <1>6 DEF FreshInv
  <2>5. FreshInv'
    BY <1>2, <2>3, <2>4 DEF FreshInv
  <2>6. QED
    BY <1>2, <2>5 DEF RetiredStaysRetired
<1>13. ASSUME ~muddled PROVE TellsApart'
  <2> USE <1>13 DEF TellsApart
  <2>1. \A a : IsStart(a)' => a = d
    BY <1>2, <1>4, <1>6 DEF OnlyStart, IsStart
  <2>2. waiting # NoTitle /\ c.fresh
    BY <1>2, <1>6 DEF OnlyStart
  <2>3. OnlyStart'
    BY <1>2, <1>4, <1>6, <2>1, <2>2 DEF OnlyStart
  <2>4. \A s \in 1 .. born : StillSpeaks(s)' => StillSpeaks(s)
    <3>1. \A s \in 1 .. born : (\E i : Place(i)' /\ feed'[i].s = s) => \E i : Place(i) /\ feed[i].s = s
      BY <1>2, <1>3, <1>5
    <3>2. QED
      BY <1>2, <1>3, <1>5, <1>7, <3>1, SpeakersByPlace DEF NativeTypes
  <2>5. \A s \in 1 .. born : songOf[s] = waiting /\ s \notin retired => ~StillSpeaks(s)
    BY <1>2, <1>6 DEF OnlySpeaker, OnlyStart
  <2>6. d.status = "error" => OnlyOutcome(b)'
    BY <1>2, <1>3, <1>4, <1>5, <1>7 DEF OnlyOutcome
  <2>7. OnlySpeaker'
    <3>1. \A s \in 1 .. b : s = b \/ s \in 1 .. born
      BY <1>2
    <3>2. \A s \in 1 .. b : songOf'[s] = waiting /\ s \notin retired /\ StillSpeaks(s)' => s = b
      BY <1>2, <2>4, <2>5, <3>1
    <3>3. d.status = "ok" \/ (d.status = "error" /\ OnlyOutcome(b)')
      BY <1>4, <2>6
    <3>4. ASSUME NEW s \in 1 .. b, songOf'[s] = waiting, s \notin retired, StillSpeaks(s)'
          PROVE  \E a : IsStart(a)' /\ (a.status = "ok" \/ (a.status = "error" /\ OnlyOutcome(s)'))
                                    /\ (a.status = "ok" => a.got = s)
      <4>1. s = b
        BY <3>2, <3>4
      <4>2. OnlyOutcome(b)' <=> OnlyOutcome(s)'
        BY <1>2, <4>1 DEF OnlyOutcome, Telling, Place
      <4>3. QED
        BY <1>4, <1>6, <3>3, <4>1, <4>2
    <3>5. QED
      BY <1>2, <3>4 DEF OnlySpeaker
  <2>8. NothingApplied'
    <3>1. \A a \in orders' : a.session # b
      BY <1>2, <1>4 DEF OrderTypes
    <3>2. playback.session # b /\ b \notin retired
      BY <1>2 DEF ShownTypes
    <3>3. QED
      BY <1>2, <1>3, <1>4, <1>5, <2>1, <3>1, <3>2 DEF NothingApplied
  <2>9. EndIsAhead'
    <3>1. active' = active \/ (active = NoId /\ playback.session # active')
      BY <1>2, <1>3 DEF ShownTypes
    <3>2. QED
      BY <1>2, <1>3, <3>1, EndStaysAhead DEF NativeTypes
  <2>10. IsShown'
    BY <1>2, <1>3, <1>4, <1>6, <2>2 DEF IsShown
  <2>11. LastWord'
    BY <1>2, <1>3, <1>5 DEF LastWord, ShownTypes
  <2>12. QED
    BY <2>3, <2>7, <2>8, <2>9, <2>10, <2>11
<1>14. QED
  BY <1>2, <1>8, <1>9, <1>10, <1>11, <1>12, <1>13

\* stop publishes its event: the session is the one it has stopped, if that has
\* not ended in the meantime.
LEMMA TellingKeepsPlayback ==
  ASSUME PlaybackInv, NEW c \in orders, c.status = "telling",
         Publish(<<[s |-> c.session, kind |-> "state", value |-> "stopping"]>>),
         Turns(c, "ok", c.got),
         UNCHANGED <<shownVars, born, active, nativeState, songOf, muddled>>
  PROVE  PlaybackInv'
<1> USE DEF PlaybackInv, shownVars
<1> DEFINE e == [s |-> c.session, kind |-> "state", value |-> "stopping"]
           place == Len(feed) + 1
<1>1. c \in OrderRecord /\ c.kind = "stop" /\ c.session \in 1 .. born /\ c.got \in Nat /\ born \in Nat
  BY DEF OrderTypes, OrderRecord, NativeTypes
<1>2. e \in EventRecord
  BY <1>1 DEF EventRecord, RunStates
<1>3. PICK d : Turned(c, d, "ok", c.got)
  BY <1>1, TurnedOrder
<1>4. /\ d \in OrderRecord /\ d.kind = "stop" /\ d.session = c.session /\ d.status = "ok"
      /\ orders' = (orders \ {c}) \cup {d}
  BY <1>1, <1>3 DEF Turned
<1>5. /\ \A i : Place(i)' <=> Place(i) \/ i = place
      /\ \A i : Place(i) => i < place /\ feed'[i] = feed[i]
      /\ \A i : Outcome(i)' <=> Outcome(i) \/ (i = place /\ e.kind = "outcome")
      /\ \A i : Outcome(i) => Place(i)
      /\ feed'[place] = e /\ feed' \in Seq(EventRecord) /\ place \in Nat
  BY <1>2, GrownPlaces DEF NativeTypes
<1>6. \A a : IsStart(a)' <=> IsStart(a)
  BY <1>1, <1>4 DEF IsStart
<1>7. /\ \A s : Telling(s)' => Telling(s)
      /\ \A s : Telling(s) => Telling(s)' \/ s = c.session
      /\ Telling(c.session)
  BY <1>4 DEF Telling
<1>8. \A s : StillSpeaks(s)' => StillSpeaks(s)
  <2>1. StillSpeaks(c.session)
    BY <1>5, <1>7, SpeakersByPlace DEF NativeTypes
  <2>2. \A s : (\E i : Place(i)' /\ feed'[i].s = s) => s = c.session \/ \E i : Place(i) /\ feed[i].s = s
    BY <1>5
  <2>3. QED
    BY <1>5, <1>7, <2>1, <2>2, SpeakersByPlace DEF NativeTypes
<1>9. ShownTypes' /\ NativeTypes' /\ OrderTypes'
  <2>1. NativeTypes'
    <3>1. \A i : Place(i)' => feed'[i].s \in 1 .. born
      BY <1>1, <1>5 DEF NativeTypes
    <3>2. \A i : Outcome(i)' => feed'[i].value \in EndStates
      BY <1>5 DEF NativeTypes
    <3>3. QED
      BY <1>5, <3>1, <3>2 DEF NativeTypes
  <2>2. QED
    BY <1>1, <1>4, <2>1 DEF ShownTypes, OrderTypes
<1>10. ActiveInv'
  BY <1>5, <1>7 DEF ActiveInv, RunStates
<1>11. FreshInv' /\ RetiredStaysRetired'
  BY <1>6 DEF FreshInv, RetiredStaysRetired
<1>12. ASSUME ~muddled PROVE TellsApart'
  <2> USE <1>12 DEF TellsApart
  <2>1. OnlyStart' /\ IsShown'
    BY <1>6 DEF OnlyStart, IsShown
  <2>2. \A s : OnlyOutcome(s) => OnlyOutcome(s)'
    BY <1>5, <1>7 DEF OnlyOutcome
  <2>3. OnlySpeaker'
    BY <1>6, <1>8, <2>2 DEF OnlySpeaker
  <2>4. NothingApplied'
    BY <1>1, <1>4, <1>5, <1>6 DEF NothingApplied
  <2>5. EndIsAhead'
    BY <1>2, EndStaysAhead DEF NativeTypes
  <2>6. LastWord'
    BY <1>5, <1>7 DEF LastWord, ActiveInv
  <2>7. QED
    BY <2>1, <2>3, <2>4, <2>5, <2>6
<1>13. QED
  BY <1>9, <1>10, <1>11, <1>12

\* The session that plays has a new state, or tells the old one again.
LEMMA MovingKeepsPlayback ==
  ASSUME PlaybackInv, active # NoId, ~Telling(active), nativeState' \in RunStates,
         NEW e \in EventRecord, e.s = active, e.kind # "outcome", e.value = nativeState', Publish(<<e>>),
         UNCHANGED <<shownVars, orders, born, active, songOf, muddled>>
  PROVE  PlaybackInv'
<1> USE DEF PlaybackInv, shownVars
<1> DEFINE place == Len(feed) + 1
<1>1. active = born /\ born \in Nat /\ active \in 1 .. born
  BY DEF NativeTypes, NoId
<1>2. /\ \A i : Place(i)' <=> Place(i) \/ i = place
      /\ \A i : Place(i) => i < place /\ feed'[i] = feed[i]
      /\ \A i : Outcome(i)' <=> Outcome(i) \/ (i = place /\ e.kind = "outcome")
      /\ \A i : Outcome(i) => Place(i)
      /\ feed'[place] = e /\ feed' \in Seq(EventRecord) /\ place \in Nat
  BY GrownPlaces DEF NativeTypes
<1>3. \A s : (Telling(s)' <=> Telling(s)) /\ (IsStart(s)' <=> IsStart(s)) /\ (StillSpeaks(s)' => StillSpeaks(s))
  BY <1>2 DEF Telling, IsStart, StillSpeaks, Place
<1>4. ShownTypes' /\ NativeTypes' /\ OrderTypes'
  BY <1>1, <1>2 DEF ShownTypes, NativeTypes, OrderTypes
<1>5. ActiveInv' /\ FreshInv' /\ RetiredStaysRetired'
  BY <1>2, <1>3 DEF ActiveInv, FreshInv, RetiredStaysRetired
<1>6. ASSUME ~muddled PROVE TellsApart'
  <2> USE <1>6 DEF TellsApart
  <2>1. OnlyStart' /\ IsShown'
    BY <1>3 DEF OnlyStart, IsShown
  <2>2. OnlySpeaker'
    BY <1>2, <1>3 DEF OnlySpeaker, OnlyOutcome
  <2>3. NothingApplied'
    BY <1>1, <1>2, <1>3 DEF NothingApplied
  <2>4. EndIsAhead'
    BY EndStaysAhead DEF NativeTypes
  <2>5. LastWord'
    BY <1>2, <1>3 DEF LastWord
  <2>6. QED
    BY <2>1, <2>2, <2>3, <2>4, <2>5
<1>7. QED
  BY <1>4, <1>5, <1>6

LEMMA EndingKeepsPlayback ==
  ASSUME PlaybackInv, SessionEnds
  PROVE  PlaybackInv'
<1> USE DEF PlaybackInv, shownVars
<1>1. PICK end \in EndStates :
        Publish(<<[s |-> active, kind |-> "state", value |-> end], [s |-> active, kind |-> "outcome", value |-> end]>>)
  BY DEF SessionEnds
<1> DEFINE d == [s |-> active, kind |-> "state", value |-> end]
           e == [s |-> active, kind |-> "outcome", value |-> end]
           place == Len(feed) + 1
<1>2. /\ active = born /\ born \in Nat /\ active \in 1 .. born /\ active # NoId /\ active' = NoId
      /\ UNCHANGED <<shownVars, orders, born, songOf, muddled>>
  BY DEF SessionEnds, NativeTypes, NoId
<1>3. d \in EventRecord /\ e \in EventRecord
  BY <1>2 DEF EventRecord
<1>4. /\ \A i : Place(i)' <=> Place(i) \/ i = place \/ i = place + 1
      /\ \A i : Place(i) => i < place /\ feed'[i] = feed[i]
      /\ \A i : Place(i) => i \in Nat /\ feed[i].s \in 1 .. born
      /\ feed'[place] = d /\ feed'[place + 1] = e /\ feed' \in Seq(EventRecord) /\ place \in Nat
      /\ \A i : Outcome(i)' <=> Outcome(i) \/ i = place + 1
      /\ \A i : Outcome(i) => Place(i)
  <2>1. /\ \A i : Place(i)' <=> Place(i) \/ i = place \/ i = place + 1
        /\ \A i : Place(i) => i < place /\ feed'[i] = feed[i]
        /\ \A i : Place(i) => i \in Nat /\ feed[i].s \in 1 .. born
        /\ feed'[place] = d /\ feed'[place + 1] = e /\ feed' \in Seq(EventRecord) /\ place \in Nat
    BY <1>1, <1>3, FeedGrowsTwice DEF NativeTypes, Place
  <2>2. d.kind = "state" /\ e.kind = "outcome"
    OBVIOUS
  <2>3. QED
    BY <2>1, <2>2 DEF Outcome
<1>5. \A s : (Telling(s)' <=> Telling(s)) /\ (IsStart(s)' <=> IsStart(s))
  BY <1>2 DEF Telling, IsStart
<1>6. \A s \in 1 .. born : StillSpeaks(s)' => StillSpeaks(s)
  <2>1. \A s : (\E i : Place(i)' /\ feed'[i].s = s) => s = active \/ \E i : Place(i) /\ feed[i].s = s
    BY <1>4
  <2>2. QED
    BY <1>2, <1>4, <1>5, <2>1, SpeakersByPlace DEF NativeTypes, NoId
<1>7. ShownTypes' /\ NativeTypes' /\ OrderTypes'
  <2>1. \A i : Place(i)' => feed'[i].s \in 1 .. born
    BY <1>2, <1>4
  <2>2. \A i : Outcome(i)' => feed'[i].value \in EndStates
    BY <1>1, <1>4 DEF NativeTypes
  <2>3. NativeTypes'
    BY <1>2, <1>4, <2>1, <2>2 DEF NativeTypes
  <2>4. QED
    BY <1>2, <2>3 DEF ShownTypes, OrderTypes
<1>8. ActiveInv' /\ FreshInv' /\ RetiredStaysRetired'
  BY <1>2, <1>5 DEF ActiveInv, FreshInv, RetiredStaysRetired
<1>9. ASSUME ~muddled PROVE TellsApart'
  <2> USE <1>9 DEF TellsApart
  <2>1. OnlyStart' /\ IsShown' /\ LastWord'
    BY <1>2, <1>5 DEF OnlyStart, IsShown, LastWord
  <2>2. \A s \in 1 .. born : OnlyOutcome(s) => OnlyOutcome(s)'
    BY <1>2, <1>4, <1>5 DEF OnlyOutcome, NoId
  <2>3. OnlySpeaker'
    BY <1>2, <1>5, <1>6, <2>2 DEF OnlySpeaker
  <2>4. NothingApplied'
    <3> SUFFICES ASSUME NEW c, IsStart(c), c.status = "ok", waiting # NoTitle
                 PROVE  /\ \E i : Place(i)' /\ feed'[i].s = born
                        /\ \E i : Outcome(i)' /\ feed'[i].s = born /\ \A j : Place(j)' /\ feed'[j].s = born => j <= i
      BY <1>2, <1>5 DEF NothingApplied
    <3>1. PICK z : Place(z)' /\ Outcome(z)' /\ feed'[z].s = born /\ z = place + 1
      BY <1>2, <1>4
    <3>2. \A j : Place(j)' => j <= z
      BY <1>4, <3>1
    <3>3. QED
      BY <3>1, <3>2
  <2>5. EndIsAhead'
    <3>1. CASE playback.session = active
      <4>1. \A j : Place(j)' => feed'[j].s <= active
        BY <1>2, <1>4 DEF NativeTypes
      <4>2. PICK z : Outcome(z)' /\ feed'[z].s = active
        BY <1>4
      <4>3. QED
        BY <3>1, <4>1, <4>2, <1>2 DEF EndIsAhead, Place
    <3>2. CASE playback.session # active
      <4> SUFFICES ASSUME playback.session \notin {NoId} \cup retired
                   PROVE  \E i : Outcome(i)' /\ feed'[i].s = playback.session
                                 /\ \A j : Place(j)' /\ j < i => feed'[j].s <= playback.session
        BY <1>2 DEF EndIsAhead
      <4>1. PICK i : /\ Outcome(i) /\ feed[i].s = playback.session
                     /\ \A j : Place(j) /\ j < i => feed[j].s <= playback.session
        BY <1>2, <3>2 DEF EndIsAhead
      <4>2. Outcome(i)' /\ feed'[i].s = playback.session /\ i < place /\ i \in Nat
        BY <1>4, <4>1
      <4>3. \A j : Place(j)' /\ j < i => Place(j) /\ feed'[j] = feed[j]
        BY <1>4, <4>2
      <4>4. QED
        BY <4>1, <4>2, <4>3
    <3>3. QED
      BY <3>1, <3>2
  <2>6. QED
    BY <2>1, <2>3, <2>4, <2>5
<1>10. QED
  BY <1>2, <1>7, <1>8, <1>9

\* An event less in the feed.
Shrunk == feed # <<>> /\ feed' = Tail(feed)

LEMMA ShrunkPlaces ==
  ASSUME feed \in Seq(EventRecord), Shrunk
  PROVE  /\ \A i : Place(i)' =>
              \E k \in Nat : k = i + 1 /\ Place(k) /\ feed'[i] = feed[k] /\ (Outcome(i)' => Outcome(k))
         /\ \A i : Place(i)' => i \in Nat \ {0}
         /\ \A i : Place(i) => i \in Nat \ {0}
         /\ \A i : Place(i) /\ i # 1 =>
              \E k \in Nat : i = k + 1 /\ Place(k)' /\ feed'[k] = feed[i] /\ (Outcome(i) => Outcome(k)')
         /\ \A i : Outcome(i)' => Place(i)'
         /\ \A i : Outcome(i) => Place(i)
         /\ Place(1) /\ Head(feed) = feed[1] /\ feed[1] \in EventRecord /\ feed' \in Seq(EventRecord)
<1>1. /\ feed' \in Seq(EventRecord) /\ Len(feed) \in Nat \ {0} /\ Len(feed') = Len(feed) - 1
      /\ Head(feed) = feed[1] /\ feed[1] \in EventRecord
      /\ \A i \in 1 .. Len(feed') : feed'[i] = feed[i + 1]
  BY FeedShrinks DEF Shrunk
<1>2. Place(1) /\ \A i : (Place(i)' => i \in Nat \ {0}) /\ (Place(i) => i \in Nat \ {0})
  BY <1>1 DEF Place
<1>3. ASSUME NEW i, Place(i)'
      PROVE  \E k \in Nat : k = i + 1 /\ Place(k) /\ feed'[i] = feed[k] /\ (Outcome(i)' => Outcome(k))
  <2>1. PICK k \in Nat : k = i + 1 /\ Place(k) /\ feed'[i] = feed[k]
    BY <1>1, <1>3 DEF Place
  <2>2. QED
    BY <2>1 DEF Outcome
<1>4. ASSUME NEW i, Place(i), i # 1
      PROVE  \E k \in Nat : i = k + 1 /\ Place(k)' /\ feed'[k] = feed[i] /\ (Outcome(i) => Outcome(k)')
  <2>1. PICK k \in Nat : i = k + 1
    BY <1>1, <1>4 DEF Place
  <2>2. Place(k)' /\ feed'[k] = feed[i]
    BY <1>1, <1>4, <2>1 DEF Place
  <2>3. QED
    BY <2>1, <2>2 DEF Outcome
<1>5. QED
  BY <1>1, <1>2, <1>3, <1>4 DEF Outcome

\* An outcome that is ahead of all that is newer comes closer.
LEMMA EndComesCloser ==
  ASSUME feed \in Seq(EventRecord), Shrunk, NEW s, NEW i,
         Outcome(i), feed[i].s = s, i # 1, \A j : Place(j) /\ j < i => feed[j].s <= s
  PROVE  \E k : Outcome(k)' /\ feed'[k].s = s /\ \A j : Place(j)' /\ j < k => feed'[j].s <= s
<1>1. PICK k \in Nat : i = k + 1 /\ Place(k)' /\ feed'[k] = feed[i] /\ Outcome(k)'
  BY ShrunkPlaces
<1>2. Outcome(k)' /\ feed'[k].s = s
  BY <1>1
<1>3. ASSUME NEW j, Place(j)', j < k PROVE feed'[j].s <= s
  <2>1. PICK l \in Nat : l = j + 1 /\ Place(l) /\ feed'[j] = feed[l] /\ j \in Nat
    BY <1>3, ShrunkPlaces
  <2>2. l < i
    BY <1>1, <1>3, <2>1
  <2>3. QED
    BY <2>1, <2>2
<1>4. QED
  BY <1>2, <1>3

\* The first event of the session whose start has been answered is accepted,
\* because the end of what is still shown is ahead of it.
LEMMA FirstIsAccepted ==
  ASSUME PlaybackInv, ~muddled, NEW c, IsStart(c), c.status = "ok", waiting # NoTitle,
         Place(1), feed[1].s = born
  PROVE  Accepts(born)
<1> USE DEF PlaybackInv, TellsApart
<1>1. /\ c.fresh /\ c.got = born /\ waiting = songOf[born] /\ born \notin retired
      /\ playback.session # born
  BY DEF OnlyStart, FreshInv, NothingApplied
<1>2. playback.session = NoId \/ playback.state \in EndStates
  <2>1. CASE playback.session \in retired
    BY <2>1 DEF RetiredStaysRetired
  <2>2. SUFFICES ASSUME playback.session # NoId, playback.session \notin retired PROVE FALSE
    BY <2>1
  <2>3. PICK i : /\ Outcome(i) /\ feed[i].s = playback.session
                 /\ \A j : Place(j) /\ j < i => feed[j].s <= playback.session
    BY <1>1, <2>2 DEF EndIsAhead, NativeTypes
  <2>4. i \in Nat /\ i # 1 /\ i > 1 /\ Place(1)
    BY <1>1, <2>3 DEF Outcome, Place, NativeTypes
  <2>5. born <= playback.session /\ playback.session <= born
    BY <2>3, <2>4 DEF ShownTypes, NativeTypes
  <2>6. QED
    BY <1>1, <2>5 DEF ShownTypes, NativeTypes
<1>3. QED
  BY <1>1, <1>2 DEF Accepts

\* An event that is not accepted goes by.
LEMMA RefusedKeepsPlayback ==
  ASSUME PlaybackInv, Shrunk, ~Accepts(feed[1].s),
         UNCHANGED <<playback, planned, waiting, retired, chosen, orders, born, active, nativeState, songOf, muddled>>
  PROVE  PlaybackInv'
<1> USE DEF PlaybackInv
<1>1. /\ \A i : Place(i)' =>
           \E k \in Nat : k = i + 1 /\ Place(k) /\ feed'[i] = feed[k] /\ (Outcome(i)' => Outcome(k))
      /\ \A i : Place(i)' => i \in Nat \ {0}
      /\ \A i : Place(i) => i \in Nat \ {0}
      /\ \A i : Place(i) /\ i # 1 =>
           \E k \in Nat : i = k + 1 /\ Place(k)' /\ feed'[k] = feed[i] /\ (Outcome(i) => Outcome(k)')
      /\ \A i : Outcome(i)' => Place(i)'
      /\ \A i : Outcome(i) => Place(i)
      /\ Place(1) /\ feed' \in Seq(EventRecord)
  BY ShrunkPlaces DEF NativeTypes
<1>2. \A s : (Telling(s)' <=> Telling(s)) /\ (IsStart(s)' <=> IsStart(s))
  BY DEF Telling, IsStart
<1>3. ASSUME NEW s, StillSpeaks(s)' PROVE StillSpeaks(s)
  <2>1. (\E i : Place(i)' /\ feed'[i].s = s) => \E i : Place(i) /\ feed[i].s = s
    BY <1>1
  <2>2. QED
    BY <1>1, <1>2, <1>3, <2>1, SpeakersByPlace DEF NativeTypes
<1>4. ShownTypes' /\ NativeTypes' /\ OrderTypes'
  <2>1. NativeTypes'
    BY <1>1 DEF NativeTypes
  <2>2. QED
    BY <2>1 DEF ShownTypes, OrderTypes
<1>5. ActiveInv' /\ FreshInv' /\ RetiredStaysRetired'
  <2>1. \A i : Place(i)' => \E k : Place(k) /\ feed'[i] = feed[k]
    BY <1>1
  <2>2. ActiveInv'
    BY <1>2, <2>1 DEF ActiveInv
  <2>3. QED
    BY <1>2, <2>2 DEF FreshInv, RetiredStaysRetired
<1>6. ASSUME ~muddled PROVE TellsApart'
  <2> USE <1>6 DEF TellsApart
  <2>1. OnlyStart' /\ IsShown'
    BY <1>2 DEF OnlyStart, IsShown
  <2>2. \A s : OnlyOutcome(s) => OnlyOutcome(s)'
    <3>1. \A i : Place(i)' => \E k : Place(k) /\ feed'[i] = feed[k]
      BY <1>1
    <3>2. QED
      BY <1>2, <3>1 DEF OnlyOutcome
  <2>3. OnlySpeaker'
    BY <1>2, <1>3, <2>2 DEF OnlySpeaker
  <2>4. NothingApplied'
    <3> SUFFICES ASSUME NEW c, IsStart(c), c.status = "ok", waiting # NoTitle
                 PROVE  /\ \E i : Place(i)' /\ feed'[i].s = born
                        /\ active # born => \E i : /\ Outcome(i)' /\ feed'[i].s = born
                                                   /\ \A j : Place(j)' /\ feed'[j].s = born => j <= i
      BY <1>2 DEF NothingApplied
    <3>1. feed[1].s # born
      BY <1>1, FirstIsAccepted
    <3>2. \E i : Place(i)' /\ feed'[i].s = born
      BY <1>1, <3>1 DEF NothingApplied
    <3>3. ASSUME active # born
          PROVE  \E i : Outcome(i)' /\ feed'[i].s = born /\ \A j : Place(j)' /\ feed'[j].s = born => j <= i
      <4>1. PICK i : Outcome(i) /\ feed[i].s = born /\ \A j : Place(j) /\ feed[j].s = born => j <= i
        BY <3>3 DEF NothingApplied
      <4>2. i # 1 /\ Place(i)
        BY <1>1, <3>1, <4>1
      <4>3. PICK k \in Nat : i = k + 1 /\ Outcome(k)' /\ feed'[k].s = born
        BY <1>1, <4>1, <4>2
      <4>4. ASSUME NEW j, Place(j)', feed'[j].s = born PROVE j <= k
        <5>1. PICK l \in Nat : l = j + 1 /\ Place(l) /\ feed'[j] = feed[l] /\ j \in Nat
          BY <1>1, <4>4
        <5>2. QED
          BY <4>1, <4>3, <4>4, <5>1
      <4>5. QED
        BY <4>3, <4>4
    <3>4. QED
      BY <3>2, <3>3
  <2>5. EndIsAhead'
    <3> SUFFICES ASSUME playback.session \notin {NoId, active} \cup retired
                 PROVE  \E i : Outcome(i)' /\ feed'[i].s = playback.session
                               /\ \A j : Place(j)' /\ j < i => feed'[j].s <= playback.session
      BY DEF EndIsAhead
    <3>1. PICK i : /\ Outcome(i) /\ feed[i].s = playback.session
                   /\ \A j : Place(j) /\ j < i => feed[j].s <= playback.session
      BY DEF EndIsAhead
    <3>2. i # 1
      BY <3>1 DEF Accepts
    <3>3. QED
      BY <3>1, <3>2, EndComesCloser DEF NativeTypes
  <2>6. LastWord'
    <3> SUFFICES ASSUME active # NoId, ~Telling(active)
                 PROVE  /\ \A i : /\ Place(i)' /\ feed'[i].s = active
                                  /\ (\A j : Place(j)' /\ j > i => feed'[j].s # active)
                             => feed'[i].value = nativeState
                        /\ playback.session = active /\ (\A i : Place(i)' => feed'[i].s # active) =>
                             playback.state = nativeState
      BY <1>2 DEF LastWord
    <3>1. ASSUME NEW i, Place(i)', feed'[i].s = active, \A j : Place(j)' /\ j > i => feed'[j].s # active
          PROVE  feed'[i].value = nativeState
      <4>1. PICK k \in Nat : k = i + 1 /\ Place(k) /\ feed'[i] = feed[k] /\ i \in Nat
        BY <1>1, <3>1
      <4>2. ASSUME NEW j, Place(j), j > k PROVE feed[j].s # active
        <5>1. j # 1 /\ j \in Nat
          BY <1>1, <4>1, <4>2
        <5>2. PICK l \in Nat : j = l + 1 /\ Place(l)' /\ feed'[l] = feed[j]
          BY <1>1, <4>2, <5>1
        <5>3. QED
          BY <3>1, <4>1, <4>2, <5>2
      <4>3. QED
        BY <3>1, <4>1, <4>2 DEF LastWord
    <3>2. ASSUME playback.session = active, \A i : Place(i)' => feed'[i].s # active
          PROVE  playback.state = nativeState
      <4>1. feed[1].s # active
        BY <3>2 DEF Accepts, ActiveInv
      <4>2. \A i : Place(i) => feed[i].s # active
        BY <1>1, <3>2, <4>1
      <4>3. QED
        BY <3>2, <4>2 DEF LastWord
    <3>3. QED
      BY <3>1, <3>2
  <2>7. QED
    BY <2>1, <2>3, <2>4, <2>5, <2>6
<1>7. QED
  BY <1>4, <1>5, <1>6

\* What the store waited for is the session that its start was answered with, or
\* one that could not be created.
LEMMA FirstIsTheStarted ==
  ASSUME PlaybackInv, ~muddled, Place(1), feed[1].s \notin retired, waiting = songOf[feed[1].s]
  PROVE  \E c : /\ IsStart(c) /\ \A a : IsStart(a) => a = c
                /\ \/ c.status = "ok" /\ c.got = born /\ feed[1].s = born
                   \/ c.status = "error" /\ feed[1].kind = "outcome"
<1> USE DEF PlaybackInv, TellsApart
<1>1. feed[1].s \in 1 .. born /\ feed \in Seq(EventRecord)
  BY DEF NativeTypes
<1>2. StillSpeaks(feed[1].s)
  <2>1. DOMAIN feed = 1 .. Len(feed)
    BY <1>1
  <2>2. QED
    BY <2>1 DEF StillSpeaks, Place
<1>3. PICK c : /\ IsStart(c) /\ (c.status = "ok" \/ (c.status = "error" /\ OnlyOutcome(feed[1].s)))
               /\ (c.status = "ok" => c.got = feed[1].s)
  BY <1>1, <1>2 DEF OnlySpeaker
<1>4. QED
  BY <1>3 DEF OnlyStart, OnlyOutcome

LEMMA AcceptedKeepsPlayback ==
  ASSUME PlaybackInv, Shrunk, Accepts(feed[1].s), NEW e, e = feed[1],
         playback' \in ViewRecord, playback'.state = e.value, playback'.session = e.s,
         waiting' = IF waiting = songOf[e.s] THEN NoTitle ELSE waiting,
         retired' = IF e.kind = "outcome" THEN retired \cup {e.s} ELSE retired,
         UNCHANGED <<planned, chosen, orders, born, active, nativeState, songOf, muddled>>
  PROVE  PlaybackInv'
<1> USE DEF PlaybackInv
<1>1. /\ \A i : Place(i)' =>
           \E k \in Nat : k = i + 1 /\ Place(k) /\ feed'[i] = feed[k] /\ (Outcome(i)' => Outcome(k))
      /\ \A i : Place(i)' => i \in Nat \ {0}
      /\ \A i : Place(i) => i \in Nat \ {0}
      /\ \A i : Place(i) /\ i # 1 =>
           \E k \in Nat : i = k + 1 /\ Place(k)' /\ feed'[k] = feed[i] /\ (Outcome(i) => Outcome(k)')
      /\ \A i : Outcome(i)' => Place(i)'
      /\ \A i : Outcome(i) => Place(i)
      /\ Place(1) /\ feed' \in Seq(EventRecord)
  BY ShrunkPlaces DEF NativeTypes
<1>2. \A s : (Telling(s)' <=> Telling(s)) /\ (IsStart(s)' <=> IsStart(s))
  BY DEF Telling, IsStart
<1>3. ASSUME NEW s, StillSpeaks(s)' PROVE StillSpeaks(s)
  <2>1. (\E i : Place(i)' /\ feed'[i].s = s) => \E i : Place(i) /\ feed[i].s = s
    BY <1>1
  <2>2. QED
    BY <1>1, <1>2, <1>3, <2>1, SpeakersByPlace DEF NativeTypes
<1>4. \A i : Place(i)' => \E k : Place(k) /\ feed'[i] = feed[k] /\ (Outcome(i)' => Outcome(k))
  BY <1>1
<1>5. /\ e.s \in 1 .. born /\ e.s \notin retired /\ songOf[e.s] \in Titles
      /\ e.value \in RunStates \cup EndStates /\ (e.kind = "outcome" => e.value \in EndStates)
      /\ playback.session = e.s \/ (waiting = songOf[e.s] /\ (playback.session = NoId \/ playback.state \in {"idle"} \cup EndStates))
  <2>1. e \in EventRecord
    BY ShrunkPlaces DEF NativeTypes
  <2>2. e.kind = "outcome" => Outcome(1)
    BY <1>1 DEF Outcome
  <2>3. QED
    BY <1>1, <2>1, <2>2 DEF NativeTypes, Accepts, EventRecord
<1>6. ShownTypes' /\ NativeTypes' /\ OrderTypes'
  <2>1. NativeTypes'
    <3>1. \A i : Place(i)' => feed'[i].s \in 1 .. born
      BY <1>4 DEF NativeTypes
    <3>2. \A i : Outcome(i)' => feed'[i].value \in EndStates
      BY <1>1, <1>4 DEF NativeTypes
    <3>3. QED
      BY <1>1, <3>1, <3>2 DEF NativeTypes
  <2>2. playback'.session \in 0 .. born /\ playback'.session # NoId /\ playback'.state # "idle"
    BY <1>5 DEF NoId, RunStates, EndStates
  <2>3. retired' \subseteq 1 .. born /\ waiting' \in Titles \cup {NoTitle}
    BY <1>5 DEF ShownTypes
  <2>4. ShownTypes'
    BY <2>2, <2>3 DEF ShownTypes
  <2>5. QED
    BY <2>1, <2>4 DEF OrderTypes
<1>7. ActiveInv'
  <2>1. active # NoId /\ e.s = active => e.kind # "outcome" /\ e.value \in RunStates
    BY <1>1 DEF ActiveInv
  <2>2. QED
    BY <1>2, <1>4, <2>1 DEF ActiveInv
<1>8. FreshInv'
  <2>1. ASSUME NEW c, IsStart(c), c.fresh
        PROVE  /\ waiting' \in {c.song, NoTitle}
               /\ c.status = "ok" /\ c.got \in retired' => playback'.session = c.got /\ waiting' = NoTitle
    <3>1. /\ waiting \in {c.song, NoTitle}
          /\ c.status = "ok" => songOf[c.got] = c.song
          /\ c.status = "ok" /\ c.got \in retired => playback.session = c.got /\ waiting = NoTitle
      BY <2>1 DEF FreshInv
    <3>2. QED
      BY <1>5, <3>1, NoTitleIsNone
  <2>2. QED
    BY <1>2, <2>1 DEF FreshInv
<1>9. RetiredStaysRetired'
  BY <1>5 DEF RetiredStaysRetired
<1>10. ASSUME ~muddled PROVE TellsApart'
  <2> USE <1>10 DEF TellsApart
  <2>1. waiting = songOf[e.s] =>
          \E c : /\ IsStart(c) /\ \A a : IsStart(a) => a = c
                 /\ \/ c.status = "ok" /\ c.got = born /\ e.s = born
                    \/ c.status = "error" /\ e.kind = "outcome"
    BY <1>1, <1>5, FirstIsTheStarted
  <2>2. waiting' # NoTitle => waiting' = waiting /\ waiting # songOf[e.s] /\ playback.session = e.s
    BY <1>5
  <2>3. OnlyStart'
    <3>1. ASSUME NEW c, IsStart(c), waiting' = NoTitle
          PROVE  c.status # "sent" /\ (c.status = "ok" => playback'.session = born)
      <4>1. CASE waiting = songOf[e.s]
        BY <2>1, <3>1, <4>1
      <4>2. CASE waiting # songOf[e.s]
        BY <1>5, <3>1, <4>2 DEF OnlyStart
      <4>3. QED
        BY <4>1, <4>2
    <3>2. QED
      BY <1>2, <2>2, <3>1 DEF OnlyStart
  <2>4. OnlySpeaker'
    <3>1. \A s : OnlyOutcome(s) => OnlyOutcome(s)'
      <4>1. \A i : Place(i)' => \E k : Place(k) /\ feed'[i] = feed[k]
        BY <1>1
      <4>2. QED
        BY <1>2, <4>1 DEF OnlyOutcome
    <3>2. \A s \in 1 .. born : songOf[s] = waiting' => waiting' = waiting
      BY <2>2, NoTitleIsNone DEF NativeTypes
    <3>3. \A s : s \notin retired' => s \notin retired
      OBVIOUS
    <3>4. QED
      BY <1>2, <1>3, <3>1, <3>2, <3>3 DEF OnlySpeaker
  <2>5. NothingApplied'
    <3> SUFFICES ASSUME NEW c, IsStart(c), c.status = "ok", waiting' # NoTitle
                 PROVE  /\ e.s # born /\ born \notin retired'
                        /\ \A d \in orders : d.session # born
                        /\ \E i : Place(i)' /\ feed'[i].s = born
                        /\ active # born => \E i : /\ Outcome(i)' /\ feed'[i].s = born
                                                   /\ \A j : Place(j)' /\ feed'[j].s = born => j <= i
      BY <1>2 DEF NothingApplied
    <3>1. waiting # NoTitle /\ playback.session = e.s
      BY <2>2
    <3>2. e.s # born /\ born \notin retired' /\ \A d \in orders : d.session # born
      BY <3>1 DEF NothingApplied
    <3>3. \E i : Place(i)' /\ feed'[i].s = born
      BY <1>1, <3>1, <3>2 DEF NothingApplied
    <3>4. ASSUME active # born
          PROVE  \E i : Outcome(i)' /\ feed'[i].s = born /\ \A j : Place(j)' /\ feed'[j].s = born => j <= i
      <4>1. PICK i : Outcome(i) /\ feed[i].s = born /\ \A j : Place(j) /\ feed[j].s = born => j <= i
        BY <3>1, <3>4 DEF NothingApplied
      <4>2. i # 1 /\ Place(i)
        BY <1>1, <3>2, <4>1
      <4>3. PICK k \in Nat : i = k + 1 /\ Outcome(k)' /\ feed'[k].s = born
        BY <1>1, <4>1, <4>2
      <4>4. ASSUME NEW j, Place(j)', feed'[j].s = born PROVE j <= k
        <5>1. PICK l \in Nat : l = j + 1 /\ Place(l) /\ feed'[j] = feed[l] /\ j \in Nat
          BY <1>1, <4>4
        <5>2. QED
          BY <4>1, <4>3, <4>4, <5>1
      <4>5. QED
        BY <4>3, <4>4
    <3>5. QED
      BY <3>2, <3>3, <3>4
  <2>6. EndIsAhead'
    <3> SUFFICES ASSUME e.s \notin {NoId, active} \cup retired'
                 PROVE  \E i : Outcome(i)' /\ feed'[i].s = e.s
                               /\ \A j : Place(j)' /\ j < i => feed'[j].s <= e.s
      BY DEF EndIsAhead
    <3>1. e.kind # "outcome" /\ e.s \notin retired /\ ~Outcome(1)
      BY DEF Outcome
    <3>2. PICK i : /\ Outcome(i) /\ feed[i].s = e.s
                   /\ \A j : Place(j) /\ j < i => feed[j].s <= e.s
      <4>1. CASE playback.session = e.s
        BY <3>1, <4>1 DEF EndIsAhead
      <4>2. CASE playback.session # e.s
        <5>1. PICK c : IsStart(c) /\ c.status = "ok" /\ e.s = born /\ waiting # NoTitle
          BY <1>5, <2>1, <3>1, <4>2, NoTitleIsNone
        <5>2. PICK i : Outcome(i) /\ feed[i].s = born
          BY <5>1 DEF NothingApplied
        <5>3. \A j : Place(j) => feed[j].s <= born
          BY DEF NativeTypes
        <5>4. QED
          BY <5>1, <5>2, <5>3
      <4>3. QED
        BY <4>1, <4>2
    <3>3. QED
      BY <3>1, <3>2, EndComesCloser DEF NativeTypes
  <2>7. IsShown'
    <3> SUFFICES ASSUME active # NoId, e.s # active
                 PROVE  waiting' # NoTitle /\ \E c : IsStart(c) /\ c.status = "ok"
      BY <1>2 DEF IsShown
    <3>1. playback.session # active
      BY <1>5 DEF ActiveInv, RunStates, EndStates
    <3>2. waiting # NoTitle /\ \E c : IsStart(c) /\ c.status = "ok"
      BY <3>1 DEF IsShown
    <3>3. waiting # songOf[e.s]
      BY <2>1, <3>2 DEF NativeTypes
    <3>4. QED
      BY <3>2, <3>3
  <2>8. LastWord'
    <3> SUFFICES ASSUME active # NoId, ~Telling(active)
                 PROVE  /\ \A i : /\ Place(i)' /\ feed'[i].s = active
                                  /\ (\A j : Place(j)' /\ j > i => feed'[j].s # active)
                             => feed'[i].value = nativeState
                        /\ e.s = active /\ (\A i : Place(i)' => feed'[i].s # active) =>
                             e.value = nativeState
      BY <1>2 DEF LastWord
    <3>1. ASSUME NEW i, Place(i)', feed'[i].s = active, \A j : Place(j)' /\ j > i => feed'[j].s # active
          PROVE  feed'[i].value = nativeState
      <4>1. PICK k \in Nat : k = i + 1 /\ Place(k) /\ feed'[i] = feed[k] /\ i \in Nat
        BY <1>1, <3>1
      <4>2. ASSUME NEW j, Place(j), j > k PROVE feed[j].s # active
        <5>1. j # 1 /\ j \in Nat
          BY <1>1, <4>1, <4>2
        <5>2. PICK l \in Nat : j = l + 1 /\ Place(l)' /\ feed'[l] = feed[j]
          BY <1>1, <4>2, <5>1
        <5>3. QED
          BY <3>1, <4>1, <4>2, <5>2
      <4>3. QED
        BY <3>1, <4>1, <4>2 DEF LastWord
    <3>2. ASSUME e.s = active, \A i : Place(i)' => feed'[i].s # active
          PROVE  e.value = nativeState
      <4>1. \A j : Place(j) /\ j > 1 => feed[j].s # active
        BY <1>1, <3>2
      <4>2. QED
        BY <1>1, <3>2, <4>1 DEF LastWord
    <3>3. QED
      BY <3>1, <3>2
  <2>9. QED
    BY <2>3, <2>4, <2>5, <2>6, <2>7, <2>8
<1>11. QED
  BY <1>6, <1>7, <1>8, <1>9, <1>10

\* Every field of the view that is shown after an event is one it can have.
LEMMA TheViewHasItsFields ==
  ASSUME PlaybackInv, Place(1), NEW e, e = feed[1],
         playback' = [state |-> e.value, session |-> e.s, title |-> Title(e), pending |-> Pending(e)]
  PROVE  playback' \in ViewRecord /\ playback'.state = e.value /\ playback'.session = e.s
<1> USE DEF PlaybackInv
<1>1. e \in EventRecord /\ e.s \in 1 .. born /\ songOf[e.s] \in Titles
  BY DEF NativeTypes, Place
<1>2. playback.title \in Titles \cup {NoTitle} /\ playback.pending \in {"none", "pause", "resume"}
  BY DEF ShownTypes, ViewRecord
<1>3. Title(e) \in Titles \cup {NoTitle}
  BY <1>1, <1>2 DEF Title, ShownTypes
<1>4. Pending(e) \in {"none", "pause", "resume"}
  BY <1>2 DEF Pending
<1>5. QED
  BY <1>1, <1>3, <1>4 DEF ViewRecord, EventRecord

LEMMA ApplyKeepsPlayback ==
  ASSUME PlaybackInv, ApplyEvent
  PROVE  PlaybackInv'
<1>1. Shrunk /\ UNCHANGED <<planned, chosen, orders, born, active, nativeState, songOf, muddled>>
  BY DEF ApplyEvent, Shrunk
<1>2. Place(1) /\ Head(feed) = feed[1]
  BY <1>1, ShrunkPlaces DEF PlaybackInv, NativeTypes
<1>3. Apply(feed[1])
  BY <1>2 DEF ApplyEvent
<1>4. CASE Accepts(feed[1].s)
  <2>1. PICK e : e = feed[1]
    OBVIOUS
  <2>2. /\ playback' = [state |-> e.value, session |-> e.s, title |-> Title(e), pending |-> Pending(e)]
        /\ waiting' = IF waiting = songOf[e.s] THEN NoTitle ELSE waiting
        /\ retired' = IF e.kind = "outcome" THEN retired \cup {e.s} ELSE retired
    BY <1>3, <1>4, <2>1 DEF Apply
  <2>3. QED
    BY <1>1, <1>2, <1>4, <2>1, <2>2, TheViewHasItsFields, AcceptedKeepsPlayback
<1>5. CASE ~Accepts(feed[1].s)
  <2>1. UNCHANGED <<playback, waiting, retired>>
    BY <1>3, <1>5 DEF Apply
  <2>2. QED
    BY <1>1, <1>5, <2>1, RefusedKeepsPlayback
<1>6. QED
  BY <1>4, <1>5

\* An answer leaves the others where they are.
LEMMA ReturnsLeaveTheRest ==
  ASSUME PlaybackInv, NEW c \in orders, c.status # "telling", orders' = orders \ {c},
         UNCHANGED <<born, active, feed>>
  PROVE  /\ \A s : (Telling(s)' <=> Telling(s)) /\ (StillSpeaks(s)' <=> StillSpeaks(s))
         /\ \A d : IsStart(d)' => IsStart(d) /\ d # c
         /\ \A d : IsStart(d) /\ d # c => IsStart(d)'
         /\ OrderTypes'
BY DEF Telling, StillSpeaks, IsStart, PlaybackInv, OrderTypes

LEMMA CommandReturnsKeepsPlayback ==
  ASSUME PlaybackInv, NEW c \in orders, CommandReturns(c)
  PROVE  PlaybackInv'
<1> USE DEF PlaybackInv, nativeVars
<1>1. /\ orders' = orders \ {c} /\ c.kind # "start" /\ c.status # "telling"
      /\ playback' \in ViewRecord /\ playback'.state = playback.state /\ playback'.session = playback.session
      /\ UNCHANGED <<planned, waiting, retired, chosen, born, active, nativeState, songOf, feed, muddled>>
  BY DEF CommandReturns, Arrived, ShownTypes, ViewRecord
<1>2. /\ \A s : (Telling(s)' <=> Telling(s)) /\ (StillSpeaks(s)' <=> StillSpeaks(s))
      /\ \A d : IsStart(d)' <=> IsStart(d)
      /\ OrderTypes'
  BY <1>1, ReturnsLeaveTheRest DEF IsStart
<1>3. ShownTypes' /\ NativeTypes'
  BY <1>1 DEF ShownTypes, NativeTypes, Place, Outcome
<1>4. ActiveInv' /\ FreshInv' /\ RetiredStaysRetired'
  BY <1>1, <1>2 DEF ActiveInv, FreshInv, RetiredStaysRetired, Place
<1>5. ASSUME ~muddled PROVE TellsApart'
  <2> USE <1>5 DEF TellsApart
  <2>1. OnlyStart' /\ IsShown'
    BY <1>1, <1>2 DEF OnlyStart, IsShown
  <2>2. OnlySpeaker'
    BY <1>1, <1>2 DEF OnlySpeaker, OnlyOutcome, Place
  <2>3. NothingApplied'
    BY <1>1, <1>2 DEF NothingApplied, Place, Outcome
  <2>4. EndIsAhead' /\ LastWord'
    BY <1>1, <1>2 DEF EndIsAhead, LastWord, Place, Outcome
  <2>5. QED
    BY <2>1, <2>2, <2>3, <2>4
<1>6. QED
  BY <1>1, <1>2, <1>3, <1>4, <1>5

LEMMA StartRefusedKeepsPlayback ==
  ASSUME PlaybackInv, NEW c \in orders, StartRefused(c)
  PROVE  PlaybackInv'
<1> USE DEF PlaybackInv, nativeVars
<1>1. /\ orders' = orders \ {c} /\ c.kind = "start" /\ c.status = "error" /\ IsStart(c)
      /\ waiting' = IF c.fresh THEN NoTitle ELSE waiting
      /\ UNCHANGED <<playback, planned, retired, chosen, born, active, nativeState, songOf, feed, muddled>>
  BY DEF StartRefused, Arrived, IsStart
<1>2. /\ \A s : (Telling(s)' <=> Telling(s)) /\ (StillSpeaks(s)' <=> StillSpeaks(s))
      /\ \A d : IsStart(d)' => IsStart(d) /\ d # c
      /\ OrderTypes'
  BY <1>1, ReturnsLeaveTheRest
<1>3. ShownTypes' /\ NativeTypes'
  BY <1>1 DEF ShownTypes, NativeTypes, Place, Outcome
<1>4. ActiveInv' /\ FreshInv' /\ RetiredStaysRetired'
  <2>1. ActiveInv'
    BY <1>1, <1>2 DEF ActiveInv, Place
  <2>2. FreshInv'
    BY <1>1, <1>2 DEF FreshInv
  <2>3. QED
    BY <1>1, <2>1, <2>2 DEF RetiredStaysRetired
<1>5. ASSUME ~muddled PROVE TellsApart'
  <2> USE <1>5 DEF TellsApart
  <2>1. c.fresh /\ waiting' = NoTitle /\ \A d : ~IsStart(d)'
    BY <1>1, <1>2 DEF OnlyStart
  <2>2. OnlyStart' /\ NothingApplied'
    BY <2>1 DEF OnlyStart, NothingApplied
  <2>3. OnlySpeaker'
    BY <1>1, <2>1, NoTitleIsNone DEF OnlySpeaker, NativeTypes
  <2>4. IsShown'
    BY <1>1 DEF IsShown, OnlyStart
  <2>5. EndIsAhead' /\ LastWord'
    BY <1>1, <1>2 DEF EndIsAhead, LastWord, Place, Outcome
  <2>6. QED
    BY <2>2, <2>3, <2>4, <2>5
<1>6. QED
  BY <1>1, <1>2, <1>3, <1>4, <1>5

\* The answer to a start: the session it names is on the screen, or all it has
\* published is still to come.
LEMMA StartReturnsKeepsPlayback ==
  ASSUME PlaybackInv, NEW c \in orders, StartReturns(c)
  PROVE  PlaybackInv'
<1> USE DEF PlaybackInv, nativeVars
<1>1. /\ orders' = orders \ {c} /\ c.kind = "start" /\ c.status = "ok" /\ IsStart(c)
      /\ UNCHANGED <<retired, chosen, born, active, nativeState, songOf, feed, muddled>>
  BY DEF StartReturns, Arrived, IsStart
<1>2. /\ \A s : (Telling(s)' <=> Telling(s)) /\ (StillSpeaks(s)' <=> StillSpeaks(s))
      /\ \A d : IsStart(d)' => IsStart(d) /\ d # c
      /\ \A d : IsStart(d) /\ d # c => IsStart(d)'
      /\ OrderTypes'
  BY <1>1, ReturnsLeaveTheRest
<1>3. NativeTypes'
  BY <1>1 DEF NativeTypes, Place, Outcome
<1>4. CASE ~c.fresh
  <2>1. UNCHANGED <<playback, planned, waiting>>
    BY <1>4 DEF StartReturns
  <2>2. ShownTypes' /\ RetiredStaysRetired'
    BY <1>1, <2>1 DEF ShownTypes, RetiredStaysRetired
  <2>3. ActiveInv'
    BY <1>1, <1>2, <2>1 DEF ActiveInv, Place
  <2>4. FreshInv'
    BY <1>1, <1>2, <2>1 DEF FreshInv
  <2>5. muddled
    BY <1>1, <1>4 DEF TellsApart, OnlyStart
  <2>6. QED
    BY <1>1, <1>2, <1>3, <2>2, <2>3, <2>4, <2>5
<1>5. CASE c.fresh
  <2>1. /\ waiting' = NoTitle /\ planned' = NoTitle
        /\ playback' = [playback EXCEPT !.session = c.got,
                                !.title = IF @ = NoTitle THEN c.song ELSE @,
                                !.state = IF Bound(c.got) THEN @ ELSE "starting"]
    BY <1>5 DEF StartReturns
  <2>2. /\ c.got \in 1 .. born /\ born \in Nat /\ c.song \in Titles
        /\ c.got \in retired => playback.session = c.got
    BY <1>1, <1>5 DEF FreshInv, OrderTypes, NativeTypes
  <2>3. /\ playback' \in ViewRecord /\ playback'.session = c.got
        /\ playback'.state = IF playback.session = c.got THEN playback.state ELSE "starting"
    <3>1. PICK title, turn :
            /\ title = (IF playback.title = NoTitle THEN c.song ELSE playback.title)
            /\ turn = (IF playback.session = c.got THEN playback.state ELSE "starting")
      OBVIOUS
    <3>2. playback \in ViewRecord /\ playback.title \in Titles \cup {NoTitle}
      BY DEF ShownTypes, ViewRecord
    <3>3. title \in Titles \cup {NoTitle} /\ turn \in {"idle"} \cup RunStates \cup EndStates
      BY <2>2, <3>1, <3>2 DEF ViewRecord, RunStates
    <3>4. playback' = [playback EXCEPT !.session = c.got, !.title = title, !.state = turn]
      BY <2>1, <3>1, <3>2 DEF Bound, ViewRecord
    <3>5. playback' = [state |-> turn, session |-> c.got, title |-> title, pending |-> playback.pending]
      BY <3>2, <3>4 DEF ViewRecord
    <3>6. c.got \in Nat /\ playback.pending \in {"none", "pause", "resume"}
      BY <2>2, <3>2 DEF ViewRecord
    <3>7. playback' \in ViewRecord /\ playback'.session = c.got /\ playback'.state = turn
      BY <3>3, <3>5, <3>6 DEF ViewRecord
    <3>8. QED
      BY <3>1, <3>7
  <2>4. ShownTypes'
    BY <1>1, <2>1, <2>2, <2>3 DEF ShownTypes, NoId
  <2>5. ActiveInv'
    BY <1>1, <1>2, <2>3 DEF ActiveInv, Place, RunStates
  <2>6. RetiredStaysRetired'
    BY <1>1, <2>2, <2>3 DEF RetiredStaysRetired
  <2>7. FreshInv'
    BY <1>1, <1>2, <1>5 DEF FreshInv
  <2>8. ASSUME ~muddled PROVE TellsApart'
    <3> USE <2>8 DEF TellsApart
    <3>1. c.got = born /\ \A d : ~IsStart(d)'
      BY <1>1, <1>2 DEF OnlyStart
    <3>2. OnlyStart' /\ NothingApplied'
      BY <2>1, <3>1 DEF OnlyStart, NothingApplied
    <3>3. OnlySpeaker'
      BY <1>1, <2>1, NoTitleIsNone DEF OnlySpeaker, NativeTypes
    <3>4. IsShown'
      BY <1>1, <2>3, <3>1 DEF IsShown, NativeTypes
    <3>5. CASE waiting = NoTitle
      <4>1. playback.session = born /\ playback'.session = born /\ playback'.state = playback.state
        BY <1>1, <2>3, <3>1, <3>5 DEF OnlyStart
      <4>2. EndIsAhead' /\ LastWord'
        BY <1>1, <1>2, <4>1 DEF EndIsAhead, LastWord, Place, Outcome
      <4>3. QED
        BY <3>2, <3>3, <3>4, <4>2
    <3>6. CASE waiting # NoTitle
      <4>1. /\ \E i : Place(i) /\ feed[i].s = born
            /\ active # born => \E i : Outcome(i) /\ feed[i].s = born
            /\ \A i : Place(i) => feed[i].s \in 1 .. born
        BY <1>1, <3>6 DEF NothingApplied, NativeTypes
      <4>2. EndIsAhead'
        BY <1>1, <2>2, <2>3, <3>1, <4>1 DEF EndIsAhead, Place, Outcome
      <4>3. LastWord'
        BY <1>1, <1>2, <2>3, <3>1, <4>1 DEF LastWord, Place
      <4>4. QED
        BY <3>2, <3>3, <3>4, <4>2, <4>3
    <3>7. QED
      BY <3>5, <3>6
  <2>9. QED
    BY <1>1, <1>2, <1>3, <2>4, <2>5, <2>6, <2>7, <2>8
<1>6. QED
  BY <1>4, <1>5

LEMMA ClicksKeepPlayback ==
  ASSUME PlaybackInv, UserClicks \/ Prepared
  PROVE  PlaybackInv'
<1> USE DEF PlaybackInv, nativeVars
<1>1. ASSUME NEW song \in Titles, ChooseSong(song) PROVE PlaybackInv'
  <2>1. /\ playback' \in ViewRecord /\ playback'.session = playback.session
        /\ playback'.state = playback.state
    BY <1>1 DEF ChooseSong, ShownTypes, ViewRecord
  <2>2. ShownTypes'
    BY <1>1, <2>1 DEF ChooseSong, ShownTypes
  <2>3. QED
    BY <1>1, <2>1, <2>2, StandsStill DEF ChooseSong
<1>2. CASE Play
  BY <1>2, StandsStill DEF Play, ShownTypes
<1>3. CASE Decide
  <2>1. planned \in Titles
    BY <1>3 DEF Decide, ShownTypes
  <2>2. QED
    BY <1>3, <2>1, StartKeepsPlayback DEF Decide
<1>4. CASE Prepared
  <2>1. chosen \in Titles
    BY DEF ShownTypes
  <2>2. CASE planned' = chosen /\ StartPreparedPlayback(chosen)
    BY <1>4, <2>1, <2>2, StartKeepsPlayback DEF Prepared
  <2>3. CASE planned' \in {chosen, NoTitle} /\ UNCHANGED <<waiting, orders, muddled>>
    BY <1>4, <2>1, <2>3, StandsStill DEF Prepared, ShownTypes
  <2>4. QED
    BY <1>4, <2>2, <2>3 DEF Prepared
<1>5. QED
  BY <1>1, <1>2, <1>3, <1>4, CommandKeepsPlayback DEF UserClicks

LEMMA ServesKeepPlayback ==
  ASSUME PlaybackInv, NativeServes
  PROVE  PlaybackInv'
<1> USE DEF PlaybackInv, nativeVars
<1>1. PICK c \in orders : ServeStart(c) \/ ServeCommand(c) \/ ServeStop(c) \/ Refuse(c)
  BY DEF NativeServes
<1>2. c \in OrderRecord /\ active \in Nat /\ (c.status = "telling" => c.kind = "stop" /\ c.got \in Nat)
  BY DEF OrderTypes, OrderRecord, NativeTypes, NoId
<1>3. CASE ServeCommand(c)
  <2>1. PICK d : Turned(c, d, "ok", active)
    BY <1>2, <1>3, TurnedOrder DEF ServeCommand
  <2>2. QED
    BY <1>2, <1>3, <2>1, ServedKeepsPlayback DEF ServeCommand, Serves
<1>4. CASE Refuse(c)
  <2>1. PICK d : Turned(c, d, "error", NoId)
    BY <1>2, <1>4, TurnedOrder DEF Refuse, NoId
  <2>2. QED
    BY <1>2, <1>4, <2>1, ServedKeepsPlayback DEF Refuse, NoId
<1>5. CASE ServeStop(c) /\ Serves(c) /\ Turns(c, "telling", active) /\ nativeState' = "stopping" /\ UNCHANGED feed
  <2>1. PICK d : Turned(c, d, "telling", active)
    BY <1>2, <1>5, TurnedOrder
  <2>2. QED
    BY <1>2, <1>5, <2>1, ServedKeepsPlayback DEF ServeStop, Serves
<1>6. CASE /\ ServeStop(c) /\ c.status = "telling" /\ Turns(c, "ok", c.got)
           /\ Publish(<<[s |-> c.session, kind |-> "state", value |-> "stopping"]>>)
           /\ UNCHANGED nativeState
  BY <1>6, TellingKeepsPlayback DEF ServeStop
<1>7. QED
  BY <1>1, <1>3, <1>4, <1>5, <1>6, ServeStartKeepsPlayback DEF ServeStop

LEMMA PlayerKeepsPlayback ==
  ASSUME PlaybackInv, PlayerActs
  PROVE  PlaybackInv'
<1> USE DEF PlaybackInv
<1>1. active # NoId /\ nativeState # "stopping" => ~Telling(active) /\ active \in Nat
  BY DEF ActiveInv, NativeTypes, NoId
<1>2. CASE PlayerMoves
  <2>1. PICK new \in {"playing", "paused"} :
          /\ nativeState \in {"starting", "playing", "paused"} /\ nativeState' = new
          /\ Publish(<<[s |-> active, kind |-> "state", value |-> new]>>)
    BY <1>2 DEF PlayerMoves
  <2>2. PICK e : e = [s |-> active, kind |-> "state", value |-> new]
    OBVIOUS
  <2>3. e \in EventRecord /\ e.s = active /\ e.kind # "outcome" /\ e.value = nativeState'
        /\ nativeState' \in RunStates
    BY <1>1, <1>2, <2>1, <2>2 DEF PlayerMoves, EventRecord, RunStates
  <2>4. QED
    BY <1>1, <1>2, <2>1, <2>2, <2>3, MovingKeepsPlayback DEF PlayerMoves
<1>3. CASE Snapshot
  <2>1. PICK e : e = [s |-> active, kind |-> "snapshot", value |-> nativeState]
    OBVIOUS
  <2>2. e \in EventRecord /\ e.s = active /\ e.kind # "outcome" /\ e.value = nativeState'
        /\ nativeState' \in RunStates
    BY <1>1, <1>3, <2>1 DEF Snapshot, EventRecord, RunStates
  <2>3. QED
    BY <1>1, <1>3, <2>1, <2>2, MovingKeepsPlayback DEF Snapshot
<1>4. QED
  BY <1>2, <1>3, EndingKeepsPlayback DEF PlayerActs

\* PlaybackStore: a session whose end was shown stays ended, and once everything
\* has arrived the controls are those of the session that plays, for any number
\* of songs, sessions, clicks and events on their way (store.ts applyEvent,
\* startPreparedPlayback).
THEOREM ControlsTellTheTruth == PlaybackSpec => []ControlsAreTrue
<1>1. ASSUME PlaybackInv, [PlaybackNext]_playbackVars PROVE PlaybackInv'
  <2>1. CASE UNCHANGED playbackVars
    <3>1. ShownTypes'
      BY <1>1, <2>1 DEF PlaybackInv, ShownTypes, playbackVars, shownVars, nativeVars
    <3>2. QED
      BY <1>1, <2>1, <3>1, StandsStill DEF playbackVars, shownVars, nativeVars
  <2>2. CASE OrderReturns
    BY <1>1, <2>2, StartReturnsKeepsPlayback, StartRefusedKeepsPlayback, CommandReturnsKeepsPlayback DEF OrderReturns
  <2>3. QED
    BY <1>1, <2>1, <2>2, ClicksKeepPlayback, ServesKeepPlayback, PlayerKeepsPlayback, ApplyKeepsPlayback
       DEF PlaybackNext
<1>2. PlaybackInv => ControlsAreTrue
  <2> SUFFICES ASSUME PlaybackInv, orders = {}, feed = <<>>, ~muddled
               PROVE  IF active = NoId THEN ~IsActive ELSE playback.session = active /\ playback.state = nativeState
    BY DEF PlaybackInv, ControlsAreTrue, ControlsMatchThePlayer
  <2> USE DEF PlaybackInv, TellsApart
  <2>1. \A i : ~Place(i)
    BY DEF Place
  <2>2. CASE active = NoId
    BY <2>1, <2>2 DEF EndIsAhead, Outcome, ShownTypes, RetiredStaysRetired, IsActive, RunStates, EndStates
  <2>3. CASE active # NoId
    BY <2>1, <2>3 DEF IsShown, IsStart, LastWord, Telling
  <2>4. QED
    BY <2>2, <2>3
<1>3. QED
  BY <1>1, <1>2, PlaybackInvInit, PTL DEF PlaybackSpec
=============================================================================
