---------------------------- MODULE PlaybackStore ---------------------------
(***************************************************************************)
(* The desktop's view of the playback (store.ts): the start of what has    *)
(* been prepared, the commands on the session it shows, and the events of  *)
(* the native side.  The answer to a request and the events take different *)
(* ways: the events arrive in their order, an answer at any moment after   *)
(* it was given.  The native side is PlaybackService seen through them.    *)
(* startRequestEpoch is compared with its last value only: a start         *)
(* remembers whether it is still the last one.                             *)
(***************************************************************************)
EXTENDS Naturals, Sequences, FiniteSets

CONSTANTS
  Titles,
  NoTitle,
  MaxStarts,        \* bound on the sessions
  MaxClicks,        \* bound on what the user does
  MaxFeed           \* bound on the events on their way

ASSUME NoTitleIsNone == NoTitle \notin Titles
ASSUME StartsAreNat == MaxStarts \in Nat

SessionIds == 1..MaxStarts
NoId       == 0

VARIABLES
  playback,         \* playback: state, sessionId, songTitle, pendingCommand
  planned,          \* the song of playback.prepared
  waiting,          \* pendingStart: its song
  retired,          \* retiredSessionIds
  chosen,           \* the selected song
  asked,            \* prepare requests whose answer will be taken
  orders,           \* the requests of start, pause, resume, stop and skip on their way
  born,             \* native: how many sessions there have been
  active,           \* native: the session of the slot
  nativeState,      \* native: its state
  told,             \* native: what it has been told
  songOf,           \* native: the song of each session
  feed,             \* native: the events on their way, in their order
  clicks,           \* how often the user has acted
  muddled           \* a start has been issued that the store cannot tell from another

shownVars    == <<playback, planned, waiting, retired, chosen, asked>>
nativeVars   == <<born, active, nativeState, told, songOf, feed>>
playbackVars == <<shownVars, orders, nativeVars, clicks, muddled>>

EndStates  == {"finished", "failed"}
RunStates  == {"starting", "playing", "paused", "stopping"}
LiveStates == RunStates \ {"stopping"}
IsActive   == playback.state \in RunStates

Order(kind, s, song) ==
  [kind |-> kind, session |-> s, song |-> song, fresh |-> TRUE, status |-> "sent", got |-> NoId]

PlaybackInit ==
  /\ playback = [state |-> "idle", session |-> NoId, title |-> NoTitle, pending |-> "none"]
  /\ planned = NoTitle /\ waiting = NoTitle /\ retired = {}
  /\ chosen \in Titles /\ asked = 0
  /\ orders = {}
  /\ born = 0 /\ active = NoId /\ nativeState = "none" /\ told = "none"
  /\ songOf = [s \in SessionIds |-> NoTitle]
  /\ feed = <<>>
  /\ clicks = 0 /\ muddled = FALSE

(***************************************************************************)
(* The user, at the controls that PlayerTransport and PlaybackAdmission    *)
(* show.                                                                   *)
(***************************************************************************)
Clicks == clicks < MaxClicks /\ clicks' = clicks + 1

\* selectSong: the prepared playback goes, and the title unless it is in use.
ChooseSong(song) ==
  /\ Clicks /\ song # chosen
  /\ chosen' = song /\ planned' = NoTitle /\ asked' = 0
  /\ playback' = [playback EXCEPT !.title = IF IsActive THEN @ ELSE NoTitle]
  /\ UNCHANGED <<waiting, retired, orders, nativeVars, muddled>>

\* Play is shown until something is prepared; a second click comes easily.
Play ==
  /\ Clicks /\ ~IsActive /\ planned = NoTitle
  /\ asked' = asked + 1
  /\ UNCHANGED <<playback, planned, waiting, retired, chosen, orders, nativeVars, muddled>>

\* An event of the session is still to come, or on its way.
StillSpeaks(s) ==
  \/ s = active
  \/ \E i \in DOMAIN feed : feed[i].s = s
  \/ \E c \in orders : c.status = "telling" /\ c.session = s

\* The start of a session whose first events look like another's: while an
\* earlier start is on its way, or with the song of a session that still speaks
\* and whose end has not been shown.
Muddles(song) ==
  \/ \E c \in orders : c.kind = "start"
  \/ \E s \in 1..born : songOf[s] = song /\ s \notin retired /\ StillSpeaks(s)

StartPreparedPlayback(song) ==
  /\ waiting' = song
  /\ orders' = {IF c.kind = "start" THEN [c EXCEPT !.fresh = FALSE] ELSE c : c \in orders}
                \cup {Order("start", NoId, song)}
  /\ muddled' = (muddled \/ Muddles(song))

\* The answer to prepare: what is ready is started at once.
Prepared ==
  /\ asked > 0 /\ asked' = asked - 1
  /\ \/ planned' = chosen /\ StartPreparedPlayback(chosen)
     \/ planned' = chosen /\ UNCHANGED <<waiting, orders, muddled>>
     \/ planned' = NoTitle /\ UNCHANGED <<waiting, orders, muddled>>
  /\ UNCHANGED <<playback, retired, chosen, nativeVars, clicks>>

\* The decision the admission asks for.
Decide ==
  /\ Clicks /\ planned # NoTitle
  /\ StartPreparedPlayback(planned)
  /\ UNCHANGED <<playback, planned, retired, chosen, asked, nativeVars>>

\* pausePlayback, resumePlayback, stopPlayback and skipPlayback.
Offered(kind) ==
  CASE kind = "pause"  -> playback.state \in {"starting", "playing"} /\ playback.pending = "none"
    [] kind = "resume" -> playback.state = "paused" /\ playback.pending = "none"
    [] OTHER           -> playback.state \in LiveStates

Command(kind) ==
  /\ Clicks /\ Offered(kind)
  /\ orders' = orders \cup {Order(kind, playback.session, NoTitle)}
  /\ UNCHANGED <<shownVars, nativeVars, muddled>>

(***************************************************************************)
(* The native side.                                                        *)
(***************************************************************************)
Turns(c, status, got) == orders' = (orders \ {c}) \cup {[c EXCEPT !.status = status, !.got = got]}
Publish(events) == Len(feed) + Len(events) <= MaxFeed /\ feed' = feed \o events

\* start fills the slot and publishes its first event before it returns; a
\* player that cannot be created leaves its outcome.
ServeStart(c) ==
  LET s == born + 1
  IN  /\ c.kind = "start" /\ c.status = "sent" /\ active = NoId /\ born < MaxStarts
      /\ born' = s
      /\ songOf' = [songOf EXCEPT ![s] = c.song]
      /\ \/ /\ active' = s /\ nativeState' = "starting" /\ told' = "none"
            /\ Publish(<<[s |-> s, kind |-> "state", value |-> "starting"]>>)
            /\ Turns(c, "ok", s)
         \/ /\ Publish(<<[s |-> s, kind |-> "outcome", value |-> "failed"]>>)
            /\ Turns(c, "error", NoId)
            /\ UNCHANGED <<active, nativeState, told>>
      /\ UNCHANGED <<shownVars, clicks, muddled>>

\* What a command requires of the session.
Serves(c) ==
  /\ c.status = "sent" /\ active # NoId /\ c.session = active
  /\ nativeState \in (CASE c.kind = "pause" -> {"playing"} [] c.kind = "resume" -> {"paused"} [] OTHER -> LiveStates)

ServeCommand(c) ==
  /\ c.kind \in {"pause", "resume", "skip"} /\ Serves(c)
  /\ told' = c.kind
  /\ Turns(c, "ok", active)
  /\ UNCHANGED <<shownVars, born, active, nativeState, songOf, feed, clicks, muddled>>

\* stop publishes its own event, at a moment of its own.
ServeStop(c) ==
  /\ c.kind = "stop"
  /\ \/ /\ Serves(c)
        /\ nativeState' = "stopping" /\ told' = "stop"
        /\ Turns(c, "telling", active)
        /\ UNCHANGED feed
     \/ /\ c.status = "telling"
        /\ Publish(<<[s |-> c.session, kind |-> "state", value |-> "stopping"]>>)
        /\ Turns(c, "ok", c.got)
        /\ UNCHANGED <<nativeState, told>>
  /\ UNCHANGED <<shownVars, born, active, songOf, clicks, muddled>>

\* Whatever is not served is refused.
Refuse(c) ==
  /\ c.status = "sent"
  /\ IF c.kind = "start" THEN active # NoId \/ born = MaxStarts ELSE ~Serves(c)
  /\ Turns(c, "error", NoId)
  /\ UNCHANGED <<shownVars, nativeVars, clicks, muddled>>

\* The supervisor publishes the changes it sees, snapshots, and the end.
PlayerMoves ==
  /\ active # NoId
  /\ \E new \in {"playing", "paused"} :
       /\ <<nativeState, new>> \in {<<"starting", "playing">>, <<"playing", "paused">>, <<"paused", "playing">>}
       /\ new = "playing" => told # "pause"
       /\ nativeState' = new
       /\ Publish(<<[s |-> active, kind |-> "state", value |-> new]>>)
  /\ UNCHANGED <<shownVars, orders, born, active, told, songOf, clicks, muddled>>

Snapshot ==
  /\ active # NoId /\ nativeState \in {"playing", "paused"}
  /\ Publish(<<[s |-> active, kind |-> "snapshot", value |-> nativeState]>>)
  /\ UNCHANGED <<shownVars, orders, born, active, nativeState, told, songOf, clicks, muddled>>

SessionEnds ==
  /\ active # NoId
  /\ \E end \in EndStates :
       Publish(<<[s |-> active, kind |-> "state", value |-> end], [s |-> active, kind |-> "outcome", value |-> end]>>)
  /\ active' = NoId /\ nativeState' = "none" /\ told' = "none"
  /\ UNCHANGED <<shownVars, orders, born, songOf, clicks, muddled>>

\* acceptsSessionEvent: the session on the screen, or the first event of the
\* one whose start has not been answered.
Accepts(s) ==
  LET song == songOf[s]
  IN  /\ s \notin retired
      /\ \/ playback.session = s
         \/ waiting = song /\ (playback.session = NoId \/ playback.state \in {"idle"} \cup EndStates)

\* bindSessionTitle; a snapshot brings the title along.
Title(e) ==
  CASE e.kind = "snapshot" -> songOf[e.s]
    [] playback.session = e.s /\ playback.title # NoTitle -> playback.title
    [] waiting = songOf[e.s] -> waiting
    [] OTHER -> playback.title

\* The state a pending command was waiting for, or the end, answers it.
Pending(e) ==
  IF e.kind = "outcome" \/ <<playback.pending, e.value>> \in {<<"pause", "paused">>, <<"resume", "playing">>}
  THEN "none" ELSE playback.pending

Apply(e) ==
  IF ~Accepts(e.s) THEN UNCHANGED <<playback, waiting, retired>>
  ELSE /\ playback' = [state |-> e.value, session |-> e.s, title |-> Title(e), pending |-> Pending(e)]
       /\ waiting' = IF waiting = songOf[e.s] THEN NoTitle ELSE waiting
       /\ retired' = IF e.kind = "outcome" THEN retired \cup {e.s} ELSE retired

ApplyEvent ==
  /\ feed # <<>>
  /\ feed' = Tail(feed)
  /\ Apply(Head(feed))
  /\ UNCHANGED <<planned, chosen, asked, orders, born, active, nativeState, told, songOf, clicks, muddled>>

(***************************************************************************)
(* The answers.                                                            *)
(***************************************************************************)
Arrived(c, status) == c.status = status /\ orders' = orders \ {c}

BugBound(s) == FALSE    \* a start's answer always begins the session

\* boundToEarlyEvent: an event has been faster than the answer.
Bound(s) == playback.session = s

StartReturns(c) ==
  /\ c.kind = "start" /\ Arrived(c, "ok")
  /\ IF ~c.fresh THEN UNCHANGED <<playback, planned, waiting>>
     ELSE /\ waiting' = NoTitle /\ planned' = NoTitle
          /\ playback' = [playback EXCEPT !.session = c.got,
                                  !.title = IF @ = NoTitle THEN c.song ELSE @,
                                  !.state = IF Bound(c.got) THEN @ ELSE "starting"]
  /\ UNCHANGED <<retired, chosen, asked, nativeVars, clicks, muddled>>

StartRefused(c) ==
  /\ c.kind = "start" /\ Arrived(c, "error")
  /\ waiting' = IF c.fresh THEN NoTitle ELSE waiting
  /\ UNCHANGED <<playback, planned, retired, chosen, asked, nativeVars, clicks, muddled>>

CommandReturns(c) ==
  /\ c.kind # "start"
  /\ \/ Arrived(c, "ok") /\ playback' = [playback EXCEPT !.pending = IF c.kind \in {"pause", "resume"} THEN c.kind ELSE "none"]
     \/ Arrived(c, "error") /\ UNCHANGED playback
  /\ UNCHANGED <<planned, waiting, retired, chosen, asked, nativeVars, clicks, muddled>>

UserClicks ==
  \/ \E song \in Titles : ChooseSong(song)
  \/ Play \/ Decide
  \/ \E kind \in {"pause", "resume", "stop", "skip"} : Command(kind)
NativeServes  == \E c \in orders : ServeStart(c) \/ ServeCommand(c) \/ ServeStop(c) \/ Refuse(c)
PlayerActs == PlayerMoves \/ Snapshot \/ SessionEnds
OrderReturns == \E c \in orders : StartReturns(c) \/ StartRefused(c) \/ CommandReturns(c)

PlaybackNext == UserClicks \/ Prepared \/ NativeServes \/ PlayerActs \/ ApplyEvent \/ OrderReturns

PlaybackSpec == PlaybackInit /\ [][PlaybackNext]_playbackVars

(***************************************************************************)
(* Properties.                                                             *)
(***************************************************************************)
\* A session whose end has been shown is never shown alive again: not by an
\* event a command published late, nor by the answer to its start.
RetiredStaysRetired == playback.session \in retired => playback.state \in EndStates

\* When everything has arrived the controls are those of the session that
\* plays, and none that plays is without controls, unless a start could not be
\* told from a session before it.
ControlsMatchThePlayer ==
  orders = {} /\ feed = <<>> /\ ~muddled =>
    IF active = NoId THEN ~IsActive ELSE playback.session = active /\ playback.state = nativeState

\* PlaybackStore: a session whose end was shown stays ended, and once everything
\* has arrived the controls on the screen are those of the session that plays
\* (store.ts applyEvent, startPreparedPlayback).
ControlsAreTrue == RetiredStaysRetired /\ ControlsMatchThePlayer
=============================================================================
