----------------------------- MODULE MCStreams -----------------------------
(****************************************************************************)
(* What viewers receive, for TLC: the event stream of a session, the       *)
(* message stream of a room, the admission of streams, the race state that *)
(* other processes show, and the seek and clock of a replay. They share no *)
(* state and are checked side by side: in a behaviour only the part named  *)
(* by part moves.                                                          *)
(****************************************************************************)
EXTENDS StreamAdmission, Sequences, TLC

CONSTANTS
  Parts,     \* the parts that move in this run
  Unset      \* no value

VARIABLES
  part,        \* the part that moves: it never changes
  \* SessionStream
  durable, public, sessionPending, events, states, sessionPc, sessionCursor, stateCursor,
  sessionBound, eventId, stateId, sessionBatch, catchTo, record, sessionLast, sessionShown,
  fetching, playback, sessionLost, drops, seeks, feed, start, ceiling,
  \* RoomStream
  gen, top, hidden, roomPending, news, subscribed, roomPc, roomCursor, cgen, said, roomBatch,
  roomBound, budget, goal, wire, bgen, roomShown, roomLast, more, roomAnswer, used,
  \* PublicState
  publicLog, snap, shared, state, publicCursor, served, publicFaults,
  \* ReplaySeek
  seekLog, offered, samples, span, missed, seekPc, range, position, seeker, sought, seekShown,
  seekFaults

\* Rows of a replayed log: a lap number, a phase of qualifying, a session time.
Row(lap, phase, time) == [lap |-> lap, phase |-> phase, time |-> time]
Goal(by, value) == [by |-> by, value |-> value]
Plain == Row(Unset, Unset, Unset)

\* A session of two events, live and replayed.
Session == INSTANCE SessionStream WITH
  MaxSeq <- 2, MaxBundle <- 2, PageLimit <- 1, MaxLost <- 0, MaxDrops <- 0, MaxSeeks <- 0,
  SeekBack <- FALSE, Phases <- {"live", "replay"}, pending <- sessionPending, pc <- sessionPc,
  cursor <- sessionCursor, bound <- sessionBound, batch <- sessionBatch, last <- sessionLast,
  shown <- sessionShown, lost <- sessionLost

\* A live session with a lost announcement and a lost connection.
Delivery == INSTANCE SessionStream WITH
  MaxSeq <- 2, MaxBundle <- 2, PageLimit <- 1, MaxLost <- 1, MaxDrops <- 1, MaxSeeks <- 0,
  SeekBack <- FALSE, Phases <- {"live"}, pending <- sessionPending, pc <- sessionPc,
  cursor <- sessionCursor, bound <- sessionBound, batch <- sessionBatch, last <- sessionLast,
  shown <- sessionShown, lost <- sessionLost

\* A replayed session without losses.
Playback == INSTANCE SessionStream WITH
  MaxSeq <- 2, MaxBundle <- 2, PageLimit <- 2, MaxLost <- 0, MaxDrops <- 1, MaxSeeks <- 1,
  SeekBack <- FALSE, Phases <- {"replay"}, pending <- sessionPending, pc <- sessionPc,
  cursor <- sessionCursor, bound <- sessionBound, batch <- sessionBatch, last <- sessionLast,
  shown <- sessionShown, lost <- sessionLost

\* One discussion of three messages and a lost connection.
Room == INSTANCE RoomStream WITH
  MaxSeq <- 3, MaxGen <- 1, MaxHides <- 0, MaxLost <- 0, MaxDrops <- 1, MaxPolls <- 0,
  PageLimit <- 1, pending <- roomPending, pc <- roomPc, cursor <- roomCursor,
  batch <- roomBatch, bound <- roomBound, shown <- roomShown, last <- roomLast,
  answer <- roomAnswer

\* A discussion that is restarted, on a bus that loses an announcement.
Restarted == INSTANCE RoomStream WITH
  MaxSeq <- 1, MaxGen <- 2, MaxHides <- 0, MaxLost <- 1, MaxDrops <- 0, MaxPolls <- 0,
  PageLimit <- 1, pending <- roomPending, pc <- roomPc, cursor <- roomCursor,
  batch <- roomBatch, bound <- roomBound, shown <- roomShown, last <- roomLast,
  answer <- roomAnswer

\* A discussion that is restarted, with a hidden message, while other answers about the room arrive.
Polled == INSTANCE RoomStream WITH
  MaxSeq <- 1, MaxGen <- 2, MaxHides <- 1, MaxLost <- 0, MaxDrops <- 0, MaxPolls <- 1,
  PageLimit <- 1, pending <- roomPending, pc <- roomPc, cursor <- roomCursor,
  batch <- roomBatch, bound <- roomBound, shown <- roomShown, last <- roomLast,
  answer <- roomAnswer

\* A worker, a process that replays and one that only reads.
State == INSTANCE PublicState WITH
  Worker <- "worker", Replayer <- "replayer", Reader <- "reader", MaxLog <- 4,
  SnapshotEvery <- 2, MaxFaults <- 2, log <- publicLog, cursor <- publicCursor,
  faults <- publicFaults

\* A log with laps, phases and times, some numbers of which are skipped.
Seek == INSTANCE ReplaySeek WITH
  Rows <- {Plain, Row(1, "Q1", Unset), Row(2, Unset, 1)},
  Goals <- {Goal("lap", 2), Goal("phase", "Q1"), Goal("time", 1)}, Readers <- {"r"},
  None <- Unset, Skips <- TRUE, Grows <- TRUE, MaxSeq <- 3, MaxTime <- 1, MaxFaults <- 0,
  log <- seekLog, pc <- seekPc, shown <- seekShown, faults <- seekFaults

\* A dense log that grows while two readers ask for the span of the session.
Clock == INSTANCE ReplaySeek WITH
  Rows <- {Plain}, Goals <- {Goal("time", 1)}, Readers <- {"r1", "r2"}, None <- Unset,
  Skips <- FALSE, Grows <- TRUE, MaxSeq <- 3, MaxTime <- 1, MaxFaults <- 1, log <- seekLog,
  pc <- seekPc, shown <- seekShown, faults <- seekFaults

ASSUME PartsAssumption ==
  /\ Session!BoundsAssumption
  /\ Room!BoundsAssumption
  /\ State!PublicAssumption
  /\ Seek!SeekAssumption

-----------------------------------------------------------------------------

sessionVars ==
  <<durable, public, sessionPending, events, states, sessionPc, sessionCursor, stateCursor,
    sessionBound, eventId, stateId, sessionBatch, catchTo, record, sessionLast, sessionShown,
    fetching, playback, sessionLost, drops, seeks, feed, start, ceiling>>
roomVars ==
  <<gen, top, hidden, roomPending, news, subscribed, roomPc, roomCursor, cgen, said, roomBatch,
    roomBound, budget, goal, wire, bgen, roomShown, roomLast, more, roomAnswer, used>>
publicVars ==
  <<publicLog, snap, shared, state, publicCursor, served, publicFaults>>
seekVars ==
  <<seekLog, offered, samples, span, missed, seekPc, range, position, seeker, sought, seekShown,
    seekFaults>>

partsVars ==
  <<part, vars, sessionVars, roomVars, publicVars, seekVars>>

\* What a step of part p leaves alone: every other part.
Only(p) ==
  /\ part = p
  /\ UNCHANGED part
  /\ IF p = "admission" THEN TRUE ELSE UNCHANGED vars
  /\ IF p \in {"session", "delivery", "lockstep"} THEN TRUE ELSE UNCHANGED sessionVars
  /\ IF p \in {"room", "restart", "polled"} THEN TRUE ELSE UNCHANGED roomVars
  /\ IF p = "state" THEN TRUE ELSE UNCHANGED publicVars
  /\ IF p \in {"seek", "clock"} THEN TRUE ELSE UNCHANGED seekVars

PartsInit ==
  /\ part \in Parts
  /\ Init
  /\ IF part = "delivery" THEN Delivery!Init ELSE IF part = "lockstep" THEN Playback!Init ELSE Session!Init
  /\ IF part = "restart" THEN Restarted!Init ELSE IF part = "polled" THEN Polled!Init ELSE Room!Init
  /\ State!Init
  /\ IF part = "clock" THEN Clock!Init ELSE Seek!Init

\* One part takes a step of its own; a part that may come to rest stays there.
PartsNext ==
  \/ Only("admission") /\ Next
  \/ Only("session") /\ Session!Next
  \/ Only("delivery") /\ Delivery!Next
  \/ Only("lockstep") /\ Playback!Next
  \/ Only("room") /\ Room!Next
  \/ Only("restart") /\ Restarted!Next
  \/ Only("polled") /\ Polled!Next
  \/ Only("state") /\ State!Next
  \/ Only("seek") /\ Seek!Next
  \/ Only("clock") /\ Clock!Next
  \/ UNCHANGED partsVars

PartsSpec == PartsInit /\ [][PartsNext]_partsVars

\* The fairness of each part, taken together: only one part moves in a behaviour.
PartsFairSpec ==
  /\ PartsSpec
  /\ WF_partsVars(\/ Only("delivery") /\ (Delivery!Expose \/ Delivery!Publish)
                  \/ Only("lockstep") /\ (Playback!Expose \/ Playback!Publish)
                  \/ Only("restart") /\ Restarted!Streaming
                  \/ Only("state") /\ State!Republish
                  \/ Only("clock") /\ Clock!BackoffEnds)
  /\ WF_partsVars(\/ Only("delivery") /\ Delivery!Streaming
                  \/ Only("lockstep") /\ Playback!Streaming
                  \/ Only("restart") /\ Restarted!Receive
                  \/ Only("state") /\ State!Read(TRUE)
                  \/ Only("clock") /\ Clock!AskRange("r1"))
  /\ WF_partsVars(\/ Only("delivery") /\ Delivery!FetchState
                  \/ Only("lockstep") /\ Playback!FetchState
                  \/ Only("restart") /\ Restarted!Bootstrap
                  \/ Only("state") /\ State!Step(FALSE)
                  \/ Only("clock") /\ Clock!AskRange("r2"))
  /\ WF_partsVars(\/ Only("delivery") /\ Delivery!PlaybackSequence
                  \/ Only("lockstep") /\ Playback!PlaybackSequence
                  \/ Only("clock") /\ (Clock!AskMaximum("r1") \/ Clock!SpanFails("r1")))
  /\ WF_partsVars(Only("clock") /\ (Clock!AskMaximum("r2") \/ Clock!SpanFails("r2")))

-----------------------------------------------------------------------------

\* Every part holds values of its types.
PartsTypeOK ==
  /\ TypeOK
  /\ part = "session" => Session!TypeOK
  /\ part = "delivery" => Delivery!TypeOK
  /\ part = "lockstep" => Playback!TypeOK
  /\ part = "room" => Room!TypeOK
  /\ part = "restart" => Restarted!TypeOK
  /\ part = "polled" => Polled!TypeOK
  /\ State!TypeOK
  /\ part = "seek" => Seek!TypeOK
  /\ part = "clock" => Clock!TypeOK

\* Streams are exact.  SessionStream: a connection receives the events after
\* its cursor, each once and in order; without backward seeks a fresh
\* connection brings no event beyond every state since.  RoomStream: below
\* the cursor a reconnection starts from nothing is missing; the conversation
\* on screen is one conversation.
StreamsExact ==
  /\ PartsTypeOK
  /\ part \in {"session", "delivery", "lockstep"} => Session!Contiguous
  /\ part = "lockstep" => Playback!FeedBounded
  /\ part = "room" => Room!NothingSkipped
  /\ Room!OneDiscussion

\* What a replay shows is what it has reached.  PublicState: the process that
\* replays shows nothing after its position.  ReplaySeek: a seek lands before
\* its goal and next to it; the clock is never that of a row the viewer has
\* not reached.
ReplayTold ==
  /\ State!NoFuture
  /\ Seek!SeekLandsBefore
  /\ part = "clock" => Clock!ClockNotAhead

\* No step goes back.  SessionStream: while a replay bound is in force no
\* event past the state to be shown is sent; the state on display never goes
\* back, except by starting afresh.  StreamAdmission: a lease that ended does
\* not come back.
NeverBack ==
  /\ Session!NoSpoilers
  /\ Session!ShownAdvances
  /\ NotRevived

\* Viewers catch up.  SessionStream: while the session is live every durable
\* event reaches a connected browser; without losses the browser shows the
\* position of the replay whenever it rests.  RoomStream: once the room
\* rests, the browser comes to show all of it.  PublicState: while nothing is
\* replayed, a viewer comes to see the last event.  ReplaySeek: once the
\* session has samples and rows, its clock comes.
StreamsCatchUp ==
  /\ part = "delivery" => Delivery!AllDelivered
  /\ part = "lockstep" => Playback!Lockstep
  /\ part = "restart" => Restarted!AllShown
  /\ part = "state" => State!LiveSettles
  /\ part = "clock" => Clock!ClockComes

=============================================================================
