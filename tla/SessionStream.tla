---------------------------- MODULE SessionStream ----------------------------
(***************************************************************************)
(* The server-sent event stream of a session (api/streaming.py), fed by    *)
(* the Redis streams of the event bus (storage/redis.py), and the browser  *)
(* that watches it (live-command-center.tsx).                              *)
(*                                                                         *)
(* One connection of one browser.  The session is first recorded live and, *)
(* once complete, may be replayed by its room in the same process.  A      *)
(* record that was trimmed from the bus is one that was lost.              *)
(***************************************************************************)
EXTENDS Naturals, Sequences, SequencesExt

CONSTANTS
    MaxSeq,      \* events of the session
    MaxBundle,   \* bound on the events of a committed bundle
    PageLimit,   \* engine_recent_events_limit
    MaxLost,     \* bound on failed publications and failed reads
    MaxDrops,    \* bound on dropped connections
    MaxSeeks,    \* bound on the seeks of the room
    SeekBack,    \* whether seeks may go back
    Phases       \* which of "live" and "replay" the behaviour goes through

BoundsAssumption ==
    /\ {MaxSeq, MaxBundle, MaxLost, MaxDrops, MaxSeeks} \subseteq Nat
    /\ PageLimit \in Nat \ {0}
    /\ SeekBack \in BOOLEAN /\ Phases \subseteq {"live", "replay"}

VARIABLES
    durable,     \* the log holds the events 1 .. durable
    public,      \* the public race state
    pending,     \* what the producer has still to publish
    events,      \* sequence numbers on the event stream of the bus
    states,      \* states on the state stream of the bus
    pc,          \* where the connection is
    cursor, stateCursor, bound,
    eventId, stateId,   \* last_ids: records of either stream already read
    batch,       \* records of the last read still to be handled
    catchTo, record,    \* bound of a catch-up, and the record it is for
    last, shown, fetching,   \* the browser: lastSequenceRef, state, first fetch
    playback,    \* the browser: position last announced by the room
    lost, drops, seeks,
    feed, start, ceiling   \* history: events of this connection, the cursor it
                           \* began with, furthest public state since

producer == <<durable, public, pending, events, states, seeks>>
cursors == <<cursor, stateCursor, bound, eventId, stateId, batch, catchTo, record>>
browser == <<last, shown, fetching, playback>>
faults == <<lost, drops>>
history == <<feed, start, ceiling>>
vars == <<producer, pc, cursors, browser, faults, history>>

Recorded == "live" \notin Phases
Unbounded == MaxSeq + 1
NoRecord == [kind |-> "none"]
NoState == [seq |-> 0, replay |-> FALSE, shown |-> FALSE]
EventRecord(s) == [kind |-> "event", seq |-> s]
StateRecord(st) == [kind |-> "state", seq |-> st.seq, replay |-> st.replay]

Smaller(a, b) == IF a < b THEN a ELSE b
Larger(a, b) == IF a > b THEN a ELSE b

Init ==
    /\ durable = IF Recorded THEN MaxSeq ELSE 0
    /\ public = [seq |-> 0, replay |-> Recorded]
    /\ pending = <<>> /\ events = <<>> /\ states = <<>>
    /\ pc = "closed" /\ cursor = 0 /\ stateCursor = 0 /\ bound = Unbounded
    /\ eventId = 0 /\ stateId = 0 /\ batch = <<>>
    /\ catchTo = 0 /\ record = NoRecord
    /\ last = 0 /\ shown = NoState /\ fetching = TRUE /\ playback = 0
    /\ lost = 0 /\ drops = 0 /\ seeks = 0
    /\ feed = <<>> /\ start = 0 /\ ceiling = 0

(***************************************************************************)
(* The producer: the pipeline while the session is live, its room later.   *)
(***************************************************************************)

Show(st, queue) ==
    /\ public' = st /\ pending' = queue
    /\ ceiling' = Larger(ceiling, st.seq)
    /\ UNCHANGED <<events, states, pc, cursors, browser, faults, feed, start>>

Commit ==
    /\ ~public.replay /\ durable = public.seq
    /\ \E n \in 1 .. MaxBundle : durable + n <= MaxSeq /\ durable' = durable + n
    /\ UNCHANGED <<public, pending, events, states, seeks, pc, cursors, browser, faults, history>>

\* The bundle is exposed, announced event by event, and followed by the state.
Expose ==
    /\ pending = <<>> /\ public.seq < durable /\ ~public.replay
    /\ LET st == [seq |-> durable, replay |-> FALSE]
       IN  Show(st, [i \in 1 .. durable - public.seq |-> EventRecord(public.seq + i)]
                        \o <<StateRecord(st)>>)
    /\ UNCHANGED <<durable, seeks>>

StartReplay ==
    /\ "replay" \in Phases
    /\ pending = <<>> /\ ~public.replay /\ public.seq = MaxSeq
    /\ Show([seq |-> 0, replay |-> TRUE], <<>>)
    /\ UNCHANGED <<durable, seeks>>

Play ==
    /\ pending = <<>> /\ public.replay /\ public.seq < durable
    /\ LET st == [seq |-> public.seq + 1, replay |-> TRUE]
       IN  Show(st, <<EventRecord(st.seq), StateRecord(st)>>)
    /\ UNCHANGED <<durable, seeks>>

Seek ==
    /\ pending = <<>> /\ public.replay /\ seeks < MaxSeeks
    /\ \E p \in 0 .. durable :
          /\ p < public.seq => SeekBack
          /\ Show([seq |-> p, replay |-> TRUE], <<StateRecord([seq |-> p, replay |-> TRUE])>>)
    /\ seeks' = seeks + 1
    /\ UNCHANGED durable

Publish ==
    /\ pending # <<>>
    /\ pending' = Tail(pending)
    /\ IF Head(pending).kind = "event"
       THEN events' = Append(events, Head(pending)) /\ UNCHANGED states
       ELSE states' = Append(states, Head(pending)) /\ UNCHANGED events
    /\ UNCHANGED <<durable, public, seeks, pc, cursors, browser, faults, history>>

\* The replay publishes an event and its state in one try block, the pipeline
\* goes on with the next record.
PublishFails ==
    /\ pending # <<>> /\ lost < MaxLost
    /\ pending' = IF public.replay THEN <<>> ELSE Tail(pending)
    /\ lost' = lost + 1
    /\ UNCHANGED <<durable, public, events, states, seeks, pc, cursors, browser, drops, history>>

(***************************************************************************)
(* The browser.                                                            *)
(***************************************************************************)

SetNewest(st) ==
    IF st.seq < last \/ (shown.shown /\ st.seq = last)
    THEN UNCHANGED <<last, shown>>
    ELSE /\ last' = st.seq
         /\ shown' = [seq |-> st.seq, replay |-> st.replay, shown |-> TRUE]

FetchState ==
    /\ fetching /\ fetching' = FALSE
    /\ SetNewest(public)
    /\ UNCHANGED <<producer, pc, cursors, playback, faults, history>>

\* The room announces its position; after a jump the browser starts afresh.
Jumped(p) == p < last \/ (last > 0 /\ p > last + 1)

PlaybackSequence ==
    /\ public.replay /\ playback # public.seq
    /\ playback' = public.seq
    /\ IF Jumped(public.seq)
       THEN last' = 0 /\ shown' = NoState /\ fetching' = TRUE /\ pc' = "closed"
       ELSE UNCHANGED <<last, shown, fetching, pc>>
    /\ UNCHANGED <<producer, cursors, faults, history>>

Drop ==
    /\ pc # "closed" /\ drops < MaxDrops
    /\ pc' = "closed" /\ drops' = drops + 1
    /\ UNCHANGED <<producer, cursors, browser, lost, history>>

(***************************************************************************)
(* _session_event_stream.                                                  *)
(***************************************************************************)

\* The next frame follows a catch-up unless that has nothing to do.
After(to, rec) == pc' = (IF to # Unbounded /\ cursor >= to THEN "frame" ELSE "page")
                  /\ catchTo' = to /\ record' = rec

Connect ==
    /\ pc = "closed"
    /\ cursor' = last /\ stateCursor' = public.seq
    /\ bound' = IF public.replay THEN public.seq ELSE Unbounded
    /\ pc' = (IF last >= public.seq THEN "frame" ELSE "page")
    /\ catchTo' = public.seq /\ record' = StateRecord(public)
    /\ eventId' = 0 /\ stateId' = 0 /\ batch' = <<>>
    /\ feed' = <<>> /\ start' = last /\ ceiling' = public.seq
    /\ UNCHANGED <<producer, browser, faults>>

\* One page of catch_up; without a bound there is only one.
Page ==
    LET found == Smaller(durable, catchTo)
        until == Smaller(cursor + PageLimit, Larger(cursor, found))
    IN  /\ pc = "page"
        /\ cursor' = until
        /\ feed' = feed \o [i \in 1 .. until - cursor |-> cursor + i]
        /\ pc' = IF catchTo = Unbounded \/ until < cursor + PageLimit \/ until >= catchTo
                 THEN "frame" ELSE "page"
        /\ UNCHANGED <<producer, stateCursor, bound, eventId, stateId, batch, catchTo, record>>
        /\ UNCHANGED <<browser, faults, start, ceiling>>

\* The frame of the record itself, or a heartbeat.
Frame ==
    /\ pc = "frame"
    /\ pc' = "next" /\ record' = NoRecord
    /\ IF record.kind = "event"
       THEN cursor' = record.seq /\ feed' = Append(feed, record.seq)
       ELSE UNCHANGED <<cursor, feed>>
    /\ IF record.kind = "state"
       THEN SetNewest(record)
       ELSE UNCHANGED <<last, shown>>
    /\ UNCHANGED <<producer, stateCursor, bound, eventId, stateId, batch, catchTo>>
    /\ UNCHANGED <<fetching, playback, faults, start, ceiling>>

Unread(stream, id) == SubSeq(stream, id + 1, Smaller(Len(stream), id + PageLimit))

\* read_session_streams: the unread records of the event stream, then states.
Read ==
    /\ pc = "next" /\ batch = <<>>
    /\ batch' = Unread(events, eventId) \o Unread(states, stateId)
    /\ batch' # <<>>
    /\ UNCHANGED <<producer, pc, cursor, stateCursor, bound, eventId, stateId, catchTo, record>>
    /\ UNCHANGED <<browser, faults, history>>

Idle ==
    /\ pc = "next" /\ batch = <<>>
    /\ Unread(events, eventId) \o Unread(states, stateId) = <<>>
    /\ After(bound, NoRecord)
    /\ UNCHANGED <<producer, cursor, stateCursor, bound, eventId, stateId, batch>>
    /\ UNCHANGED <<browser, faults, history>>

Degraded ==
    /\ pc = "next" /\ batch = <<>> /\ lost < MaxLost
    /\ lost' = lost + 1
    /\ After(bound, NoRecord)
    /\ UNCHANGED <<producer, cursor, stateCursor, bound, eventId, stateId, batch>>
    /\ UNCHANGED <<browser, drops, history>>

Skip == pc' = pc /\ UNCHANGED <<catchTo, record>>

\* Mutant: events of the future pass.
HandleFuture(s) == IF s <= cursor THEN Skip ELSE After(s - 1, EventRecord(s))

HandleEvent(s) ==
    IF s <= cursor \/ (bound # Unbounded /\ s > stateCursor) THEN Skip
    ELSE After(s - 1, EventRecord(s))

HandleState(st) ==
    IF st.seq <= stateCursor THEN Skip /\ UNCHANGED <<stateCursor, bound>>
    ELSE /\ stateCursor' = st.seq
         /\ bound' = IF st.replay THEN st.seq ELSE Unbounded
         /\ IF st.replay THEN After(st.seq, st)
            ELSE pc' = "frame" /\ record' = st /\ UNCHANGED catchTo

Handle ==
    /\ pc = "next" /\ batch # <<>>
    /\ batch' = Tail(batch)
    /\ IF Head(batch).kind = "event"
       THEN /\ eventId' = eventId + 1 /\ HandleEvent(Head(batch).seq)
            /\ UNCHANGED <<stateId, stateCursor, bound>>
       ELSE /\ stateId' = stateId + 1 /\ HandleState(Head(batch))
            /\ UNCHANGED eventId
    /\ UNCHANGED <<producer, cursor, browser, faults, history>>

Producing == Commit \/ Expose \/ StartReplay \/ Play \/ Seek \/ PublishFails
Streaming == Connect \/ Page \/ Frame \/ Read \/ Idle \/ Handle
Next == Producing \/ Publish \/ Streaming \/ FetchState \/ PlaybackSequence \/ Drop \/ Degraded

Spec == Init /\ [][Next]_vars

\* The pipeline finishes its announcements, the connection runs, messages arrive.
FairSpec ==
    /\ Spec
    /\ WF_vars(Expose \/ Publish) /\ WF_vars(Streaming)
    /\ WF_vars(FetchState) /\ WF_vars(PlaybackSequence)

(***************************************************************************)
(* Properties.                                                             *)
(***************************************************************************)

Records == [kind : {"event"}, seq : 1 .. MaxSeq]
    \cup [kind : {"state"}, seq : 0 .. MaxSeq, replay : BOOLEAN]

TypeOK ==
    /\ durable \in 0 .. MaxSeq /\ public \in [seq : 0 .. durable, replay : BOOLEAN]
    /\ pending \in Seq(Records) /\ batch \in Seq(Records)
    /\ pc \in {"closed", "page", "frame", "next"}
    /\ cursor \in 0 .. durable /\ stateCursor \in 0 .. durable
    /\ bound \in 0 .. Unbounded /\ catchTo \in 0 .. Unbounded
    /\ record \in Records \cup {NoRecord}
    /\ eventId \in 0 .. Len(events) /\ stateId \in 0 .. Len(states)
    /\ last \in 0 .. durable /\ shown.seq \in 0 .. durable
    /\ fetching \in BOOLEAN /\ playback \in 0 .. MaxSeq
    /\ lost \in 0 .. MaxLost /\ drops \in 0 .. MaxDrops /\ seeks \in 0 .. MaxSeeks

\* The events of a connection are those after the cursor it began with, without a
\* gap, a repetition or a swap, whatever the bus lost, repeated or still holds.
Contiguous == feed = [i \in 1 .. cursor - start |-> start + i]

\* While a replay bound is in force no event past the state that the browser is
\* about to see is sent.
NoSpoilers ==
    [][bound' # Unbounded /\ Len(feed') > Len(feed) => cursor' <= stateCursor']_vars

\* The state on display never goes back, except by starting afresh.
ShownAdvances == [][shown'.shown => shown'.seq >= shown.seq]_vars

\* A fresh connection bounds the event feed: it brings no event that lies beyond
\* every state the session has had since.
FeedBounded == \A i \in 1 .. Len(feed) : feed[i] <= ceiling

\* While the session is live every durable event reaches a connected browser, even
\* if its announcement and that of its state are lost.
AllDelivered == \A k \in 1 .. MaxSeq : durable >= k ~> cursor >= k \/ public.replay

\* Without losses the browser shows the position of the replay whenever it rests.
Lockstep == []<>(shown.shown /\ shown.seq = public.seq)

=============================================================================
