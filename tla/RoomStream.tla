------------------------------ MODULE RoomStream ------------------------------
(***************************************************************************)
(* The server-sent event stream of a room's discussion                     *)
(* (api/room_streaming.py), the pages it reads                             *)
(* (storage/room_repository.py), the bus that wakes it (storage/redis.py)  *)
(* and the browser (room-experience.tsx).                                  *)
(*                                                                         *)
(* One room and one browser.  Writers insert, archive and restart as       *)
(* RoomDiscussion shows; a message is its generation and its sequence.     *)
(***************************************************************************)
EXTENDS Integers, Sequences, FiniteSets, FiniteSetsExt, SequencesExt

CONSTANTS
    MaxSeq,     \* bound on the messages of a generation
    MaxGen,     \* bound on the generations
    MaxHides,   \* bound on archives
    MaxLost,    \* bound on failed publications and failed reads of the bus
    MaxDrops,   \* bound on dropped connections
    MaxPolls,   \* bound on answers to other requests of the browser
    PageLimit   \* room_stream_backlog_limit

BoundsAssumption ==
    /\ {MaxSeq, MaxHides, MaxLost, MaxDrops, MaxPolls} \subseteq Nat
    /\ {PageLimit, MaxGen} \subseteq Nat \ {0}

VARIABLES
    gen, top, hidden,    \* the room: generation, last sequence, archived ones
    pending,             \* publications on their way to the bus
    news, subscribed,    \* records of the bus the stream has not read; FALSE:
                         \* its position is "$", records from the next read on
    pc, cursor, cgen, said, batch,   \* the stream
    bound, budget, goal, \* the catch-up: its bounds, what it is for
    wire,                \* frames on their way to the browser
    bgen, shown, last, more,   \* the browser; 0: nothing loaded, no more pages
    answer,              \* generation in an answer on its way to the browser
    used                 \* how often each bounded action was taken

room == <<gen, top, hidden>>
bus == <<news, subscribed>>
stream == <<pc, cursor, cgen, said, batch, bound, budget, goal>>
browser == <<bgen, shown, last, more, answer>>
vars == <<room, pending, bus, stream, wire, browser, used>>

Unbounded == MaxSeq + 1

Kept == (1 .. top) \ hidden
Message(g, s) == [kind |-> "message", gen |-> g, seq |-> s]
Playback(g, s) == [kind |-> "playback", gen |-> g, seq |-> s]
Announce(g) == [kind |-> "generation", gen |-> g, seq |-> 0]

Init ==
    /\ gen = 1 /\ top = 0 /\ hidden = {} /\ pending = {}
    /\ news = <<>> /\ subscribed = FALSE
    /\ pc = "closed" /\ cursor = 0 /\ cgen = 0 /\ said = FALSE /\ batch = <<>>
    /\ bound = Unbounded /\ budget = Unbounded /\ goal = "read"
    /\ wire = <<>> /\ bgen = 0 /\ shown = {} /\ last = 0 /\ more = 0 /\ answer = 0
    /\ used = [hides |-> 0, lost |-> 0, drops |-> 0, polls |-> 0]

Use(what, n) == used[what] < n /\ used' = [used EXCEPT ![what] = @ + 1]

(***************************************************************************)
(* Writers.  The generator of historical rooms does not publish; what a    *)
(* replay publishes for one event is on its way before the next.           *)
(***************************************************************************)

Insert ==
    /\ top < MaxSeq /\ top' = top + 1 /\ pending = {}
    /\ \E published \in SUBSET {Message(gen, top + 1), Playback(gen, top + 1)} :
          pending' = pending \cup published
    /\ UNCHANGED <<gen, hidden, bus, stream, wire, browser, used>>

Archive ==
    /\ Kept # {} /\ Use("hides", MaxHides)
    /\ hidden' = 1 .. top
    /\ UNCHANGED <<gen, top, pending, bus, stream, wire, browser>>

Restart ==
    /\ gen < MaxGen /\ gen' = gen + 1 /\ top' = 0 /\ hidden' = {}
    /\ pending' = pending \cup {Announce(gen + 1)}
    /\ UNCHANGED <<bus, stream, wire, browser, used>>

Publish ==
    /\ \E r \in pending :
          /\ pending' = pending \ {r}
          /\ IF subscribed \/ pc = "read"
             THEN news' = Append(news, r) /\ subscribed' = TRUE
             ELSE UNCHANGED bus
    /\ UNCHANGED <<room, stream, wire, browser, used>>

PublishFails ==
    /\ Use("lost", MaxLost)
    /\ \E r \in pending : pending' = pending \ {r}
    /\ UNCHANGED <<room, bus, stream, wire, browser>>

(***************************************************************************)
(* The stream: a catch-up reads pages of the room until one is short.      *)
(***************************************************************************)

CatchUp(b, n, what) == /\ bound' = b /\ budget' = n /\ goal' = what
                       /\ pc' = "page"

\* latest_room_stream_id, or "$" when the bus does not answer.
Open ==
    /\ pc = "closed" /\ bgen # 0
    /\ cursor' = last /\ cgen' = bgen /\ said' = FALSE /\ batch' = <<>>
    /\ news' = <<>>
    /\ \/ subscribed' = TRUE /\ UNCHANGED used
       \/ subscribed' = FALSE /\ Use("lost", MaxLost)
    /\ CatchUp(Unbounded, Unbounded, "read")
    /\ UNCHANGED <<room, pending, wire, browser>>

Smaller(a, b) == IF a < b THEN a ELSE b

\* list_message_page: another generation is read from its beginning.
After == IF cgen = gen THEN cursor ELSE 0

\* The first n of the messages after the cursor.
PageOf(after, n) ==
    LET S == {s \in Kept : s > after}
    IN  {s \in S : Cardinality({t \in S : t < s}) < n}

GenerationFrame ==
    IF cgen # gen \/ ~said THEN <<Announce(gen)>> ELSE <<>>

Page ==
    /\ pc = "page" /\ wire = <<>>
    /\ LET limit == Smaller(PageLimit, budget)
           page == PageOf(After, limit)
           sent == {s \in page : s <= bound}
           at == IF sent = {} THEN After ELSE Max(sent)
           left == IF budget = Unbounded THEN Unbounded ELSE budget - Cardinality(sent)
           done == \/ left = 0 \/ sent = {} \/ Cardinality(page) < limit \/ at >= bound
       IN  /\ wire' = wire \o GenerationFrame
                          \o [i \in 1 .. Cardinality(sent) |-> Message(gen, SetToSortSeq(sent, <)[i])]
           /\ cgen' = gen /\ said' = TRUE /\ cursor' = at /\ budget' = left
           /\ pc' = IF ~done THEN "page" ELSE IF batch = <<>> THEN "read" ELSE goal
    /\ UNCHANGED <<room, pending, bus, batch, bound, goal, browser, used>>

\* A batch of records, or none when the heartbeat is due; either way the room
\* is read first.  From "$" a record is only seen while it is waited for.
\* Mutant: a heartbeat does not read the room.
ReconcileRecords(records) ==
    IF records = <<>> THEN pc' = "read" /\ UNCHANGED <<bound, budget, goal>>
    ELSE CatchUp(Unbounded, PageLimit, "records")
Reconcile(records) == CatchUp(Unbounded, PageLimit, "records")

Read ==
    /\ pc = "read"
    /\ batch' = news /\ news' = <<>>
    /\ Reconcile(news)
    /\ UNCHANGED <<room, pending, subscribed, cursor, cgen, said, wire, browser, used>>

ReadFails ==
    /\ pc = "read" /\ Use("lost", MaxLost)
    /\ CatchUp(Unbounded, PageLimit, "read")
    /\ UNCHANGED <<room, pending, bus, cursor, cgen, said, batch, wire, browser>>

Taken == /\ batch' = Tail(batch) /\ pc' = IF Tail(batch) = <<>> THEN "read" ELSE "records"
         /\ UNCHANGED <<bound, budget, goal>>

\* A record of the batch, after the catch-up to it where one is needed.
Handle(r) ==
    IF r.gen # cgen \/ r.seq <= cursor \/ r.kind = "generation"
    THEN Taken /\ UNCHANGED <<cursor, wire>>
    ELSE \/ /\ pc = "records"
            /\ \/ r.kind = "message" /\ r.seq > cursor + 1
                  /\ CatchUp(r.seq - 1, Unbounded, "caught")
               \/ r.kind = "playback" /\ CatchUp(r.seq, Unbounded, "caught")
            /\ UNCHANGED <<cursor, wire, batch>>
         \/ /\ pc = "caught" \/ (r.kind = "message" /\ r.seq = cursor + 1)
            /\ Taken
            /\ IF r.kind = "message" THEN cursor' = r.seq /\ wire' = Append(wire, r)
               ELSE UNCHANGED <<cursor, wire>>

HandleRecord ==
    /\ pc \in {"records", "caught"} /\ wire = <<>>
    /\ Handle(Head(batch))
    /\ UNCHANGED <<room, pending, bus, cgen, said, browser, used>>

(***************************************************************************)
(* The browser.                                                            *)
(***************************************************************************)

Closed == /\ pc' = "closed" /\ wire' = <<>> /\ news' = <<>> /\ subscribed' = FALSE
          /\ cursor' = 0 /\ cgen' = 0 /\ said' = FALSE /\ batch' = <<>>
          /\ bound' = Unbounded /\ budget' = Unbounded /\ goal' = "read"

\* mergeMessages; the cursor of a reconnection is the highest one shown.
Merge(S) == /\ shown' = shown \cup {[gen |-> bgen, seq |-> s] : s \in S}
            /\ last' = Max(S \cup {last})

Bootstrap ==
    /\ bgen = 0 /\ bgen' = gen
    /\ LET page == PageOf(0, PageLimit)
       IN  /\ shown' = {[gen |-> gen, seq |-> s] : s \in page}
           /\ last' = Max(page \cup {0})
           /\ more' = IF Cardinality(page) = PageLimit THEN Max(page) ELSE 0
    /\ UNCHANGED <<room, pending, bus, stream, wire, answer, used>>

\* Mutant: the older conversation stays.
AdoptKeeping(g) ==
    IF g <= bgen THEN UNCHANGED <<bgen, shown, last, more, stream, bus, wire>>
    ELSE bgen' = g /\ last' = 0 /\ more' = 0 /\ Closed /\ UNCHANGED shown

Adopt(g) ==
    IF g <= bgen THEN UNCHANGED <<bgen, shown, last, more, stream, bus, wire>>
    ELSE bgen' = g /\ shown' = {} /\ last' = 0 /\ more' = 0 /\ Closed

Receive ==
    /\ wire # <<>>
    /\ LET f == Head(wire)
       IN  IF f.kind = "generation" /\ f.gen > bgen THEN Adopt(f.gen)
           ELSE /\ IF f.kind = "message" /\ f.gen = bgen THEN Merge({f.seq})
                   ELSE UNCHANGED <<shown, last>>
                /\ wire' = Tail(wire)
                /\ UNCHANGED <<bgen, more, stream, bus>>
    /\ UNCHANGED <<room, pending, answer, used>>

Drop ==
    /\ pc # "closed" /\ Use("drops", MaxDrops)
    /\ Closed
    /\ UNCHANGED <<room, pending, browser>>

\* Answers to the poll of a live room and to the operator's controls.
Ask ==
    /\ bgen # 0 /\ answer = 0 /\ Use("polls", MaxPolls)
    /\ answer' = gen
    /\ UNCHANGED <<room, pending, bus, stream, wire, bgen, shown, last, more>>

Answered ==
    /\ answer # 0 /\ answer' = 0
    /\ Adopt(answer)
    /\ UNCHANGED <<room, pending, used>>

LoadMore ==
    /\ bgen # 0 /\ more # 0
    /\ IF gen # bgen THEN Adopt(gen)
       ELSE LET page == PageOf(more, PageLimit)
            IN  /\ Merge(page)
                /\ more' = IF Cardinality(page) = PageLimit THEN Max(page) ELSE 0
                /\ UNCHANGED <<bgen, stream, bus, wire>>
    /\ UNCHANGED <<room, pending, answer, used>>

-----------------------------------------------------------------------------

Writes == Insert \/ Archive \/ Restart \/ Publish \/ PublishFails
Streaming == Open \/ Page \/ Read \/ HandleRecord
Faults == ReadFails \/ Drop
Browsing == Bootstrap \/ Receive \/ Ask \/ Answered \/ LoadMore

Next == Writes \/ Streaming \/ Faults \/ Browsing

Spec == Init /\ [][Next]_vars

\* The loop of the stream goes on, and so does the browser's.
FairSpec == Spec /\ WF_vars(Streaming) /\ WF_vars(Receive) /\ WF_vars(Bootstrap)

TypeOK ==
    /\ gen \in 1 .. MaxGen /\ top \in 0 .. MaxSeq /\ hidden \subseteq 1 .. top
    /\ pc \in {"closed", "page", "read", "records", "caught"}
    /\ cursor \in 0 .. MaxSeq /\ cgen \in 0 .. MaxGen
    /\ bgen \in 0 .. MaxGen /\ last \in 0 .. MaxSeq
    /\ budget \in 0 .. Unbounded /\ bound \in 0 .. Unbounded

\* The conversation on screen is one conversation: nothing of a discussion
\* that was restarted, whatever was still on its way.
OneDiscussion == \A m \in shown : m.gen = bgen

\* Below the cursor a reconnection starts from nothing is missing, although
\* announcements are lost, reordered, or never made and pages overlap.
NothingSkipped ==
    bgen = gen => \A s \in 1 .. last : s \in hidden \/ [gen |-> gen, seq |-> s] \in shown

\* Once the room rests, the browser comes to show all of it.
AllShown == <>[](bgen = gen /\ \A s \in Kept : [gen |-> gen, seq |-> s] \in shown)

=============================================================================
