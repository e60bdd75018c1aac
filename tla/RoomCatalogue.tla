--------------------------- MODULE RoomCatalogue ---------------------------
(***************************************************************************)
(* The row of a race room and everyone who writes it: catalogue syncs      *)
(* (RaceRoomService._synchronize, in every process that runs one, each     *)
(* with its own copy of the provider's session list), the live worker's    *)
(* finalisation, the reconciler (bind, backfill, finalise) and the         *)
(* operator's ingestion.  A sync reads the row, decides, and writes it in  *)
(* three separate transactions, from a provider list that may be old.      *)
(*                                                                         *)
(* Mode, eligibility column and telemetry grade follow the status and are  *)
(* left out; an availability is its rank.                                  *)
(***************************************************************************)
EXTENDS Integers, FiniteSets

CONSTANTS
    Slots,      \* sessions of the calendar; one room each
    Keys,       \* provider session identities
    Syncers,    \* processes that run catalogue syncs
    Writers,    \* which of "live", "reconcile", "ingest", "chat" take part
    Starts,     \* start times a session may be scheduled at
    Window,     \* length of the capture window (12 hours)
    Late,       \* how long after its start a session may still be just starting (6 hours)
    Length,     \* time until the provider says a session has ended
    MaxTime,    \* bound on the clock
    MaxNews     \* bound on changes of the calendar and of the provider's list

None == "none"
NoRoom == [status |-> None]
Idle == [step |-> "idle"]
Ranks == 0 .. 2          \* unavailable, timing_only, limited or better
Statuses == {"pending", "live", "ready", "completed", "unavailable"}
Intakes == {"pending", "matching", "partial", "ready", "unavailable", "failed"}

VARIABLES
    now,
    calendar,   \* slot -> scheduled start
    offered,    \* slot -> [key, cancelled] of the provider session that matches
    seen,       \* syncer -> slot -> the listing it fetched last
    room,       \* slot -> the row
    work,       \* syncer -> what its sync has in hand
    fix,        \* what the reconciler has in hand
    stored,     \* key -> rank of the data persisted for it
    terminal,   \* keys with a committed terminal control
    halted,     \* keys with a committed cancellation
    said,       \* keys the provider ever listed as cancelled
    news

vars == <<now, calendar, offered, seen, room, work, fix, stored, terminal, halted, said, news>>
outside == <<stored, terminal, halted, said>>

NoListing == [key |-> None, cancelled |-> FALSE]
Listings == [key : Keys \cup {None}, cancelled : BOOLEAN]

Rooms == [key : Keys \cup {None}, anchor : Starts, sched : Starts, status : Statuses,
          ing : Intakes, avail : Ranks, replay : BOOLEAN, cancelled : BOOLEAN,
          msgs : BOOLEAN]

Exists(r) == r.status # None

Init ==
    /\ now = 0
    /\ calendar \in [Slots -> Starts]
    /\ offered = [s \in Slots |-> NoListing]
    /\ seen = [p \in Syncers |-> offered]
    /\ room = [s \in Slots |-> NoRoom]
    /\ work = [p \in Syncers |-> Idle]
    /\ fix = Idle
    /\ stored = [k \in Keys |-> 0]
    /\ terminal = {}
    /\ halted = {}
    /\ said = {}
    /\ news = 0

-----------------------------------------------------------------------------
(* Policies *)

Capture(start, at, ended, off) ==
    IF ended THEN "terminal"
    ELSE IF off THEN "cancelled"
    ELSE IF at < start THEN "before_start"
    ELSE IF at >= start + Window THEN "expired"
    ELSE "watching"

Public(reason) ==
    CASE reason = "terminal" -> "completed"
      [] reason = "cancelled" -> "cancelled"
      [] reason = "before_start" -> "upcoming"
      [] reason = "watching" -> "live"
      [] OTHER -> "completed"

\* RoomEligibilityService.evaluate: what may be created, opened and replayed
Evaluate(start, status, listed, r, at) ==
    LET waiting == r.status = "pending" /\ r.avail = 0
        shut == [create |-> FALSE, open |-> FALSE, replay |-> FALSE]
    IN  IF start > at /\ status \notin {"live", "completed"} THEN shut
        ELSE IF status = "live"
             THEN [create |-> ~Exists(r), open |-> TRUE, replay |-> FALSE]
        ELSE IF Exists(r)
             THEN IF waiting THEN shut
                  ELSE [create |-> FALSE, open |-> r.status \notin {"pending", "unavailable"},
                        replay |-> r.replay \/ (r.status # "live" /\ r.avail > 0)]
        ELSE IF listed /\ (status \in {"completed", "ready"} \/ at < start + Late)
             THEN [create |-> TRUE, open |-> TRUE, replay |-> FALSE]
        ELSE shut

\* evaluate_room: the row judged by itself, as the room's routes do
OfRoom(r, at) == Evaluate(r.sched, r.status, r.key # None, r, at)

Anchor(r, start) == IF Exists(r) THEN r.anchor ELSE start

-----------------------------------------------------------------------------
(* A catalogue sync of one slot *)

\* force_sync: fetch the provider's list, or keep the old one when that fails,
\* and read the row
Look(p, s, list) ==
    /\ work[p] = Idle
    /\ seen' = [seen EXCEPT ![p][s] = list]
    /\ work' = [work EXCEPT ![p] = [step |-> "decide", slot |-> s, at |-> now,
                                    start |-> calendar[s], list |-> list, old |-> room[s]]]
    /\ UNCHANGED <<now, calendar, offered, room, fix, outside, news>>

Sync(p, s) == \E list \in {offered[s], seen[p][s]} : Look(p, s, list)

SameIdentity(old, list) == Exists(old) /\ list.key \in {None, old.key}

\* The narrow update of observe_catalog_cancellation
Observed(w) ==
    /\ SameIdentity(w.old, w.list)
    /\ w.old.key # None
    /\ w.list.cancelled
    /\ ~w.old.cancelled
    /\ room[w.slot].key = w.old.key

\* The status a sync works with
Judged(w) ==
    LET base == Public(Capture(Anchor(w.old, w.start), w.at, FALSE, w.list.cancelled))
        ended == Exists(w.old) /\ w.old.key \in terminal
        off == /\ SameIdentity(w.old, w.list)
               /\ w.old.key # None
               /\ w.old.cancelled \/ w.old.key \in halted \/ Observed(w)
    IN  IF off THEN "cancelled" ELSE IF ended THEN "completed" ELSE base

\* The row a sync would insert (_from_session)
Fresh(w) ==
    [key |-> w.list.key, anchor |-> w.start, sched |-> w.start,
     status |-> IF Judged(w) = "live" THEN "live" ELSE "pending",
     ing |-> "pending", avail |-> 0, replay |-> FALSE,
     cancelled |-> w.list.cancelled
                   \/ (SameIdentity(w.old, w.list) /\ (w.old.cancelled \/ Observed(w))),
     msgs |-> FALSE]

Wanted(w) ==
    LET d == Evaluate(w.start, Judged(w), w.list.key # None, w.old, w.at)
    IN  \/ d.create
        \/ d.open
        \/ Exists(w.old) /\ w.list.key \notin {None, w.old.key} /\ Judged(w) # "upcoming"

Decide(p) ==
    LET w == work[p] IN
    /\ w.step = "decide"
    /\ room' = IF Observed(w) THEN [room EXCEPT ![w.slot].cancelled = TRUE] ELSE room
    /\ work' = [work EXCEPT ![p] = IF Wanted(w) THEN [step |-> "put", slot |-> w.slot,
                                                      new |-> Fresh(w)]
                                   ELSE Idle]
    /\ UNCHANGED <<now, calendar, offered, seen, fix, outside, news>>

\* upsert_room on an existing row
Prepared(r) == r.msgs \/ r.ing \in {"ready", "partial"}

\* Mutants: the flag is kept whatever the identity; it is overwritten.
MergedKept(r, new) ==
    LET base == IF Prepared(r) THEN r
                ELSE [r EXCEPT !.status = new.status, !.ing = new.ing,
                               !.avail = new.avail, !.replay = new.replay]
    IN  [base EXCEPT !.key = IF new.key # None THEN new.key ELSE r.key,
                     !.sched = new.sched, !.cancelled = r.cancelled \/ new.cancelled]

MergedOver(r, new) ==
    LET base == IF Prepared(r) THEN r
                ELSE [r EXCEPT !.status = new.status, !.ing = new.ing,
                               !.avail = new.avail, !.replay = new.replay]
    IN  [base EXCEPT !.key = IF new.key # None THEN new.key ELSE r.key,
                     !.sched = new.sched, !.cancelled = new.cancelled]

Merged(r, new) ==
    LET replaced == r.key # None /\ new.key # None /\ r.key # new.key
        base == IF Prepared(r) THEN r
                ELSE [r EXCEPT !.status = new.status, !.ing = new.ing,
                               !.avail = new.avail, !.replay = new.replay]
    IN  [base EXCEPT !.key = IF new.key # None THEN new.key ELSE r.key,
                     !.sched = new.sched,
                     !.cancelled = IF replaced THEN new.cancelled
                                   ELSE r.cancelled \/ new.cancelled]

Taken(k, s) == k # None /\ \E t \in Slots \ {s} : Exists(room[t]) /\ room[t].key = k

\* A key another room holds fails the statement, and the whole sync with it
Put(p) ==
    LET w == work[p] IN
    /\ w.step = "put"
    /\ room' = IF Taken(w.new.key, w.slot) THEN room
               ELSE [room EXCEPT ![w.slot] = IF Exists(@) THEN Merged(@, w.new) ELSE w.new]
    /\ work' = [work EXCEPT ![p] = Idle]
    /\ UNCHANGED <<now, calendar, offered, seen, fix, outside, news>>

-----------------------------------------------------------------------------
(* Finalisation *)

\* OpenF1RoomFinalizer: what is stored classifies the room, never below what it was
Finalized(r, data, live, partial) ==
    LET rank == IF data > r.avail THEN data ELSE r.avail
    IN  [r EXCEPT !.avail = rank,
                  !.ing = IF rank = 0 THEN "unavailable"
                          ELSE IF rank = 1 \/ partial THEN "partial" ELSE "ready",
                  !.replay = rank > 0 /\ ~live,
                  !.status = IF live THEN "live" ELSE IF rank > 0 THEN "completed"
                             ELSE "pending"]

Off(s) == room[s].cancelled \/ room[s].key \in halted

\* The live worker captures what is inside its window
Live(s) ==
    /\ "live" \in Writers
    /\ Exists(room[s])
    /\ room[s].key # None
    /\ Capture(room[s].anchor, now, FALSE, Off(s)) = "watching"
    /\ room' = [room EXCEPT ![s] = Finalized(@, stored[@.key], @.key \notin terminal, TRUE)]
    /\ UNCHANGED <<now, calendar, offered, seen, work, fix, outside, news>>

\* _recent_reconciliation_filters
Candidate(r, at) ==
    /\ Exists(r)
    /\ at >= r.sched + Length
    /\ \/ r.key = None
       \/ ~r.replay
       \/ r.status \in {"pending", "unavailable"}
       \/ r.ing \in {"pending", "matching", "partial", "failed", "unavailable"}
       \/ r.avail < 2

\* resolve: the room's own key, or else the one the provider's list matches
Resolve(s) ==
    /\ "reconcile" \in Writers
    /\ fix = Idle
    /\ Candidate(room[s], now)
    /\ LET k == IF room[s].key # None THEN room[s].key ELSE offered[s].key
       IN  /\ k # None
           /\ fix' = [step |-> "bind", slot |-> s, key |-> k]
    /\ UNCHANGED <<now, calendar, offered, seen, room, work, outside, news>>

\* bind_provider_session; without a replay core, or without a backfill, the
\* pass ends here
Bind ==
    LET s == fix.slot IN
    /\ fix.step = "bind"
    /\ room' = IF Taken(fix.key, s) THEN room
               ELSE [room EXCEPT ![s].key = fix.key, ![s].ing = "matching"]
    /\ fix' \in {Idle} \cup (IF Taken(fix.key, s) \/ now < room[s].sched + Length THEN {}
                             ELSE {[fix EXCEPT !.step = "fill"]})
    /\ UNCHANGED <<now, calendar, offered, seen, work, outside, news>>

\* The backfill has stored what it could fetch; finalize finds the row by its key
Fill ==
    /\ fix.step = "fill"
    /\ \E rank \in stored[fix.key] .. 2, partial \in BOOLEAN :
        /\ stored' = [stored EXCEPT ![fix.key] = rank]
        /\ room' = [s \in Slots |->
                      IF Exists(room[s]) /\ room[s].key = fix.key
                      THEN Finalized(room[s], rank, FALSE, partial) ELSE room[s]]
    /\ fix' = Idle
    /\ UNCHANGED <<now, calendar, offered, seen, work, terminal, halted, said, news>>

\* The operator's ingestion of a session (update_ingestion_availability): it
\* reports what this run fetched, not what is stored
Ingest(s) ==
    /\ "ingest" \in Writers
    /\ Exists(room[s])
    /\ room[s].key # None
    /\ \E rank \in Ranks, ing \in {"ready", "partial", "failed", "unavailable"} :
        /\ (ing \in {"failed", "unavailable"}) => rank = 0
        /\ stored' = [stored EXCEPT ![room[s].key] = IF rank > @ THEN rank ELSE @]
        /\ room' = [room EXCEPT ![s].ing = ing, ![s].avail = rank, ![s].replay = rank = 2,
                                ![s].status = IF rank > 0 THEN "ready" ELSE "unavailable"]
    /\ UNCHANGED <<now, calendar, offered, seen, work, fix, terminal, halted, said, news>>

-----------------------------------------------------------------------------
(* The world *)

Tick ==
    /\ now < MaxTime
    /\ now' = now + 1
    /\ UNCHANGED <<calendar, offered, seen, room, work, fix, outside, news>>

Reschedule(s) ==
    /\ news < MaxNews
    /\ \E start \in Starts : start # calendar[s] /\ calendar' = [calendar EXCEPT ![s] = start]
    /\ news' = news + 1
    /\ UNCHANGED <<now, offered, seen, room, work, fix, outside>>

\* The provider publishes, replaces, cancels, reinstates or drops a session
Publish(s) ==
    /\ news < MaxNews
    /\ \E list \in Listings :
        /\ list # offered[s]
        /\ list.key = None => ~list.cancelled
        /\ offered' = [offered EXCEPT ![s] = list]
        /\ said' = IF list.cancelled THEN said \cup {list.key} ELSE said
    /\ news' = news + 1
    /\ UNCHANGED <<now, calendar, seen, room, work, fix, stored, terminal, halted>>

\* The pipeline stores rows of a session and acknowledges what they say
Store(k) ==
    /\ "live" \in Writers
    /\ stored[k] < 2
    /\ \E s \in Slots : Exists(room[s]) /\ room[s].key = k
    /\ stored' = [stored EXCEPT ![k] = @ + 1]
    /\ UNCHANGED <<now, calendar, offered, seen, room, work, fix, terminal, halted, said, news>>

Acknowledge(k) ==
    /\ "live" \in Writers
    /\ stored[k] > 0
    /\ \/ terminal' = terminal \cup {k} /\ UNCHANGED halted
       \/ k \in said /\ halted' = halted \cup {k} /\ UNCHANGED terminal
    /\ UNCHANGED <<now, calendar, offered, seen, room, work, fix, stored, said, news>>

\* The discussion of a session's events fills the room; a restart empties it
Chat(s) ==
    /\ "chat" \in Writers
    /\ Exists(room[s]) /\ room[s].key # None
    /\ room[s].msgs \/ stored[room[s].key] > 0
    /\ room' = [room EXCEPT ![s].msgs = ~@]
    /\ UNCHANGED <<now, calendar, offered, seen, work, fix, outside, news>>

Next ==
    \/ \E p \in Syncers, s \in Slots : Sync(p, s)
    \/ \E p \in Syncers : Decide(p) \/ Put(p)
    \/ \E s \in Slots : Live(s) \/ Resolve(s) \/ Ingest(s) \/ Reschedule(s) \/ Publish(s) \/ Chat(s)
    \/ Bind \/ Fill \/ Tick
    \/ \E k \in Keys : Store(k) \/ Acknowledge(k)

Spec == Init /\ [][Next]_vars

\* The sync loops and the live worker's polls keep running and the provider keeps
\* answering from time to time
FairSpec ==
    /\ Spec
    /\ \A s \in Slots : WF_vars(Live(s))
    /\ \A p \in Syncers :
        /\ WF_vars(Decide(p)) /\ WF_vars(Put(p))
        /\ \A s \in Slots : SF_vars(Look(p, s, offered[s]))

-----------------------------------------------------------------------------
(* What the schedule shows *)

\* _event_weekend: the calendar's entry with its row
Shown(s) ==
    LET r == room[s]
        key == IF Exists(r) THEN r.key ELSE offered[s].key
        reason == Capture(Anchor(r, calendar[s]), now, key \in terminal,
                          (Exists(r) /\ r.cancelled) \/ key \in halted \/ offered[s].cancelled)
    IN  Evaluate(calendar[s], Public(reason), offered[s].key # None, r, now)

\* _events_from_rooms: the rows alone, when the calendar cannot be read
ShownRow(s) ==
    LET r == room[s]
        reason == Capture(r.anchor, now, r.key \in terminal, r.cancelled \/ r.key \in halted)
    IN  Evaluate(r.sched, Public(reason), FALSE, r, now)

-----------------------------------------------------------------------------
TypeOK ==
    /\ now \in 0 .. MaxTime
    /\ calendar \in [Slots -> Starts]
    /\ offered \in [Slots -> Listings]
    /\ \A s \in Slots : room[s] = NoRoom \/ room[s] \in Rooms
    /\ stored \in [Keys -> Ranks]
    /\ terminal \subseteq Keys /\ halted \subseteq said

\* No room exists before the session it was made for was due to start: the
\* calendar may move, the provider's list may be old, a sync may be slow.
NotEarly == \A s \in Slots : Exists(room[s]) => room[s].anchor <= now

\* A room is called cancelled only if the provider said so of the session it is
\* bound to, so a replacement does not inherit its predecessor's cancellation
\* (upsert_room, observe_catalog_cancellation).
CancelIsOwn ==
    \A s \in Slots : Exists(room[s]) /\ room[s].cancelled => room[s].key \in said

\* As long as a room keeps its session, its cancellation is never taken back: a
\* list without the flag, or an old one, reinstates nothing.
CancelSticks ==
    [][\A s \in Slots : Exists(room[s]) /\ room[s].cancelled /\ room'[s].key = room[s].key
          => room'[s].cancelled]_vars

\* What a room offers has been stored for the session it is bound to.
AvailIsStored ==
    \A s \in Slots : Exists(room[s]) =>
        room[s].avail <= IF room[s].key = None THEN 0 ELSE stored[room[s].key]

\* A completed room with stored data is not closed again while it keeps its
\* session: catalogue syncs and reconciliation leave what is prepared alone.
KeepsPrepared ==
    \A s \in Slots :
        Exists(room[s]) /\ room[s].status = "completed" /\ room'[s].key = room[s].key
        => room'[s].status # "pending" /\ room'[s].avail >= room[s].avail

\* Whoever writes the row, a replay is offered only where there is data and
\* the session is not being captured.
ReplayHasData ==
    \A s \in Slots : Exists(room[s]) /\ room[s].replay =>
        room[s].avail > 0 /\ room[s].status \notin {"live", "pending", "unavailable"}

\* A link of the schedule that the room's own route refuses is repaired by the
\* syncs, whether the schedule was made from the calendar or from the rows.
LinksOpen ==
    \A s \in Slots : Exists(room[s]) /\ (Shown(s).open \/ ShownRow(s).open)
                     => OfRoom(room[s], now).open

LinksRepaired == []<>LinksOpen
=============================================================================
