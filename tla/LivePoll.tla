------------------------------ MODULE LivePoll ------------------------------
(***************************************************************************)
(* How a live session's dated rows reach the processor: the REST polls of  *)
(* LiveSessionIngestionService with a cursor per endpoint, an overlap for  *)
(* late rows, a cache of rows it has seen and retries under local          *)
(* pressure; the MQTT feed that silences the polls while it is fresh; and  *)
(* a worker that restarts with nothing but the durable rows.  One endpoint *)
(* is modelled: endpoints share nothing but the batch.  A row is its date. *)
(***************************************************************************)
EXTENDS Integers, FiniteSets

CONSTANTS
    Dates,      \* a row for each
    Overlap,    \* how far a poll looks back behind its cursor
    Warmup,     \* how far the first poll looks back
    Degraded,   \* live_degraded_after_seconds
    SeenLimit,  \* size at which the cache is cleared
    MaxTime, MaxTrouble   \* bounds

DatesAssumption == IsFiniteSet(Dates) /\ Dates \subseteq Nat
BoundsAssumption == {Overlap, Warmup, Degraded, SeenLimit, MaxTime, MaxTrouble} \subseteq Nat

None == -1000   \* no cursor

VARIABLES
    now,
    published,  \* date -> when the provider had the row, for those it has
    ingested,   \* rows the processor has stored
    cursor,     \* of the endpoint
    seen,       \* fingerprints of rows polled and ingested
    pass,       \* the poll that is running: [rows, at] or Idle
    feed,       \* [up, last]: the MQTT connection and its last event
    since,      \* the first date the polls of this worker are to cover
    fetched,    \* when the last successful poll asked the provider
    trouble

vars == <<now, published, ingested, cursor, seen, pass, feed, since, fetched, trouble>>

Idle == [rows |-> {}, at |-> -1, asked |-> -1]

Init ==
    /\ now = 0
    /\ published = [d \in {} |-> 0]
    /\ ingested = {}
    /\ cursor = None
    /\ seen = {}
    /\ pass = Idle
    /\ feed = [up |-> FALSE, last |-> None]
    /\ since = None
    /\ fetched = None
    /\ trouble = 0

Tick ==
    /\ now < MaxTime
    /\ now' = now + 1
    /\ UNCHANGED <<published, ingested, cursor, seen, pass, feed, since, fetched, trouble>>

-----------------------------------------------------------------------------
(* The feed *)

MqttActive == feed.up /\ feed.last # None /\ now - feed.last <= Degraded

\* The provider publishes a row, at its date or later; a connected feed brings
\* it, unless it is lost on the way
Publish(d) ==
    /\ d \notin DOMAIN published /\ d <= now
    /\ published' = [e \in DOMAIN published \cup {d} |-> IF e = d THEN now ELSE published[e]]
    /\ \/ UNCHANGED <<ingested, feed>>
       \/ /\ feed.up
          /\ ingested' = ingested \cup {d}
          /\ feed' = [feed EXCEPT !.last = now]
    /\ UNCHANGED <<now, cursor, seen, pass, since, fetched, trouble>>

Connect ==
    /\ ~feed.up
    /\ feed' = [feed EXCEPT !.up = TRUE]
    /\ UNCHANGED <<now, published, ingested, cursor, seen, pass, since, fetched, trouble>>

Disconnect ==
    /\ feed.up
    /\ feed' = [feed EXCEPT !.up = FALSE]
    /\ UNCHANGED <<now, published, ingested, cursor, seen, pass, since, fetched, trouble>>

-----------------------------------------------------------------------------
(* A poll *)

\* date> of the request
Lower(t) == (IF cursor # None THEN cursor ELSE t - Warmup) - Overlap

\* The pass took its time before the provider is asked
Fetch(t) ==
    /\ pass = Idle
    /\ ~MqttActive
    /\ t \in {now, now - 1} /\ t >= 0
    /\ cursor # None => t > cursor
    /\ pass' = [rows |-> {d \in DOMAIN published : d > Lower(t) /\ d < t + 1}, at |-> t, asked |-> now]
    /\ since' = IF cursor = None THEN Lower(t) ELSE since
    /\ UNCHANGED <<now, published, ingested, cursor, seen, feed, fetched, trouble>>

\* The endpoint keeps its cursor
FetchFails ==
    /\ pass = Idle
    /\ ~MqttActive
    /\ trouble < MaxTrouble
    /\ trouble' = trouble + 1
    /\ UNCHANGED <<now, published, ingested, cursor, seen, pass, feed, since, fetched>>

Fresh == pass.rows \ seen

\* A batch that was refused after some of its rows
RememberedAfterBusy(rows) == seen

\* HistoryContextBusyError outlasts the retries; the poll returns
Busy ==
    /\ pass # Idle
    /\ Fresh # {}
    /\ trouble < MaxTrouble
    /\ trouble' = trouble + 1
    /\ \E part \in SUBSET Fresh :
        /\ part # Fresh
        /\ ingested' = ingested \cup part
    /\ seen' = RememberedAfterBusy(Fresh)
    /\ pass' = Idle
    /\ UNCHANGED <<now, published, cursor, feed, since, fetched>>

\* The cache is bounded; the processor drops what it has stored
Remembered(rows) == (IF Cardinality(seen) > SeenLimit THEN {} ELSE seen) \cup rows

CursorAt(t) == t

Ingest ==
    /\ pass # Idle
    /\ ingested' = ingested \cup Fresh
    /\ seen' = IF Fresh = {} THEN seen ELSE Remembered(Fresh)
    /\ cursor' = CursorAt(pass.at)
    /\ fetched' = pass.asked
    /\ pass' = Idle
    /\ UNCHANGED <<now, published, feed, since, trouble>>

Restart ==
    /\ trouble < MaxTrouble
    /\ trouble' = trouble + 1
    /\ cursor' = None /\ seen' = {} /\ pass' = Idle
    /\ fetched' = None /\ since' = None
    /\ feed' = [up |-> FALSE, last |-> None]
    /\ UNCHANGED <<now, published, ingested>>

Next ==
    \/ Tick \/ Connect \/ Disconnect \/ FetchFails \/ Busy \/ Ingest \/ Restart
    \/ \E d \in Dates : Publish(d)
    \/ \E t \in 0 .. MaxTime : Fetch(t)

Spec == Init /\ [][Next]_vars

-----------------------------------------------------------------------------
TypeOK ==
    /\ DOMAIN published \subseteq Dates /\ ingested \subseteq DOMAIN published
    /\ seen \subseteq Dates
    /\ cursor \in {None} \cup 0 .. MaxTime
    /\ cursor = None \/ cursor <= fetched
    /\ Cardinality(seen) <= SeenLimit + Cardinality(Dates)

\* Rows that were not later than the overlap when the last poll asked
OnTime(d) == published[d] < fetched /\ published[d] - d < Overlap /\ d <= cursor

\* After a poll, every row since the worker began is stored that was published
\* in time, whether the feed lost it, a poll failed, a batch was refused or the
\* feed silenced the polls for a while.
NothingMissed ==
    cursor # None =>
        \A d \in DOMAIN published : d > since /\ OnTime(d) => d \in ingested

=============================================================================
