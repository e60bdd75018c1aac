---------------------------- MODULE IngestBuffer ----------------------------
(***************************************************************************)
(* Intake of one session by one process (services/event_pipeline.py,       *)
(* services/raw_events.py): a provider row is stored as a raw row, held    *)
(* back in the ordering buffer until events that are a window newer have   *)
(* been seen, and appended to the durable log in the order of event time.  *)
(*                                                                         *)
(* The session lock admits one operation at a time; its steps are the      *)
(* awaits at which it can fail or be cancelled, and the process can die at *)
(* any of them.  What happens inside an append is CriticalProjection.      *)
(***************************************************************************)
EXTENDS Naturals, Sequences, FiniteSets

CONSTANTS
    Rows,         \* provider rows of the session
    Time,         \* the event time of each row
    Window,       \* event_ordering_buffer_ms
    MaxBuffered,  \* bound on the copies of rows in the buffer
    MaxBatch,     \* bound on the rows of a batch
    MaxFaults     \* bound on failures, lost responses and crashes

TimeAssumption == Time \in [Rows -> Nat \ {0}]
BoundsAssumption == {Window, MaxBuffered, MaxBatch, MaxFaults} \subseteq Nat

VARIABLES
    raw,          \* status of each raw row
    log,          \* rows in the durable log, in its order
    buffer,       \* the heap of the session: rows by time, then by arrival
    latest,       \* _latest_event_time, 0 if there is none
    pc, todo,     \* where the operation is; rows it has still to ingest
    ready,        \* rows that left the buffer and are being appended
    flushing,     \* the operation ends with a flush
    faults,
    stranded,     \* history: rows whose buffered copy an accident took away
    late,         \* history: rows that came after a newer one had been appended
    early         \* history: newest time that a flush released

operation == <<pc, todo, ready, flushing>>
history == <<stranded, late, early>>
vars == <<raw, log, buffer, latest, operation, faults, history>>

Init ==
    /\ raw = [r \in Rows |-> "absent"] /\ log = <<>>
    /\ buffer = <<>> /\ latest = 0
    /\ pc = "idle" /\ todo = <<>> /\ ready = <<>> /\ flushing = FALSE
    /\ faults = 0
    /\ stranded = {} /\ late = {} /\ early = 0

Later(a, b) == IF a > b THEN a ELSE b

(***************************************************************************)
(* EventOrderingBuffer.                                                    *)
(***************************************************************************)

RowsOf(rows) == {rows[i] : i \in DOMAIN rows}

\* The first n rows, the others, and how many are due.
FirstOf(heap, n) == SubSeq(heap, 1, n)
Rest(heap, n) == SubSeq(heap, n + 1, Len(heap))
HowMany(heap, until) == Cardinality({i \in DOMAIN heap : Time[heap[i]] <= until})

Push(heap, r) ==
    LET n == HowMany(heap, Time[r])
    IN  FirstOf(heap, n) \o <<r>> \o Rest(heap, n)

\* The newest time among t and the rows.
Newest(t, rows) ==
    LET times == {t} \cup {Time[r] : r \in RowsOf(rows)}
    IN  CHOOSE m \in times : \A n \in times : n <= m

\* Mutant: the window is not subtracted.
DueAtOnce(heap, newest) == FirstOf(heap, HowMany(heap, newest))

\* _pop_until with the watermark of the newest event.
Due(heap, newest) ==
    FirstOf(heap, IF newest < Window THEN 0 ELSE HowMany(heap, newest - Window))

Add(r) ==
    LET heap == Push(buffer, r)
        newest == Later(latest, Time[r])
        due == Due(heap, newest)
    IN  /\ ready' = due
        /\ buffer' = Rest(heap, Len(due))
        /\ latest' = newest
        /\ late' = late \cup {x \in {r} : \E i \in 1 .. Len(log) : Time[log[i]] > Time[x]}

\* The row that failed and the rest of its batch are put back.
Requeued[n \in 0 .. Len(ready)] ==
    IF n = 0 THEN buffer ELSE Push(Requeued[n - 1], ready[n])

Requeue ==
    /\ buffer' = Requeued[Len(ready)]
    /\ latest' = Newest(latest, ready)

(***************************************************************************)
(* Operations of the processor.                                            *)
(***************************************************************************)

Start(rows, flush) ==
    /\ pc = "idle" /\ Len(buffer) + Len(rows) <= MaxBuffered
    /\ pc' = "next" /\ todo' = rows /\ flushing' = flush
    /\ UNCHANGED <<raw, log, buffer, latest, ready, faults, history>>

Ingest == \E r \in Rows : Start(<<r>>, FALSE)
IngestBatch == \E n \in 1 .. MaxBatch : \E rows \in [1 .. n -> Rows] : Start(rows, TRUE)
FlushSession == Start(<<>>, TRUE)

\* The next row is stored.  One that was stored before and is still pending is
\* normalized again, one that is done is a duplicate.
Persist ==
    /\ pc = "next" /\ todo # <<>>
    /\ todo' = Tail(todo)
    /\ IF raw[Head(todo)] = "done"
       THEN UNCHANGED <<raw, buffer, latest, pc, ready, history>>
       ELSE /\ raw' = [raw EXCEPT ![Head(todo)] = "pending"]
            /\ Add(Head(todo))
            /\ pc' = "append"
            /\ stranded' = stranded \ {Head(todo)}
            /\ UNCHANGED early
    /\ UNCHANGED <<log, flushing, faults>>

Flush ==
    /\ pc = "next" /\ todo = <<>> /\ flushing
    /\ ready' = buffer /\ buffer' = <<>> /\ latest' = 0
    /\ early' = Later(early, latest)
    /\ flushing' = FALSE /\ pc' = "append"
    /\ UNCHANGED <<raw, log, todo, faults, stranded, late>>

Return ==
    /\ pc = "next" /\ todo = <<>> /\ ~flushing
    /\ pc' = "idle"
    /\ UNCHANGED <<raw, log, buffer, latest, todo, ready, flushing, faults, history>>

\* A fact that is in the log already is not appended again.
Logged(r) == IF r \in RowsOf(log) THEN log ELSE Append(log, r)

\* _persist_ordered up to the notification of the consumers.
AppendNext ==
    /\ pc = "append" /\ ready # <<>>
    /\ log' = Logged(Head(ready))
    /\ pc' = "mark"
    /\ UNCHANGED <<raw, buffer, latest, todo, ready, flushing, faults, history>>

Mark ==
    /\ pc = "mark"
    /\ raw' = [raw EXCEPT ![Head(ready)] = "done"]
    /\ ready' = Tail(ready) /\ pc' = "append"
    /\ UNCHANGED <<log, buffer, latest, todo, flushing, faults, history>>

Appended ==
    /\ pc = "append" /\ ready = <<>>
    /\ pc' = "next"
    /\ UNCHANGED <<raw, log, buffer, latest, todo, ready, flushing, faults, history>>

(***************************************************************************)
(* Accidents.                                                              *)
(***************************************************************************)

Accident == faults < MaxFaults /\ faults' = faults + 1
Abandon == pc' = "idle" /\ todo' = <<>> /\ ready' = <<>> /\ flushing' = FALSE

\* The raw row is stored or not, but the operation does not get to the buffer.
PersistFails ==
    /\ pc = "next" /\ todo # <<>> /\ raw[Head(todo)] # "done"
    /\ Accident /\ Abandon
    /\ \/ UNCHANGED <<raw, stranded>>
       \/ /\ raw' = [raw EXCEPT ![Head(todo)] = "pending"]
          /\ stranded' = stranded \cup {Head(todo)}
    /\ UNCHANGED <<log, buffer, latest, late, early>>

\* An append, a notification or the marking raises or is cancelled.
PersistReadyFails ==
    /\ pc \in {"append", "mark"} /\ ready # <<>>
    /\ Accident /\ Abandon
    /\ log' \in {log, Logged(Head(ready))}
    /\ Requeue
    /\ UNCHANGED <<raw, history>>

Pending == {r \in Rows : raw[r] = "pending"}

Crash ==
    /\ Accident /\ Abandon
    /\ buffer' = <<>> /\ latest' = 0
    /\ stranded' = Pending
    /\ early' = Newest(early, log)
    /\ UNCHANGED <<raw, log, late>>

Working ==
    Persist \/ Flush \/ Return \/ AppendNext \/ Mark \/ Appended
Next ==
    \/ Ingest \/ IngestBatch \/ FlushSession \/ Working
    \/ PersistFails \/ PersistReadyFails \/ Crash

Spec == Init /\ [][Next]_vars

FairSpec == Spec /\ WF_vars(Working) /\ SF_vars(FlushSession)

(***************************************************************************)
(* Properties.                                                             *)
(***************************************************************************)

TypeOK ==
    /\ raw \in [Rows -> {"absent", "pending", "done"}]
    /\ log \in Seq(Rows) /\ buffer \in Seq(Rows) /\ Len(buffer) <= MaxBuffered
    /\ latest \in Nat /\ early \in Nat
    /\ pc \in {"idle", "next", "append", "mark"}
    /\ todo \in Seq(Rows) /\ ready \in Seq(Rows) /\ flushing \in BOOLEAN
    /\ faults \in 0 .. MaxFaults
    /\ stranded \subseteq Rows /\ late \subseteq Rows

InMemory == RowsOf(buffer) \cup RowsOf(ready)

\* A stored row is never forgotten by a living process: until it is done it is in
\* the buffer or being appended, unless the accident between its storing and its
\* buffering, or a crash, took it away; then the raw row is still pending.
PendingHeld == Pending \subseteq InMemory \cup stranded

\* The log is in the order of event time, but for rows that were delivered after a
\* newer one had already been appended: neither a failed batch nor its requeueing
\* reorders events.
InTimeOrder ==
    \A i, j \in 1 .. Len(log) :
        i < j /\ Time[log[i]] > Time[log[j]] => log[j] \in late

\* Late rows are only those the buffer cannot help: everything in the log has been
\* held back for the whole window, or was released by a flush or a restart.
HeldForWindow ==
    \A i \in 1 .. Len(log) :
        Time[log[i]] <= early \/ Time[log[i]] + Window <= latest

\* Whatever fails on the way, a buffered row is done in the end, or a crash has
\* taken it out of memory.
BufferDrains ==
    \A r \in Rows : r \in RowsOf(buffer) /\ raw[r] = "pending" ~> raw[r] = "done" \/ r \in stranded

=============================================================================
