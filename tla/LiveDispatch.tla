---------------------------- MODULE LiveDispatch ----------------------------
(***************************************************************************)
(* Intake of live MQTT messages (providers/openf1.py, OpenF1LiveClient).   *)
(*                                                                         *)
(* The callback of the MQTT client runs in a thread of its own.  It puts   *)
(* messages into a bounded queue under a lock and has the event loop start *)
(* a dispatch task, one at a time, that ingests them and then flushes the  *)
(* ordering buffer.  Between two awaits the task excludes every other      *)
(* coroutine, but the thread only where it holds the lock.                 *)
(***************************************************************************)
EXTENDS Naturals, Sequences, FiniteSets

CONSTANTS
    MaxRows,      \* MQTT_DISPATCH_ROWS, bound of the queue and of a batch
    MaxMessages   \* bound on the messages that arrive

ASSUME MaxRowsAssumption == MaxRows \in Nat \ {0}
ASSUME MaxMessagesAssumption == MaxMessages \in Nat

VARIABLES
    queue, rows, scheduled,   \* under the lock: messages, reservations, flag
    closing,                  \* _shutting_down
    arrived, receiving,       \* messages so far; one is in the callback
    callbacks,                \* _start_dispatch calls the loop still has to make
    task, cancelled,          \* where the dispatch task is; cancel() was called
    current, batch, unflushed,\* its message, rows of the batch, pending_flush
    unpersisted, failures,    \* counters of rows and flushes that did not complete
    ingested, refused,        \* messages the pipeline has taken, or was not offered
    buffered                  \* ingested, and not known to be flushed

shared == <<queue, rows, scheduled>>
thread == <<arrived, receiving>>
locals == <<current, batch, unflushed>>
outcome == <<ingested, refused, buffered>>
vars == <<queue, rows, scheduled, closing, arrived, receiving, callbacks, task, cancelled,
          current, batch, unflushed, unpersisted, failures, ingested, refused, buffered>>

Init ==
    /\ queue = <<>> /\ rows = 0 /\ scheduled = FALSE
    /\ closing = FALSE
    /\ arrived = 0 /\ receiving = FALSE
    /\ callbacks = 0
    /\ task = "none" /\ cancelled = FALSE
    /\ current = 0 /\ batch = 0 /\ unflushed = FALSE
    /\ unpersisted = 0 /\ failures = 0
    /\ ingested = {} /\ refused = {} /\ buffered = {}

(***************************************************************************)
(* The thread of the MQTT client (_on_message).                            *)
(***************************************************************************)

\* It looks at the flag first, without the lock.
Arrive ==
    /\ ~receiving /\ ~closing /\ arrived < MaxMessages
    /\ receiving' = TRUE /\ arrived' = arrived + 1
    /\ UNCHANGED <<shared, closing, callbacks, task, cancelled, locals, unpersisted,
                   failures, outcome>>

Overflow ==
    /\ receiving /\ rows >= MaxRows
    /\ receiving' = FALSE
    /\ unpersisted' = unpersisted + 1
    /\ UNCHANGED <<shared, closing, arrived, callbacks, task, cancelled, locals, failures,
                   outcome>>

Enqueue ==
    /\ receiving /\ rows < MaxRows
    /\ receiving' = FALSE
    /\ queue' = Append(queue, arrived) /\ rows' = rows + 1
    /\ scheduled' = TRUE
    /\ callbacks' = IF scheduled THEN callbacks ELSE callbacks + 1
    /\ UNCHANGED <<closing, arrived, task, cancelled, locals, unpersisted, failures, outcome>>

(***************************************************************************)
(* The event loop.                                                         *)
(***************************************************************************)

\* The task is suspended, so the loop may run something else.
Awaiting == {"created", "handling", "ordering", "flushing"}
LoopFree == task \in Awaiting \cup {"none"}

\* _discard_dispatch_queue
Discard ==
    /\ unpersisted' = unpersisted + Len(queue)
    /\ rows' = rows - Len(queue)
    /\ queue' = <<>>

StartDispatch ==
    /\ callbacks > 0 /\ LoopFree
    /\ callbacks' = callbacks - 1
    /\ IF closing
       THEN Discard /\ scheduled' = FALSE /\ UNCHANGED <<task, cancelled>>
       ELSE /\ task' = "created" /\ cancelled' = FALSE
            /\ UNCHANGED <<shared, unpersisted>>
    /\ UNCHANGED <<closing, thread, locals, failures, outcome>>

Goto(label) == task' = label

\* _dispatch starts, or goes round its loop.
Enter ==
    /\ task = "created" /\ ~cancelled
    /\ Goto("top") /\ unflushed' = FALSE
    /\ UNCHANGED <<shared, closing, thread, callbacks, cancelled, current, batch, unpersisted,
                   failures, outcome>>

Top ==
    /\ task = "top"
    /\ Goto(IF closing THEN "ending" ELSE "popping")
    /\ batch' = 0
    /\ UNCHANGED <<shared, closing, thread, callbacks, cancelled, current, unflushed, unpersisted,
                   failures, outcome>>

Pop ==
    /\ task = "popping"
    /\ IF queue # <<>> /\ batch < MaxRows
       THEN /\ current' = Head(queue) /\ queue' = Tail(queue)
            /\ batch' = batch + 1
            /\ Goto("handling")
       ELSE /\ Goto(IF unflushed THEN "ordering" ELSE "checking")
            /\ UNCHANGED <<queue, current, batch>>
    /\ UNCHANGED <<rows, scheduled, closing, thread, callbacks, cancelled, unflushed, unpersisted,
                   failures, outcome>>

\* An exception out of the pipeline does not say how far the message came.
Abort == \E taken \in SUBSET {current} :
            /\ ingested' = ingested \cup taken
            /\ buffered' = buffered \cup taken

\* _handle_message: taken by the pipeline, refused by the admission, or failed.
Handle ==
    /\ task = "handling" /\ ~cancelled
    /\ \/ /\ ingested' = ingested \cup {current} /\ buffered' = buffered \cup {current}
          /\ unflushed' = TRUE
          /\ UNCHANGED <<refused, unpersisted>>
       \/ /\ refused' = refused \cup {current}
          /\ UNCHANGED <<ingested, buffered, unflushed, unpersisted>>
       \/ unpersisted' = unpersisted + 1 /\ Abort /\ UNCHANGED <<refused, unflushed>>
    /\ Goto("handled")
    /\ UNCHANGED <<shared, closing, thread, callbacks, cancelled, current, batch, failures>>

HandleCancelled ==
    /\ task = "handling" /\ cancelled
    /\ unpersisted' = unpersisted + 1 /\ Abort
    /\ Goto("handled")
    /\ UNCHANGED <<shared, closing, thread, callbacks, cancelled, locals, failures, refused>>

\* The reservation of a message is kept until it has been handled.
Settle ==
    /\ task = "handled"
    /\ rows' = rows - 1
    /\ Goto(IF cancelled THEN "ending" ELSE "popping")
    /\ UNCHANGED <<queue, scheduled, closing, thread, callbacks, cancelled, locals, unpersisted,
                   failures, outcome>>

\* One wait for late messages, then the buffer is flushed.
Order ==
    /\ task = "ordering" /\ ~cancelled
    /\ Goto("flushing")
    /\ UNCHANGED <<shared, closing, thread, callbacks, cancelled, locals, unpersisted, failures,
                   outcome>>

Flush ==
    /\ task = "flushing" /\ ~cancelled
    /\ \/ buffered' = {} /\ UNCHANGED failures
       \/ failures' = failures + 1 /\ UNCHANGED buffered
    /\ unflushed' = FALSE
    /\ Goto("checking")
    /\ UNCHANGED <<shared, closing, thread, callbacks, cancelled, current, batch, unpersisted,
                   ingested, refused>>

FlushCancelled ==
    /\ task \in {"ordering", "flushing"} /\ cancelled
    /\ Goto("ending")
    /\ UNCHANGED <<shared, closing, thread, callbacks, cancelled, locals, unpersisted, failures,
                   outcome>>

Check ==
    /\ task = "checking"
    /\ Goto(IF queue = <<>> THEN "ending" ELSE "top")
    /\ UNCHANGED <<shared, closing, thread, callbacks, cancelled, locals, unpersisted, failures,
                   outcome>>

\* Mutant: the queue is not looked at again.
EndUnchecked ==
    /\ task = "ending"
    /\ failures' = IF unflushed THEN failures + 1 ELSE failures
    /\ IF closing THEN Discard ELSE UNCHANGED <<queue, rows, unpersisted>>
    /\ scheduled' = FALSE
    /\ Goto("none") /\ unflushed' = FALSE
    /\ UNCHANGED <<closing, thread, callbacks, cancelled, current, batch, outcome>>

\* Mutant: an unfinished flush is not counted.
EndQuietly ==
    /\ task = "ending"
    /\ IF closing THEN Discard ELSE UNCHANGED <<queue, rows, unpersisted>>
    /\ IF queue # <<>> /\ ~closing
       THEN callbacks' = callbacks + 1 /\ UNCHANGED scheduled
       ELSE scheduled' = FALSE /\ UNCHANGED callbacks
    /\ Goto("none") /\ unflushed' = FALSE
    /\ UNCHANGED <<closing, thread, cancelled, current, batch, failures, outcome>>

\* The finally block.  A message that came in after the last check keeps its
\* reservation and is handed to the next task.
End ==
    /\ task = "ending"
    /\ failures' = IF unflushed THEN failures + 1 ELSE failures
    /\ IF closing THEN Discard ELSE UNCHANGED <<queue, rows, unpersisted>>
    /\ IF queue # <<>> /\ ~closing
       THEN callbacks' = callbacks + 1 /\ UNCHANGED scheduled
       ELSE scheduled' = FALSE /\ UNCHANGED callbacks
    /\ Goto("none") /\ unflushed' = FALSE
    /\ UNCHANGED <<closing, thread, cancelled, current, batch, outcome>>

\* A task that is cancelled before its first step never reaches its finally block.
NeverRan ==
    /\ task = "created" /\ cancelled
    /\ Goto("none")
    /\ UNCHANGED <<shared, closing, thread, callbacks, cancelled, locals, unpersisted, failures,
                   outcome>>

\* disconnect, at the shutdown of the process.
Disconnect ==
    /\ ~closing /\ LoopFree
    /\ closing' = TRUE
    /\ Discard
    /\ cancelled' = (task # "none")
    /\ UNCHANGED <<scheduled, thread, callbacks, task, locals, failures, outcome>>

Dispatch ==
    \/ Enter \/ Top \/ Pop \/ Handle \/ HandleCancelled \/ Settle \/ Order \/ Flush
    \/ FlushCancelled \/ Check \/ End \/ NeverRan

Next == Arrive \/ Overflow \/ Enqueue \/ StartDispatch \/ Dispatch \/ Disconnect

Spec == Init /\ [][Next]_vars

FairSpec ==
    /\ Spec
    /\ WF_vars(Overflow \/ Enqueue) /\ WF_vars(StartDispatch) /\ WF_vars(Dispatch)

(***************************************************************************)
(* Properties.                                                             *)
(***************************************************************************)

Messages == 1 .. MaxMessages
Labels == Awaiting \cup {"none", "top", "popping", "handled", "checking", "ending"}

TypeOK ==
    /\ queue \in Seq(Messages) /\ rows \in Nat /\ scheduled \in BOOLEAN
    /\ closing \in BOOLEAN
    /\ arrived \in 0 .. MaxMessages /\ receiving \in BOOLEAN
    /\ callbacks \in Nat
    /\ task \in Labels /\ cancelled \in BOOLEAN
    /\ current \in 0 .. MaxMessages /\ batch \in 0 .. MaxRows /\ unflushed \in BOOLEAN
    /\ unpersisted \in Nat /\ failures \in Nat
    /\ ingested \subseteq Messages /\ refused \subseteq Messages /\ buffered \subseteq ingested

InFlight == IF task \in {"handling", "handled"} THEN 1 ELSE 0

\* The memory the intake holds is bounded: the reservations are exactly the queued
\* messages and the one that is being handled.
RowsBounded == rows = Len(queue) + InFlight /\ rows <= MaxRows

\* There is never more than one dispatcher, running or about to be started.
OneDispatcher == callbacks + (IF task = "none" THEN 0 ELSE 1) <= 1

\* No wake-up is lost between the thread and the loop: while the intake is open, a
\* queued message has a dispatcher that will look at the queue again.
NoLostWakeup ==
    ~closing /\ queue # <<>> => scheduled /\ (callbacks > 0 \/ task # "none")

Queued == {queue[i] : i \in 1 .. Len(queue)}
Lost ==
    (1 .. arrived) \ (Queued \cup ingested \cup refused
                        \cup (IF receiving THEN {arrived} ELSE {})
                        \cup (IF task = "handling" THEN {current} ELSE {}))

\* A gap never goes unnoticed: there are at least as many counted rows as messages
\* that neither reached the pipeline nor still wait for it.
LossCounted == Cardinality(Lost) <= unpersisted

\* dispatch_gap_detected
GapReported == failures > 0 \/ unpersisted > 0

\* An event that may still lie in the ordering buffer is about to be flushed, or
\* the status reports a gap.
UnflushedCounted == buffered # {} => unflushed \/ GapReported

\* Between the thread and the loop nothing is lost unseen: reservations are exact and
\* bounded, one dispatcher looks at the queue while there is something in it, and what
\* was dropped or may stay unflushed is counted.
IntakeSafe ==
    /\ TypeOK /\ RowsBounded /\ OneDispatcher /\ NoLostWakeup
    /\ LossCounted /\ UnflushedCounted

\* After the shutdown nothing is retained any more.
NothingRetained == closing /\ ~receiving /\ callbacks = 0 /\ task = "none" => rows = 0

\* Every message leaves the queue, whatever becomes of the messages before it.  A
\* shutdown clears the queue; what the thread adds after that is excepted.
QueueDrains == \A m \in Messages : m \in Queued ~> m \notin Queued \/ closing

\* What was ingested is flushed in the end, or the status reports a gap.
BufferFlushed == buffered # {} ~> buffered = {} \/ GapReported

=============================================================================
