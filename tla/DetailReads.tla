---------------------------- MODULE DetailReads -----------------------------
(***************************************************************************)
(* Who reads the factual history of a session (services/history_details.py,*)
(* HistoryDetailReader.read and close; api/history_routes.py).  Callers    *)
(* that ask for the same thing share one task, few tasks run at a time and *)
(* nobody queues.  A caller that disconnects or runs out of time detaches; *)
(* the last one to detach cancels the task, which then takes some time to  *)
(* end and keeps its place until it has.  What a task reads is the subject *)
(* of DetailHistory.                                                       *)
(***************************************************************************)
EXTENDS Naturals, FiniteSets

CONSTANTS
    Callers,    \* requests
    Keys,       \* what may be asked for: session, selection, view, fence
    Reads,      \* identities for InflightRead objects
    MaxTasks,   \* tasks at a time: 2
    MaxPerTask, \* callers of one task: 4
    MaxWaiting, \* callers of all tasks: 8
    NoRead

ASSUME ReadsAssumption ==
    /\ {MaxTasks, MaxPerTask, MaxWaiting} \subseteq Nat \ {0}
    /\ MaxTasks * MaxPerTask <= MaxWaiting /\ NoRead \notin Reads

VARIABLES
    inflight, \* _inflight: key -> the read that is registered for it
    task,     \* read -> its task: new, running, cancelling, result, cancelled
    caller,   \* caller -> idle, waiting, leaving
    read,     \* caller -> the read it waits for
    ended,    \* how the last request to end has ended
    closed,
    cached    \* keys whose results are remembered

vars == <<inflight, task, caller, read, ended, closed, cached>>

Unfinished == {r \in Reads : task[r] \in {"running", "cancelling"}}
Registered == {r \in Reads : \E k \in Keys : inflight[k] = r}
Waiting(r) == {c \in Callers : caller[c] = "waiting" /\ read[c] = r}
WaitingAll == UNION {Waiting(r) : r \in Registered}

Init ==
    /\ inflight = [k \in Keys |-> NoRead] /\ task = [r \in Reads |-> "new"]
    /\ caller = [c \in Callers |-> "idle"] /\ read = [c \in Callers |-> NoRead]
    /\ ended = "none" /\ closed = FALSE /\ cached = {}

Ends(c, how) ==
    /\ caller' = [caller EXCEPT ![c] = "idle"] /\ read' = [read EXCEPT ![c] = NoRead]
    /\ ended' = how

-----------------------------------------------------------------------------
(* read().                                                                 *)

SlotFree == Cardinality(Registered) < MaxTasks

HasSeat(r) ==
    Cardinality(Waiting(r)) < MaxPerTask /\ Cardinality(WaitingAll) < MaxWaiting

Wait(c, r) ==
    /\ caller' = [caller EXCEPT ![c] = "waiting"] /\ read' = [read EXCEPT ![c] = r]
    /\ UNCHANGED ended

Join(c, k) ==
    /\ ~closed /\ caller[c] = "idle" /\ inflight[k] # NoRead
    /\ IF HasSeat(inflight[k]) THEN Wait(c, inflight[k]) ELSE Ends(c, "busy")
    /\ UNCHANGED <<inflight, task, closed, cached>>

\* A read nobody refers to any more stands for a new one.
Unused == {r \in Reads \ (Registered \cup Unfinished) : Waiting(r) = {}}

Open(c, k) ==
    /\ ~closed /\ caller[c] = "idle" /\ inflight[k] = NoRead /\ SlotFree
    /\ Unused # {}
    /\ LET r == CHOOSE r \in Unused : TRUE
       IN  /\ inflight' = [inflight EXCEPT ![k] = r]
           /\ task' = [task EXCEPT ![r] = "running"]
           /\ Wait(c, r)
    /\ UNCHANGED <<closed, cached>>

Busy(c, k) ==
    /\ caller[c] = "idle" /\ (closed \/ (inflight[k] = NoRead /\ ~SlotFree))
    /\ Ends(c, "busy")
    /\ UNCHANGED <<inflight, task, closed, cached>>

\* Mutant: whoever leaves cancels.
CancelAnyway(c, r) == task' = [task EXCEPT ![r] = IF @ = "running" THEN "cancelling" ELSE @]

\* The last caller that leaves cancels the task.
CancelUnwanted(c, r) == task' = [task EXCEPT ![r] =
    IF @ = "running" /\ Waiting(r) = {c} THEN "cancelling" ELSE @]

\* Mutant: the place is given up with the last caller.
DetachAndFree(c, r) ==
    /\ caller' = [caller EXCEPT ![c] = "leaving"]
    /\ read' = [read EXCEPT ![c] = NoRead] /\ UNCHANGED ended
    /\ inflight' = [k \in Keys |-> IF inflight[k] = r /\ Waiting(r) = {c}
                                   THEN NoRead ELSE inflight[k]]

Detach(c, r) ==
    /\ caller' = [caller EXCEPT ![c] = "leaving"]
    /\ read' = [read EXCEPT ![c] = NoRead] /\ UNCHANGED ended
    /\ UNCHANGED inflight

\* The client disconnects, or the deadline passes.
Leave(c) ==
    /\ caller[c] = "waiting"
    /\ Detach(c, read[c]) /\ CancelUnwanted(c, read[c])
    /\ UNCHANGED <<closed, cached>>

\* It waits for a cancelled task for a quarter of a second at most.
Left(c) ==
    /\ caller[c] = "leaving" /\ \E how \in {"left", "deadline"} : Ends(c, how)
    /\ UNCHANGED <<inflight, task, closed, cached>>

\* The shielded task has ended.
Wake(c) ==
    /\ caller[c] = "waiting" /\ read[c] \notin Unfinished
    /\ Ends(c, task[read[c]])
    /\ UNCHANGED <<inflight, task, closed, cached>>

-----------------------------------------------------------------------------
(* The tasks.                                                              *)

Remember(r) ==
    cached' = IF closed THEN cached ELSE cached \cup {k \in Keys : inflight[k] = r}

Finish(r) ==
    /\ task[r] = "running" /\ task' = [task EXCEPT ![r] = "result"]
    /\ Remember(r)
    /\ UNCHANGED <<inflight, caller, read, ended, closed>>

\* Its cleanup may take long, and what it remembers then comes too late.
Cancelled(r) ==
    /\ task[r] = "cancelling" /\ task' = [task EXCEPT ![r] = "cancelled"]
    /\ Remember(r) \/ UNCHANGED cached
    /\ UNCHANGED <<inflight, caller, read, ended, closed>>

\* The done callback, one turn of the event loop later.
Finished(r) ==
    /\ r \in Registered \ Unfinished
    /\ inflight' = [k \in Keys |-> IF inflight[k] = r THEN NoRead ELSE inflight[k]]
    /\ UNCHANGED <<task, caller, read, ended, closed, cached>>

Close ==
    /\ ~closed /\ closed' = TRUE /\ cached' = {}
    /\ task' = [r \in Reads |-> IF task[r] = "running" THEN "cancelling" ELSE task[r]]
    /\ UNCHANGED <<inflight, caller, read, ended>>

\* Entries expire, and the oldest make room for others.
Evict ==
    /\ \E k \in cached : cached' = cached \ {k}
    /\ UNCHANGED <<inflight, task, caller, read, ended, closed>>

Next ==
    \/ \E c \in Callers : Leave(c) \/ Left(c) \/ Wake(c)
    \/ \E c \in Callers, k \in Keys : Join(c, k) \/ Open(c, k) \/ Busy(c, k)
    \/ \E r \in Reads : Finish(r) \/ Cancelled(r) \/ Finished(r)
    \/ Close \/ Evict

Spec == Init /\ [][Next]_vars

-----------------------------------------------------------------------------
(* Properties.                                                             *)

TypeOK ==
    /\ inflight \in [Keys -> Reads \cup {NoRead}]
    /\ task \in [Reads -> {"new", "running", "cancelling", "result", "cancelled"}]
    /\ caller \in [Callers -> {"idle", "waiting", "leaving"}]
    /\ read \in [Callers -> Reads \cup {NoRead}]
    /\ ended \in {"none", "busy", "left", "deadline", "result", "cancelled"}
    /\ closed \in BOOLEAN /\ cached \subseteq Keys

\* "Two active reconstruction tasks, no queue": tasks that were cancelled and
\* have not ended count (docs/factual-history-api.md).
TasksBounded == Cardinality(Unfinished) <= MaxTasks

\* "At most 4 coalesced callers per key": no read has more than its share.
SeatsBounded == \A r \in Reads : Cardinality(Waiting(r)) <= MaxPerTask

\* No task works on for nobody: one that was not cancelled has a caller.
RunningIsWanted == \A r \in Reads : task[r] = "running" => Waiting(r) # {}

\* A caller that leaves does not take the work from the others: a task is
\* cancelled when its last caller has left, or by close().
PeersKeepTask == [][
    \A r \in Reads : task[r] = "running" /\ task'[r] = "cancelling"
        => closed' \/ Waiting(r)' = {}]_vars

\* Nothing is remembered by a closed reader: "its eventual result cannot
\* repopulate the cache".
ClosedIsEmpty == closed => cached = {}

\* Reads are shared and bounded: few tasks run, for few callers each and for nobody
\* who has left, and a reader that was closed remembers nothing.
ReadsShared ==
    /\ TypeOK /\ TasksBounded /\ SeatsBounded /\ RunningIsWanted /\ ClosedIsEmpty

\* "Actual HTTP disconnect detaches that request's waiter; a coalesced peer can
\* continue" (docs/factual-history-api.md): no caller's request ends with the
\* cancellation of a task while the reader is open.
PeerContinues == ended = "cancelled" => closed
=============================================================================
