---------------------------- MODULE WorkerDuties ----------------------------
(***************************************************************************)
(* Which process runs the duties of the ingestor (services/container.py,   *)
(* the lifespans of main.py and ingestor.py).  The dedicated ingestor does *)
(* not start without the singleton lease; a combined process serves anyway *)
(* and tries for the lease in a task of its own until it has it, and until *)
(* every duty has been started.  close() cancels the tasks one by one and  *)
(* gives the lease up last.  How the lease itself is taken is the subject  *)
(* of WriterLocks: here it is granted, refused or found lost in one step.  *)
(*                                                                         *)
(* Bounds: MaxFaults refusals for writes in flight and failing queries,    *)
(* MaxBroken lease connections that die under a running process.           *)
(***************************************************************************)
EXTENDS Naturals, Sequences

CONSTANTS
    Ingestors,  \* processes with the role ingestor
    Combined,   \* processes that also serve
    Nobody,
    MaxFaults, MaxBroken

Processes == Ingestors \cup Combined

WorkerAssumption ==
    /\ Nobody \notin Processes /\ Ingestors \cap Combined = {}
    /\ {MaxFaults, MaxBroken} \subseteq Nat

VARIABLES
    holder,   \* process whose connection holds the advisory lock
    owned,    \* processes that remember a lease connection
    at,       \* where the lifespan of each process is
    closing,  \* how far close() is
    retry,    \* where _lease_retry_task is
    running,  \* the tasks of each process, and its MQTT client
    faults, broken

vars == <<holder, owned, at, closing, retry, running, faults, broken>>
lease == <<holder, owned>>
counts == <<faults, broken>>

LiveDuties == {"mqtt", "catalog", "reconcile"}
WorkerTasks == LiveDuties \cup {"recovery"}

Duties(p) == running[p] \cap WorkerTasks
Whole(p) == Duties(p) = WorkerTasks

Init ==
    /\ holder = Nobody /\ owned = {}
    /\ at = [p \in Processes |-> "off"] /\ closing = [p \in Processes |-> 0]
    /\ retry = [p \in Processes |-> "none"] /\ running = [p \in Processes |-> {}]
    /\ faults = 0 /\ broken = 0

Fault == faults < MaxFaults /\ faults' = faults + 1

-----------------------------------------------------------------------------
(* The lifespan up to its yield.                                           *)

FirstStep(p) == IF p \in Ingestors THEN "lease" ELSE "runs"

Start(p) ==
    /\ at[p] = "off" /\ at' = [at EXCEPT ![p] = FirstStep(p)]
    /\ UNCHANGED <<lease, closing, retry, running, counts>>

\* reconcile_interrupted_ingestion_runs.
SweepRuns(p) ==
    /\ at[p] = "runs"
    /\ at' = [at EXCEPT ![p] = IF p \in Ingestors THEN "recovery" ELSE "replays"]
    /\ UNCHANGED <<lease, closing, retry, running, counts>>

\* One sweep of interrupted replays now, and another one left to a task.
StartReplayRecovery(p) ==
    /\ at[p] = "replays" /\ at' = [at EXCEPT ![p] = "lease"]
    /\ running' = [running EXCEPT ![p] = @ \cup {"replays"}]
    /\ UNCHANGED <<lease, closing, retry, counts>>

DeferredReplayRecovery(p) ==
    /\ "replays" \in running[p]
    /\ running' = [running EXCEPT ![p] = @ \ {"replays"}]
    /\ UNCHANGED <<lease, at, closing, retry, counts>>

BootFails(p) ==
    /\ at[p] \in {"runs", "replays", "recovery"} /\ Fault
    /\ at' = [at EXCEPT ![p] = "close"] /\ closing' = [closing EXCEPT ![p] = 1]
    /\ UNCHANGED <<lease, retry, running, broken>>

\* acquire_ingestor_lease: a connection that is remembered is only verified,
\* and answers or raises.
Granted(p) == IF p \in owned THEN holder = p ELSE holder = Nobody
Take(p) == holder' = p /\ owned' = owned \cup {p}

BootAcquires(p) ==
    /\ at[p] = "lease" /\ Granted(p) /\ Take(p)
    /\ at' = [at EXCEPT ![p] = IF p \in Ingestors THEN "runs" ELSE "recovery"]
    /\ UNCHANGED <<closing, retry, running, counts>>

\* Held by another process, or the writes it admitted are not drained yet.
Refused(p) ==
    \/ ~Granted(p) /\ UNCHANGED faults
    \/ Granted(p) /\ p \notin owned /\ Fault

IngestorRefused(p) ==
    /\ p \in Ingestors /\ at[p] = "lease" /\ Refused(p)
    /\ at' = [at EXCEPT ![p] = "close"] /\ closing' = [closing EXCEPT ![p] = 1]
    /\ UNCHANGED <<lease, retry, running, broken>>

StartRetry(p) ==
    /\ p \in Combined /\ at[p] = "lease" /\ Refused(p)
    /\ at' = [at EXCEPT ![p] = "up"] /\ retry' = [retry EXCEPT ![p] = "try"]
    /\ UNCHANGED <<lease, closing, running, broken>>

(***************************************************************************)
(* _start_worker_duties, by the lifespan or by the retry task: the schema  *)
(* is required before the first task, and connecting waits.                *)
(***************************************************************************)
StartRecovery(p) == running' = [running EXCEPT ![p] = @ \cup {"recovery"}]
StartLive(p) == running' = [running EXCEPT ![p] = @ \cup LiveDuties]

BootRecovery(p) ==
    /\ at[p] = "recovery" /\ StartRecovery(p)
    /\ at' = [at EXCEPT ![p] = "live"]
    /\ UNCHANGED <<lease, closing, retry, counts>>

BootLive(p) ==
    /\ at[p] = "live" /\ StartLive(p)
    /\ at' = [at EXCEPT ![p] = "up"]
    /\ UNCHANGED <<lease, closing, retry, counts>>

(***************************************************************************)
(* _await_lease_and_start_worker_duties.                                   *)
(***************************************************************************)
RetryAcquires(p) ==
    /\ retry[p] = "try" /\ Granted(p) /\ Take(p)
    /\ retry' = [retry EXCEPT ![p] = "recovery"]
    /\ UNCHANGED <<at, closing, running, counts>>

RetryRefused(p) ==
    /\ retry[p] = "try" /\ Refused(p)
    /\ retry' = [retry EXCEPT ![p] = "wait"]
    /\ UNCHANGED <<lease, at, closing, running, broken>>

RetryRecovery(p) ==
    /\ retry[p] = "recovery" /\ StartRecovery(p)
    /\ retry' = [retry EXCEPT ![p] = "live"]
    /\ UNCHANGED <<lease, at, closing, counts>>

\* The schema is behind, or cannot be read.
RetryFails(p) ==
    /\ retry[p] = "recovery" /\ Fault
    /\ retry' = [retry EXCEPT ![p] = "wait"]
    /\ UNCHANGED <<lease, at, closing, running, broken>>

RetryLive(p) ==
    /\ retry[p] = "live" /\ StartLive(p)
    /\ retry' = [retry EXCEPT ![p] = "done"]
    /\ UNCHANGED <<lease, at, closing, counts>>

\* Mutant: nothing tries again.
NeverAgain(p) ==
    /\ retry[p] = "wait" /\ retry' = [retry EXCEPT ![p] = "done"]
    /\ UNCHANGED <<lease, at, closing, running, counts>>

TryAgain(p) ==
    /\ retry[p] = "wait" /\ retry' = [retry EXCEPT ![p] = "try"]
    /\ UNCHANGED <<lease, at, closing, running, counts>>

Retry(p) ==
    \/ RetryAcquires(p) \/ RetryRefused(p) \/ RetryRecovery(p) \/ RetryFails(p)
    \/ RetryLive(p) \/ TryAgain(p)

-----------------------------------------------------------------------------
(* The end of a process.                                                   *)

Shutdown(p) ==
    /\ at[p] = "up"
    /\ at' = [at EXCEPT ![p] = "close"] /\ closing' = [closing EXCEPT ![p] = 1]
    /\ UNCHANGED <<lease, retry, running, counts>>

LeaseFirst == <<"lease", "retry", "recovery", "replays", "reconcile", "catalog", "mqtt">>

CloseOrder == <<"retry", "recovery", "replays", "reconcile", "catalog", "mqtt", "lease">>

GiveUp(p) ==
    /\ owned' = owned \ {p}
    /\ holder' = IF holder = p THEN Nobody ELSE holder

\* Each task is cancelled and waited for, in turn.
Close(p) ==
    /\ at[p] = "close"
    /\ LET what == CloseOrder[closing[p]]
           last == closing[p] = Len(CloseOrder)
       IN  /\ retry' = IF what = "retry" THEN [retry EXCEPT ![p] = "none"] ELSE retry
           /\ running' = [running EXCEPT ![p] = @ \ {what}]
           /\ IF what = "lease" THEN GiveUp(p) ELSE UNCHANGED lease
           /\ closing' = [closing EXCEPT ![p] = IF last THEN 0 ELSE @ + 1]
           /\ at' = IF last THEN [at EXCEPT ![p] = "off"] ELSE at
    /\ UNCHANGED counts

\* A killed process: PostgreSQL ends its session and frees the lock.
Crash(p) ==
    /\ at[p] # "off" /\ GiveUp(p)
    /\ at' = [at EXCEPT ![p] = "off"] /\ closing' = [closing EXCEPT ![p] = 0]
    /\ retry' = [retry EXCEPT ![p] = "none"] /\ running' = [running EXCEPT ![p] = {}]
    /\ UNCHANGED counts

\* The lease connection dies, and nobody has asked it since.
LoseSocket(p) ==
    /\ holder = p /\ broken < MaxBroken
    /\ holder' = Nobody /\ broken' = broken + 1
    /\ UNCHANGED <<owned, at, closing, retry, running, faults>>

Boot(p) ==
    \/ SweepRuns(p) \/ StartReplayRecovery(p) \/ BootFails(p) \/ BootAcquires(p)
    \/ IngestorRefused(p) \/ StartRetry(p) \/ BootRecovery(p) \/ BootLive(p)

Next == \E p \in Processes :
    \/ Start(p) \/ Boot(p) \/ DeferredReplayRecovery(p) \/ Retry(p)
    \/ Shutdown(p) \/ Close(p) \/ Crash(p) \/ LoseSocket(p)

Spec == Init /\ [][Next]_vars

\* The event loop runs the tasks of a process; nobody has to start or stop one.
FairSpec == Spec /\ \A p \in Processes :
    WF_vars(Boot(p)) /\ WF_vars(Retry(p)) /\ WF_vars(Close(p))

-----------------------------------------------------------------------------
(* Properties.                                                             *)

TypeOK ==
    /\ holder \in Processes \cup {Nobody} /\ owned \subseteq Processes
    /\ at \in [Processes -> {"off", "runs", "replays", "lease", "recovery", "live", "up", "close"}]
    /\ closing \in [Processes -> 0 .. Len(CloseOrder)]
    /\ retry \in [Processes -> {"none", "try", "recovery", "live", "wait", "done"}]
    /\ running \in [Processes -> SUBSET (WorkerTasks \cup {"replays"})]
    /\ faults \in 0 .. MaxFaults /\ broken \in 0 .. MaxBroken

\* A process that has ended left no task, no client and no lease behind: a
\* retry that wins the lease while the process closes starts nothing that the
\* rest of close() does not stop (container.py, close).
ClosedIsQuiet == \A p \in Processes : at[p] = "off" =>
    running[p] = {} /\ retry[p] = "none" /\ p \notin owned /\ holder # p

\* Whoever runs a duty holds the lock, from its first task to its last, while
\* no lease connection dies (README: worker duties behind a singleton lease).
DutyHasLease == broken = 0 => \A p \in Processes : Duties(p) # {} => holder = p

\* A process that serves and no longer tries for the lease runs every duty.
UpIsWhole == \A p \in Processes :
    at[p] = "up" /\ retry[p] \in {"none", "done"} => Whole(p)

\* "A background retry picks it up once the outgoing instance releases it": a
\* combined process that waits for the lease does not wait for ever while the
\* lock is free (container.py, start_worker_duties_when_leased).
RetryPicksUp == \A p \in Combined :
    (at[p] = "up" /\ holder = Nobody)
        ~> (Whole(p) \/ at[p] # "up" \/ holder \in Processes \ {p})

\* "Only the existing singleton worker may sweep pending critical work"
\* (container.py, start_intelligence_recovery).
OneSweeper == \A p, q \in Processes :
    "recovery" \in running[p] \cap running[q] => p = q
=============================================================================
