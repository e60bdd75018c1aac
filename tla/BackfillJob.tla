---------------------------- MODULE BackfillJob ----------------------------
(***************************************************************************)
(* Historical backfill of one session (OpenF1HistoricalBackfillService.run *)
(* and the adapter it drives): an advisory lease on a database connection, *)
(* a durable job row with a checkpoint per endpoint, a durable ingestion   *)
(* run per endpoint with a heartbeat task beside it, and the room's        *)
(* finalisation.  Workers crash, are cancelled, lose the connection that   *)
(* holds their lease, or stall until the startup sweep of another process  *)
(* declares their run interrupted.                                         *)
(***************************************************************************)
EXTENDS Integers, Sequences, FiniteSets

CONSTANTS
    Workers,
    Forced,      \* workers that retry failed jobs (the reconciler)
    Order,       \* the endpoints, in the order they are fetched
    MaxTrouble   \* bound on crashes, cancellations, stalls and lost leases

Endpoints == {Order[i] : i \in DOMAIN Order}
None == "none"

JobAssumption ==
    /\ None \notin Workers /\ Forced \subseteq Workers
    /\ Order \in Seq(STRING) /\ None \notin Endpoints
    /\ MaxTrouble \in Nat

VARIABLES
    job,      \* the row of openf1_backfill_jobs
    lease,    \* the worker whose connection holds the advisory lock
    pc,       \* worker -> what it does next
    at,       \* worker -> index of its endpoint
    known,    \* worker -> checkpoints it read when it prepared the job
    got,      \* worker -> whether the endpoint answered with rows
    partial,  \* worker -> what it made of the job at the end
    run,      \* worker -> [state, fresh] of its last ingestion run row
    beat,     \* worker -> whether its heartbeat was refused and not yet handled
    stored,   \* endpoints with durable rows
    room,     \* [avail, ing, replay]
    trouble

vars == <<job, lease, pc, at, known, got, partial, run, beat, stored, room, trouble>>
own == <<at, known, got, partial>>

NoJob == [status |-> None, completed |-> {}, failed |-> None]
NoRun == [state |-> None, fresh |-> FALSE]

Init ==
    /\ job = NoJob
    /\ lease = None
    /\ pc = [w \in Workers |-> "idle"]
    /\ at = [w \in Workers |-> 1]
    /\ known = [w \in Workers |-> {}]
    /\ got = [w \in Workers |-> FALSE]
    /\ partial = [w \in Workers |-> FALSE]
    /\ run = [w \in Workers |-> NoRun]
    /\ beat = [w \in Workers |-> FALSE]
    /\ stored = {}
    /\ room = [avail |-> 0, ing |-> "pending", replay |-> FALSE]
    /\ trouble = 0

Goto(w, step) == pc' = [pc EXCEPT ![w] = step]
EndpointOf(w) == Order[at[w]]
Release(w) == IF lease = w THEN None ELSE lease

-----------------------------------------------------------------------------
(* The job *)

\* An incomplete room is a candidate; pg_try_advisory_lock
Acquire(w) ==
    /\ pc[w] = "idle"
    /\ lease = None
    /\ room.ing # "ready"
    /\ lease' = w
    /\ Goto(w, "prepare")
    /\ UNCHANGED <<job, own, run, beat, stored, room, trouble>>

\* Mutant: a new attempt starts from nothing
ReopenedEmpty(j) == [j EXCEPT !.status = "running", !.failed = None, !.completed = {}]

\* The checkpoints survive, the failure is forgotten
Reopened(j) == [j EXCEPT !.status = "running", !.failed = None]

Prepare(w) ==
    /\ pc[w] = "prepare"
    /\ IF job.status = "failed" /\ w \notin Forced
       THEN /\ lease' = Release(w)
            /\ Goto(w, "idle")
            /\ UNCHANGED <<job, at, known>>
       ELSE /\ job' = Reopened(job)
            /\ known' = [known EXCEPT ![w] = job.completed]
            /\ at' = [at EXCEPT ![w] = 1]
            /\ Goto(w, "next")
            /\ UNCHANGED lease
    /\ UNCHANGED <<got, partial, run, beat, stored, room, trouble>>

\* A resumed job skips the endpoints that were complete when it was prepared
Skip(w) ==
    /\ pc[w] = "next"
    /\ at[w] <= Len(Order)
    /\ EndpointOf(w) \in known[w]
    /\ at' = [at EXCEPT ![w] = @ + 1]
    /\ UNCHANGED <<job, lease, pc, known, got, partial, run, beat, stored, room, trouble>>

\* start_endpoint, then the run row
Start(w) ==
    /\ pc[w] = "next"
    /\ at[w] <= Len(Order)
    /\ EndpointOf(w) \notin known[w]
    /\ run' = [run EXCEPT ![w] = [state |-> "running", fresh |-> TRUE]]
    /\ Goto(w, "fetch")
    /\ UNCHANGED <<job, lease, own, beat, stored, room, trouble>>

\* One endpoint that fails with nothing fetched fails its run
Fetch(w, rows) ==
    /\ pc[w] = "fetch"
    /\ got' = [got EXCEPT ![w] = rows]
    /\ Goto(w, IF rows THEN "store" ELSE "finish")
    /\ UNCHANGED <<job, lease, at, known, partial, run, beat, stored, room, trouble>>

FetchFails(w) ==
    /\ pc[w] = "fetch"
    /\ Goto(w, "except")
    /\ UNCHANGED <<job, lease, own, run, beat, stored, room, trouble>>

\* processor.ingest_batch; rows stored before it fails stay stored
Store(w) ==
    /\ pc[w] = "store"
    /\ stored' = stored \cup {EndpointOf(w)}
    /\ \/ Goto(w, "finish")
       \/ trouble < MaxTrouble /\ Goto(w, "except")
    /\ trouble' = IF pc'[w] = "except" THEN trouble + 1 ELSE trouble
    /\ UNCHANGED <<job, lease, own, run, beat, room>>

\* The run row takes one final status, from running only
Ended(r, state) == IF r.state = "running" THEN [r EXCEPT !.state = state] ELSE r

\* Writing it may fail as well
Write(w, state) ==
    \/ /\ run' = [run EXCEPT ![w] = Ended(@, state)]
       /\ UNCHANGED trouble
    \/ /\ trouble < MaxTrouble
       /\ trouble' = trouble + 1
       /\ UNCHANGED run

Finish(w) ==
    /\ pc[w] = "finish"
    /\ Write(w, "completed")
    /\ Goto(w, IF trouble' # trouble THEN "except"
               ELSE IF run[w].state = "running" THEN "complete" ELSE "fail")
    /\ UNCHANGED <<job, lease, own, beat, stored, room>>

Except(w) ==
    /\ pc[w] = "except"
    /\ Write(w, "failed")
    /\ Goto(w, "fail")
    /\ UNCHANGED <<job, lease, own, beat, stored, room>>

\* Mutant: an endpoint that answered with nothing is checkpointed too
CheckpointAnyway(done, e, rows) == done \cup {e}

\* complete_endpoint: only rows make a checkpoint
Checkpoint(done, e, rows) == IF rows THEN done \cup {e} ELSE done

Complete(w) ==
    /\ pc[w] = "complete"
    /\ job' = [job EXCEPT !.status = "running",
                          !.completed = Checkpoint(@, EndpointOf(w), got[w])]
    /\ at' = [at EXCEPT ![w] = @ + 1]
    /\ Goto(w, "next")
    /\ UNCHANGED <<lease, known, got, partial, run, beat, stored, room, trouble>>

FailedAt(w) == EndpointOf(w)

Fail(w) ==
    /\ pc[w] = "fail"
    /\ job' = [job EXCEPT !.status = "failed", !.failed = FailedAt(w)]
    /\ at' = [at EXCEPT ![w] = @ + 1]
    /\ Goto(w, "next")
    /\ UNCHANGED <<lease, known, got, partial, run, beat, stored, room, trouble>>

Incomplete(j) == j.failed # None \/ ~(Endpoints \subseteq j.completed)

Refresh(w) ==
    /\ pc[w] = "next"
    /\ at[w] > Len(Order)
    /\ partial' = [partial EXCEPT ![w] = Incomplete(job)]
    /\ Goto(w, "finalize")
    /\ UNCHANGED <<job, lease, at, known, got, run, beat, stored, room, trouble>>

-----------------------------------------------------------------------------
(* The room *)

\* OpenF1RoomFinalizer.classify over what is stored: unavailable, results,
\* timing only, enough for a replay
Classify(data) ==
    IF {"sessions", "drivers", "laps"} \subseteq data THEN 3
    ELSE IF "laps" \in data THEN 2
    ELSE IF "session_result" \in data THEN 1
    ELSE 0

\* finalize locks the row; the grade never falls
Finalize(w) ==
    LET best == IF Classify(stored) > room.avail THEN Classify(stored) ELSE room.avail IN
    /\ pc[w] = "finalize"
    /\ room' = [avail |-> best,
                ing |-> IF best = 0 THEN "unavailable"
                        ELSE IF best < 3 \/ partial[w] THEN "partial" ELSE "ready",
                replay |-> best >= 2]
    /\ Goto(w, "close")
    /\ UNCHANGED <<job, lease, own, run, beat, stored, trouble>>

Close(w) ==
    /\ pc[w] = "close"
    /\ job' = [job EXCEPT !.status = IF partial[w] THEN "partial" ELSE "completed"]
    /\ lease' = Release(w)
    /\ Goto(w, "idle")
    /\ UNCHANGED <<own, run, beat, stored, room, trouble>>

-----------------------------------------------------------------------------
(* The heartbeat and the sweep *)

\* The owner's last steps set "stopping" before they touch the run row
Stopping(w) == pc[w] \notin {"fetch", "store"}

\* The heartbeat's statement; an error counts as a refusal
Beat(w) ==
    /\ ~Stopping(w)
    /\ ~beat[w]
    /\ \/ /\ run[w].state = "running"
          /\ run' = [run EXCEPT ![w].fresh = TRUE]
          /\ UNCHANGED <<beat, trouble>>
       \/ /\ run[w].state # "running" \/ trouble < MaxTrouble
          /\ beat' = [beat EXCEPT ![w] = TRUE]
          /\ trouble' = IF run[w].state = "running" THEN trouble + 1 ELSE trouble
          /\ UNCHANGED run
    /\ UNCHANGED <<job, lease, pc, own, stored, room>>

\* What the task makes of the refusal, some time later: it cancels the owner,
\* which records the run as failed, unless the owner is ending by itself
Notice(w) ==
    /\ beat[w]
    /\ beat' = [beat EXCEPT ![w] = FALSE]
    /\ IF Stopping(w) THEN UNCHANGED <<pc, run, trouble>>
       ELSE Write(w, "failed") /\ Goto(w, "fail")
    /\ UNCHANGED <<job, lease, own, stored, room>>

Stall(w) ==
    /\ trouble < MaxTrouble
    /\ run[w].state = "running" /\ run[w].fresh
    /\ run' = [run EXCEPT ![w].fresh = FALSE]
    /\ trouble' = trouble + 1
    /\ UNCHANGED <<job, lease, pc, own, beat, stored, room>>

\* reconcile_stale_runs at the start of a process
Sweep(w) ==
    /\ run[w].state = "running" /\ ~run[w].fresh
    /\ run' = [run EXCEPT ![w].state = "failed"]
    /\ UNCHANGED <<job, lease, pc, own, beat, stored, room, trouble>>

-----------------------------------------------------------------------------
(* Trouble *)

Crash(w) ==
    /\ trouble < MaxTrouble
    /\ pc[w] # "idle"
    /\ Goto(w, "idle")
    /\ lease' = Release(w)
    /\ beat' = [beat EXCEPT ![w] = FALSE]
    /\ trouble' = trouble + 1
    /\ UNCHANGED <<job, own, run, stored, room>>

\* CancelledError leaves the loop as well: the job stays as it is
Cancel(w) ==
    /\ trouble < MaxTrouble
    /\ pc[w] \in {"fetch", "store"}
    /\ run' = [run EXCEPT ![w] = Ended(@, "failed")]
    /\ Goto(w, "idle")
    /\ lease' = Release(w)
    /\ beat' = [beat EXCEPT ![w] = FALSE]
    /\ trouble' = trouble + 1
    /\ UNCHANGED <<job, own, stored, room>>

\* The connection that holds the lock dies, its worker goes on
DropLease ==
    /\ trouble < MaxTrouble
    /\ lease # None
    /\ lease' = None
    /\ trouble' = trouble + 1
    /\ UNCHANGED <<job, pc, own, run, beat, stored, room>>

Work(w) ==
    \/ Prepare(w) \/ Skip(w) \/ Start(w) \/ Store(w) \/ Finish(w) \/ Except(w) \/ Complete(w)
    \/ Fail(w) \/ Refresh(w) \/ Finalize(w) \/ Close(w)

Next ==
    \/ \E w \in Workers :
        \/ Acquire(w) \/ Work(w) \/ FetchFails(w) \/ Beat(w) \/ Notice(w)
        \/ Stall(w) \/ Sweep(w) \/ Crash(w) \/ Cancel(w)
        \/ \E rows \in BOOLEAN : Fetch(w, rows)
    \/ DropLease

Spec == Init /\ [][Next]_vars

\* Passes keep coming, a worker goes on, and the provider answers with rows
\* again and again
FairSpec ==
    /\ Spec
    /\ \A w \in Workers :
        /\ WF_vars(Work(w)) /\ WF_vars(Notice(w))
        /\ \A i \in DOMAIN Order : SF_vars(at[w] = i /\ Fetch(w, TRUE))
    /\ \A w \in Forced : SF_vars(Acquire(w))

-----------------------------------------------------------------------------
Steps == {"idle", "prepare", "next", "fetch", "store", "finish", "except", "complete", "fail",
          "finalize", "close"}

TypeOK ==
    /\ job.status \in {None, "running", "failed", "partial", "completed"}
    /\ job.completed \subseteq Endpoints /\ job.failed \in Endpoints \cup {None}
    /\ lease \in Workers \cup {None}
    /\ pc \in [Workers -> Steps]
    /\ at \in [Workers -> 1 .. Len(Order) + 1]
    /\ \A w \in Workers : run[w].state \in {None, "running", "completed", "failed"}
    /\ room.avail \in 0 .. 3

\* A resumed job may trust a checkpoint: the rows of its endpoint are stored,
\* whatever became of the worker that wrote them.
CheckpointsBacked == job.completed \subseteq stored

\* A worker checkpoints only what its run says completed, and reports as failed
\* nothing its run says completed: a late heartbeat never turns one into the
\* other, and a run swept away meanwhile never counts as a success.
RunsAgree ==
    \A w \in Workers :
        /\ pc[w] = "complete" => run[w].state = "completed"
        /\ pc[w] = "fail" => run[w].state # "completed"

\* A job called completed and a room called ready have every endpoint, even if
\* two workers ran at once after a lease was lost.
WholeIsWhole ==
    job.status = "completed" \/ room.ing = "ready" => Endpoints \subseteq job.completed

\* No checkpoint is lost, whoever rewrites the row.
CheckpointsKept == [][job.completed \subseteq job'.completed]_vars

\* Every endpoint is fetched in the end, whatever failed on the way.
AllFetched == <>[](Endpoints \subseteq job.completed /\ room.ing = "ready")
=============================================================================
