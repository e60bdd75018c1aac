----------------------------- MODULE RoomReplay -----------------------------
(***************************************************************************)
(* Replay of one recorded room by several API processes                    *)
(* (services/room_replay.py over storage/room_repository.py).              *)
(*                                                                         *)
(* The playback row names one owner, by the token of a lease that expires  *)
(* unless it is renewed.  A process that owns it runs a worker, which plays*)
(* one event per tick, and executes the controls of its clients.  Ticks and*)
(* controls of a process exclude each other by a mutex; what keeps other   *)
(* processes away is that every write checks, under the lock of the row and*)
(* again before its commit, that the token is still there and unexpired.   *)
(*                                                                         *)
(* A process has at most one lease whose holder still runs, so its name    *)
(* stands for the token.  A fenced transaction is one step; every other    *)
(* await is a boundary between steps.                                      *)
(***************************************************************************)
EXTENDS Naturals, FiniteSets, TLC

CONSTANTS
    Procs,      \* API processes
    Clients,    \* requests in flight, one control each
    Nobody,     \* no owner token
    LastEvent,  \* number of recorded events
    Snapshot,   \* events in the latest stored snapshot of the session's state
    MaxFaults   \* bound on failing awaits, missed renewals and restarts

ASSUME NobodyAssumption == Nobody \notin Procs
ASSUME LastEventAssumption == LastEvent \in Nat
ASSUME SnapshotAssumption == Snapshot \in 0 .. LastEvent
ASSUME MaxFaultsAssumption == MaxFaults \in Nat

VARIABLES
    \* room_playback_states and race_rooms; whether the lease is unexpired
    owner, valid, position, paused, status,
    \* per process: its lease, its worker and the event it plays, the events its
    \* race state has reduced, the pauses waiting to stop the present worker
    lease, worker, at, engine, stops,
    \* per client: where its control stands, and its local variables
    pc, where, kind, target, finished, begins,
    faults

ownership == <<owner, valid>>
playback == <<position, paused, status>>
process == <<lease, worker, at, engine, stops>>
locals == <<where, kind, target, finished, begins>>
vars == <<owner, valid, position, paused, status, lease, worker, at, engine, stops,
          pc, where, kind, target, finished, begins, faults>>

\* A process that has not touched the session yet loads its latest snapshot.
Loaded == 1 .. Snapshot

Init ==
    /\ owner = Nobody /\ valid = FALSE
    /\ position = 0 /\ paused = TRUE /\ status = "archived"
    /\ lease = [p \in Procs |-> "none"]
    /\ worker = [p \in Procs |-> "none"]
    /\ at = [p \in Procs |-> 0]
    /\ engine = [p \in Procs |-> Loaded]
    /\ stops = [p \in Procs |-> {}]
    /\ pc = [c \in Clients |-> "idle"]
    /\ where = [c \in Clients |-> Nobody]
    /\ kind = [c \in Clients |-> "none"]
    /\ target = [c \in Clients |-> 0]
    /\ finished = [c \in Clients |-> FALSE]
    /\ begins = [c \in Clients |-> FALSE]
    /\ faults = 0

(***************************************************************************)
(* Helpers.                                                                *)
(***************************************************************************)

Fault == faults < MaxFaults /\ faults' = faults + 1

\* _require_replay_owner
Owns(p) == owner = p /\ valid
Claimable == owner = Nobody \/ ~valid

\* A control that uses the lease; one that holds the mutex; a tick that does.
Body == {"resetting", "clearing", "reading", "rebuilding", "placing", "settling",
         "unpausing", "launching", "pausing", "leaving"}
Ticking == {"ticking", "applied", "completing"}

At(p, labels) == {c \in Clients : where[c] = p /\ pc[c] \in labels}

\* Mutant: controls do not exclude ticks.
MutexFreeOfControls(p) == At(p, Body \cup {"entering"}) = {}

MutexFree(p) == At(p, Body \cup {"entering"}) = {} /\ worker[p] \notin Ticking

Goto(c, label) == pc' = [pc EXCEPT ![c] = label]

\* The controls of S return, or raise, to their clients.
Return(S) ==
    /\ pc' = [c \in Clients |-> IF c \in S THEN "idle" ELSE pc[c]]
    /\ kind' = [c \in Clients |-> IF c \in S THEN "none" ELSE kind[c]]
    /\ target' = [c \in Clients |-> IF c \in S THEN 0 ELSE target[c]]
    /\ finished' = [c \in Clients |-> finished[c] /\ c \notin S]
    /\ begins' = [c \in Clients |-> begins[c] /\ c \notin S]
    /\ where' = [c \in Clients |-> IF c \in S THEN Nobody ELSE where[c]]

\* The worker leaves its tick, if it is in one, for another state.
Works(p, label) ==
    /\ worker' = [worker EXCEPT ![p] = label]
    /\ at' = [at EXCEPT ![p] = 0]

ClearToken(p) ==
    /\ owner' = IF Owns(p) THEN Nobody ELSE owner
    /\ valid' = (valid /\ ~Owns(p))

\* _release_lease: the lease is forgotten whether or not the token is cleared.
ReleaseLease(p) ==
    /\ lease' = [lease EXCEPT ![p] = "none"]
    /\ stops' = [stops EXCEPT ![p] = {}]
    /\ \/ ClearToken(p) /\ UNCHANGED faults
       \/ Fault /\ UNCHANGED ownership

\* _cancel, by a control that holds the mutex.
CancelWorker(p) == Works(p, "none") /\ ReleaseLease(p)

(***************************************************************************)
(* _owned_operation.                                                       *)
(***************************************************************************)

\* The route loads the room and calls a control, which waits for the mutex.
Request(c, p, k, n) ==
    /\ pc[c] = "idle"
    /\ k # "seek" => n = 0
    /\ Goto(c, "queued")
    /\ where' = [where EXCEPT ![c] = p]
    /\ kind' = [kind EXCEPT ![c] = k]
    /\ target' = [target EXCEPT ![c] = n]
    /\ finished' = [finished EXCEPT ![c] = k = "seek" /\ status = "completed"]
    /\ UNCHANGED <<ownership, playback, process, begins, faults>>

Enter(c) ==
    /\ pc[c] = "queued" /\ MutexFree(where[c])
    /\ Goto(c, "entering")
    /\ UNCHANGED <<ownership, playback, process, locals, faults>>

\* start and restart replace the worker, and its lease with it.  A worker that
\* is already giving the lease back is cancelled there: the token may stay.
Replace(c) ==
    LET p == where[c]
    IN  /\ pc[c] = "entering" /\ kind[c] \in {"start", "restart"}
        /\ lease[p] # "none"
        /\ \/ CancelWorker(p)
           \/ /\ worker[p] = "leaving" /\ Works(p, "none")
              /\ lease' = [lease EXCEPT ![p] = "none"]
              /\ stops' = [stops EXCEPT ![p] = {}]
              /\ UNCHANGED <<ownership, faults>>
        /\ UNCHANGED <<playback, engine, pc, locals>>

FirstStep(k) ==
    CASE k = "restart" -> "resetting"
      [] k \in {"start", "resume"} -> "reading"
      [] k = "seek" -> "rebuilding"
      [] k = "pause" -> "pausing"

\* claim_replay.  A lease that is retiring has been waited for before.
Claim(c) ==
    /\ pc[c] = "entering" /\ lease[where[c]] = "none" /\ Claimable
    /\ owner' = where[c] /\ valid' = TRUE
    /\ lease' = [lease EXCEPT ![where[c]] = "held"]
    /\ Goto(c, FirstStep(kind[c]))
    /\ UNCHANGED <<playback, worker, at, engine, stops, locals, faults>>

ClaimRefused(c) ==
    /\ pc[c] = "entering" /\ lease[where[c]] = "none" /\ ~Claimable
    /\ Return({c})
    /\ UNCHANGED <<ownership, playback, process, faults>>

\* The claim committed, but its response is lost: nobody holds that token.
ClaimLost(c) ==
    /\ pc[c] = "entering" /\ lease[where[c]] = "none" /\ Claimable
    /\ owner' = where[c] /\ valid' = TRUE
    /\ Fault /\ Return({c})
    /\ UNCHANGED <<playback, process>>

\* The control joins the lease of the running worker, renewing it.
Join(c) ==
    /\ pc[c] = "entering" /\ kind[c] \notin {"start", "restart"}
    /\ lease[where[c]] = "held" /\ Owns(where[c])
    /\ Goto(c, FirstStep(kind[c]))
    /\ UNCHANGED <<ownership, playback, process, locals, faults>>

JoinRefused(c) ==
    /\ pc[c] = "entering" /\ kind[c] \notin {"start", "restart"}
    /\ \/ lease[where[c]] = "lost"
       \/ lease[where[c]] = "held" /\ ~Owns(where[c])
    /\ Return({c})
    /\ UNCHANGED <<ownership, playback, process, faults>>

EnterFails(c) ==
    /\ pc[c] = "entering"
    /\ Fault /\ Return({c})
    /\ UNCHANGED <<ownership, playback, process>>

\* Mutant: a control never gives its lease back.
LeaveHolding(c) ==
    LET p == where[c]
    IN  /\ pc[c] = "leaving"
        /\ UNCHANGED <<ownership, process, faults>>
        /\ IF c \in stops[p] THEN Goto(c, "stopping") /\ UNCHANGED locals ELSE Return({c})
        /\ UNCHANGED playback

\* The last user of the lease gives it back; then the mutex is free.
Leave(c) ==
    LET p == where[c]
    IN  /\ pc[c] = "leaving"
        /\ IF worker[p] = "none"
           THEN ReleaseLease(p) /\ UNCHANGED <<worker, at, engine>>
           ELSE UNCHANGED <<ownership, process, faults>>
        /\ IF c \in stops'[p] THEN Goto(c, "stopping") /\ UNCHANGED locals ELSE Return({c})
        /\ UNCHANGED playback

(***************************************************************************)
(* The controls.                                                           *)
(***************************************************************************)

\* begin_discussion_restart
ResetRoom(c) ==
    /\ pc[c] = "resetting" /\ Owns(where[c])
    /\ position' = 0 /\ paused' = TRUE /\ status' = "paused"
    /\ Goto(c, "clearing")
    /\ UNCHANGED <<ownership, process, locals, faults>>

ClearEngine(c) ==
    /\ pc[c] = "clearing"
    /\ engine' = [engine EXCEPT ![where[c]] = {}]
    /\ begins' = [begins EXCEPT ![c] = TRUE]
    /\ Goto(c, "unpausing")
    /\ UNCHANGED <<ownership, playback, lease, worker, at, stops, where, kind, target,
                   finished, faults>>

\* start rebuilds the recorded position; resume does unless a worker is alive
\* or the position is 0.
ReadPlayback(c) ==
    LET first == worker[where[c]] = "none"
        rebuild == kind[c] = "start" \/ (first /\ position > 0)
    IN  /\ pc[c] = "reading"
        /\ begins' = [begins EXCEPT ![c] = kind[c] = "start" \/ first]
        /\ target' = [target EXCEPT ![c] = IF rebuild THEN position ELSE 0]
        /\ Goto(c, IF rebuild THEN "rebuilding" ELSE "unpausing")
        /\ UNCHANGED <<ownership, playback, process, where, kind, finished, faults>>

\* _rebuild_to_sequence: reduce the recorded prefix again, then write it down.
Rebuild(c) ==
    /\ pc[c] = "rebuilding"
    /\ engine' = [engine EXCEPT ![where[c]] = 1 .. target[c]]
    /\ Goto(c, "placing")
    /\ UNCHANGED <<ownership, playback, lease, worker, at, stops, locals, faults>>

Place(c) ==
    /\ pc[c] = "placing" /\ Owns(where[c])
    /\ position' = target[c]
    /\ Goto(c, IF kind[c] = "seek" THEN "settling" ELSE "unpausing")
    /\ UNCHANGED <<ownership, paused, status, process, locals, faults>>

\* _status_after_seek looks at the room as the request loaded it.
Settles(c) == finished[c] /\ target[c] < LastEvent

Settle(c) ==
    /\ pc[c] = "settling"
    /\ IF Settles(c)
       THEN Owns(where[c]) /\ status' = "paused"
       ELSE UNCHANGED status
    /\ Goto(c, "leaving")
    /\ UNCHANGED <<ownership, position, paused, process, locals, faults>>

Unpause(c) ==
    /\ pc[c] = "unpausing" /\ Owns(where[c])
    /\ paused' = FALSE /\ status' = "replaying"
    /\ Goto(c, IF begins[c] THEN "launching" ELSE "leaving")
    /\ UNCHANGED <<ownership, position, process, locals, faults>>

\* _start_worker.  A control whose lease was lost is cancelled before it.
Launch(c) ==
    /\ pc[c] = "launching" /\ lease[where[c]] = "held"
    /\ Works(where[c], "waiting")
    /\ Goto(c, "leaving")
    /\ UNCHANGED <<ownership, playback, lease, engine, stops, locals, faults>>

\* pause, up to the release of the mutex.
Pause(c) ==
    LET p == where[c]
    IN  /\ pc[c] = "pausing" /\ Owns(p)
        /\ paused' = TRUE /\ status' = "paused"
        /\ stops' = [stops EXCEPT ![p] = IF worker[p] = "none" THEN @ ELSE @ \cup {c}]
        /\ Goto(c, "leaving")
        /\ UNCHANGED <<ownership, position, lease, worker, at, engine, locals, faults>>

\* Mutant: a pause stops its worker without looking at the row again.
StopUnchecked(c) ==
    LET p == where[c]
    IN  /\ pc[c] = "stopping" /\ MutexFree(p)
        /\ IF c \in stops[p]
           THEN CancelWorker(p)
           ELSE UNCHANGED <<ownership, lease, worker, at, stops, faults>>
        /\ Return({c})
        /\ UNCHANGED <<playback, engine>>

\* Mutant: a pause leaves its worker waiting.
StopNever(c) ==
    LET p == where[c]
    IN  /\ pc[c] = "stopping" /\ MutexFree(p)
        /\ stops' = [stops EXCEPT ![p] = @ \ {c}]
        /\ Return({c})
        /\ UNCHANGED <<ownership, playback, lease, worker, at, engine, faults>>

\* Its second part, under the mutex again: the worker is stopped if it is still
\* the same one, under the same lease, and still paused.
Stop(c) ==
    LET p == where[c]
    IN  /\ pc[c] = "stopping" /\ MutexFree(p)
        /\ \/ /\ c \in stops[p] /\ paused /\ Owns(p)
              /\ CancelWorker(p) /\ UNCHANGED engine
           \/ /\ IF c \in stops[p] /\ paused /\ Owns(p) THEN Fault ELSE UNCHANGED faults
              /\ stops' = [stops EXCEPT ![p] = @ \ {c}]
              /\ UNCHANGED <<ownership, lease, worker, at, engine>>
        /\ Return({c})
        /\ UNCHANGED playback

Fenced(c) ==
    \/ pc[c] \in {"resetting", "placing", "unpausing", "pausing"}
    \/ pc[c] = "settling" /\ Settles(c)

\* A control raises: its write lost the ownership, the heartbeat cancelled it,
\* or an await failed.  A rebuild stops anywhere.
Raise(c) ==
    LET p == where[c]
    IN  /\ pc[c] \in Body /\ (pc[c] = "leaving" => c \in stops[p])
        /\ \/ /\ (Fenced(c) /\ ~Owns(p)) \/ lease[p] # "held"
              /\ UNCHANGED faults
           \/ Fault
        /\ \/ UNCHANGED engine
           \/ /\ pc[c] = "rebuilding"
              /\ \E k \in 0 .. target[c] : engine' = [engine EXCEPT ![p] = 1 .. k]
        /\ stops' = [stops EXCEPT ![p] = @ \ {c}]
        /\ Goto(c, "leaving")
        /\ UNCHANGED <<ownership, playback, lease, worker, at, locals>>

(***************************************************************************)
(* The worker (_run).  A tick reads the row and the next event, reduces it *)
(* in this process, then writes the row.                                   *)
(***************************************************************************)

TickBegin(p) ==
    /\ worker[p] = "waiting" /\ MutexFree(p) /\ ~paused
    /\ IF position < LastEvent
       THEN worker' = [worker EXCEPT ![p] = "ticking"] /\ at' = [at EXCEPT ![p] = position + 1]
       ELSE worker' = [worker EXCEPT ![p] = "completing"] /\ UNCHANGED at
    /\ UNCHANGED <<ownership, playback, lease, engine, stops, pc, locals, faults>>

\* The race state ignores an event that is not past what it has reduced.
Reduced(S, e) == IF \A d \in S : d < e THEN S \cup {e} ELSE S

Apply(p) ==
    /\ worker[p] = "ticking"
    /\ engine' = [engine EXCEPT ![p] = Reduced(@, at[p])]
    /\ worker' = [worker EXCEPT ![p] = "applied"]
    /\ UNCHANGED <<ownership, playback, lease, at, stops, pc, locals, faults>>

\* Mutant: the write of a tick is not fenced.
AdvanceUnfenced(p) ==
    /\ worker[p] = "applied"
    /\ position' = at[p] /\ status' = "replaying"
    /\ Works(p, "waiting")
    /\ UNCHANGED <<ownership, paused, lease, engine, stops, pc, locals, faults>>

Advance(p) ==
    /\ worker[p] = "applied" /\ Owns(p)
    /\ position' = at[p] /\ status' = "replaying"
    /\ Works(p, "waiting")
    /\ UNCHANGED <<ownership, paused, lease, engine, stops, pc, locals, faults>>

Retire(p, label) ==
    /\ Works(p, label)
    /\ lease' = [lease EXCEPT ![p] = "retiring"]

\* No event is left.  Publishing the completion may still fail the worker.
Complete(p) ==
    /\ worker[p] = "completing" /\ Owns(p)
    /\ paused' = TRUE /\ status' = "completed"
    /\ \/ Retire(p, "leaving") /\ UNCHANGED faults
       \/ Retire(p, "failing") /\ Fault
    /\ UNCHANGED <<ownership, position, engine, stops, pc, locals>>

TickLost(p) ==
    /\ worker[p] \in {"applied", "completing"} /\ ~Owns(p)
    /\ Retire(p, "leaving")
    /\ UNCHANGED <<ownership, playback, engine, stops, pc, locals, faults>>

\* Any other exception, after the mutex is free again.
WorkerFails(p) ==
    /\ worker[p] \in Ticking \/ (worker[p] = "waiting" /\ MutexFree(p))
    /\ Fault
    /\ Retire(p, "failing")
    /\ UNCHANGED <<ownership, playback, engine, stops, pc, locals>>

RecordFailed(p) ==
    /\ worker[p] = "failing"
    /\ \/ Owns(p) /\ paused' = TRUE /\ status' = "failed" /\ UNCHANGED faults
       \/ ~Owns(p) /\ UNCHANGED <<paused, status, faults>>
       \/ Fault /\ UNCHANGED <<paused, status>>
    /\ Retire(p, "leaving")
    /\ UNCHANGED <<ownership, position, engine, stops, pc, locals>>

\* The heartbeat cancels the users of a lease it has lost.
WorkerCancelled(p) ==
    /\ worker[p] \notin {"none", "leaving"} /\ lease[p] = "lost"
    /\ Retire(p, "leaving")
    /\ UNCHANGED <<ownership, playback, engine, stops, pc, locals, faults>>

WorkerLeaves(p) ==
    /\ worker[p] = "leaving"
    /\ CancelWorker(p)
    /\ UNCHANGED <<playback, engine, pc, locals>>

(***************************************************************************)
(* The heartbeat, the clock of the database, and restarts.                 *)
(***************************************************************************)

\* _renew_lease finds the token gone, or fails.
LoseLease(p) ==
    /\ lease[p] = "held"
    /\ IF Owns(p) THEN Fault ELSE UNCHANGED faults
    /\ lease' = [lease EXCEPT ![p] = "lost"]
    /\ UNCHANGED <<ownership, playback, worker, at, engine, stops, pc, locals>>

\* A lease that is renewed expires only when the renewals are late.
Expire ==
    /\ owner # Nobody /\ valid
    /\ IF lease[owner] = "held" THEN Fault ELSE UNCHANGED faults
    /\ valid' = FALSE
    /\ UNCHANGED <<owner, playback, process, pc, locals>>

\* The process ends with everything it ran, and is started again.
Restarted(p) ==
    /\ lease' = [lease EXCEPT ![p] = "none"]
    /\ Works(p, "none")
    /\ stops' = [stops EXCEPT ![p] = {}]
    /\ engine' = [engine EXCEPT ![p] = Loaded]
    /\ Return({c \in Clients : where[c] = p})
    /\ UNCHANGED playback

Crash(p) == Fault /\ Restarted(p) /\ UNCHANGED ownership

\* close releases the leases first.
Close(p) == Fault /\ ClearToken(p) /\ Restarted(p)

\* pause_orphaned_running_rows, at the start of a process and 30 seconds later.
Recover ==
    /\ ~paused /\ status = "replaying" /\ Claimable
    /\ paused' = TRUE /\ status' = "paused"
    /\ owner' = Nobody /\ valid' = FALSE
    /\ UNCHANGED <<position, process, pc, locals, faults>>

Kinds == {"start", "restart", "resume", "pause", "seek"}

Control(c) ==
    \/ Enter(c) \/ Replace(c) \/ Claim(c) \/ ClaimRefused(c) \/ ClaimLost(c)
    \/ Join(c) \/ JoinRefused(c) \/ EnterFails(c) \/ Leave(c)
    \/ ResetRoom(c) \/ ClearEngine(c) \/ ReadPlayback(c) \/ Rebuild(c) \/ Place(c)
    \/ Settle(c) \/ Unpause(c) \/ Launch(c) \/ Pause(c) \/ Stop(c) \/ Raise(c)

Worker(p) ==
    \/ TickBegin(p) \/ Apply(p) \/ Advance(p) \/ Complete(p) \/ TickLost(p)
    \/ WorkerFails(p) \/ RecordFailed(p) \/ WorkerCancelled(p) \/ WorkerLeaves(p)

Next ==
    \/ \E c \in Clients, p \in Procs, k \in Kinds, n \in 0 .. LastEvent : Request(c, p, k, n)
    \/ \E c \in Clients : Control(c)
    \/ \E p \in Procs : Worker(p)
    \/ \E p \in Procs : LoseLease(p) \/ Crash(p) \/ Close(p)
    \/ Expire \/ Recover

Spec == Init /\ [][Next]_vars

(***************************************************************************)
(* Properties.                                                             *)
(***************************************************************************)

Labels == Body \cup {"idle", "queued", "entering", "stopping"}
States == Ticking \cup {"none", "waiting", "failing", "leaving"}

TypeOK ==
    /\ owner \in Procs \cup {Nobody} /\ valid \in BOOLEAN
    /\ position \in 0 .. LastEvent /\ paused \in BOOLEAN
    /\ status \in {"archived", "paused", "replaying", "completed", "failed"}
    /\ lease \in [Procs -> {"none", "held", "lost", "retiring"}]
    /\ worker \in [Procs -> States]
    /\ at \in [Procs -> 0 .. LastEvent]
    /\ engine \in [Procs -> SUBSET (1 .. LastEvent)]
    /\ stops \in [Procs -> SUBSET Clients]
    /\ pc \in [Clients -> Labels]
    /\ where \in [Clients -> Procs \cup {Nobody}]
    /\ kind \in [Clients -> Kinds \cup {"none"}]
    /\ target \in [Clients -> 0 .. LastEvent]
    /\ finished \in [Clients -> BOOLEAN]
    /\ begins \in [Clients -> BOOLEAN]
    /\ faults \in 0 .. MaxFaults

\* What a tick of the owner has read is still so when it writes: no control, of
\* its process or another, moves or pauses the row in between.
TickIsCurrent ==
    \A p \in Procs :
        Owns(p) /\ worker[p] \in Ticking =>
            /\ ~paused
            /\ IF worker[p] = "completing" THEN position = LastEvent ELSE at[p] = position + 1

\* A worker is only started where none is alive: no event is played twice.
OneWorker ==
    \A c \in Clients : pc[c] = "launching" => worker[where[c]] = "none"

\* A lease is kept alive only for a worker or for a control that is executing;
\* otherwise its heartbeat would keep the room from every other process.
LeaseHasUser ==
    \A p \in Procs : lease[p] = "held" => worker[p] # "none" \/ At(p, Body) # {}

\* The room never reads as replaying while its playback is paused.
PausedNotReplaying == paused => status # "replaying"

\* However controls, workers, heartbeats and failures interleave: one worker plays, a
\* lease is renewed for a user, and what the room reads agrees with its playback.
RoomSound == TypeOK /\ OneWorker /\ LeaseHasUser /\ PausedNotReplaying

\* Whatever worker writes a tick, late or of a process that lost the room, moves
\* the recorded position by one event and only while the row is unpaused.
PlaysNext ==
    [][\A p \in Procs : worker[p] = "applied" /\ worker'[p] = "waiting" =>
            ~paused /\ position' = position + 1]_vars

\* With one process and no failure, an unpaused room is played, unless a control
\* is executing: the second part of a pause does not stop a worker that a later
\* resume relies on.
Served ==
    faults = 0 /\ ~paused =>
        \E p \in Procs : \/ Owns(p) /\ worker[p] \in Ticking \cup {"waiting"}
                        \/ At(p, Body \cup {"entering"}) # {}

\* The room reads as replaying while its playback is unpaused.
ReplayingIffUnpaused == ~paused <=> status = "replaying"

\* Between two ticks of the owner its race state, which the timing tower shows,
\* has reduced the recorded prefix and nothing else.
InLockstep ==
    \A p \in Procs :
        Owns(p) /\ lease[p] = "held" /\ worker[p] = "waiting" /\ MutexFree(p) /\ ~paused
        => engine[p] = 1 .. position

(***************************************************************************)
(* Liveness.  asyncio.Lock is granted in the order of the requests, so the *)
(* mutex is not withheld from a control or a tick.                         *)
(***************************************************************************)

Proceed(c) ==
    \/ Replace(c) \/ Claim(c) \/ ClaimRefused(c) \/ Join(c) \/ JoinRefused(c) \/ Leave(c)
    \/ ResetRoom(c) \/ ClearEngine(c) \/ ReadPlayback(c) \/ Rebuild(c) \/ Place(c)
    \/ Settle(c) \/ Unpause(c) \/ Launch(c) \/ Pause(c) \/ Raise(c)

Tick(p) ==
    \/ Apply(p) \/ Advance(p) \/ Complete(p) \/ TickLost(p)
    \/ RecordFailed(p) \/ WorkerCancelled(p) \/ WorkerLeaves(p)

Fairness ==
    /\ \A c \in Clients : WF_vars(Proceed(c)) /\ SF_vars(Enter(c)) /\ SF_vars(Stop(c))
    /\ \A p \in Procs : WF_vars(Tick(p)) /\ SF_vars(TickBegin(p))
    /\ \A p \in Procs : WF_vars(~Owns(p) /\ LoseLease(p))
    /\ WF_vars((owner # Nobody => lease[owner] # "held") /\ Expire)

FairSpec == Spec /\ Fairness

\* Every control is answered: no control waits for a mutex, a lease or a worker
\* that nothing releases.
ControlsReturn == \A c \in Clients : pc[c] # "idle" ~> pc[c] = "idle"

\* Once the clients stop, and nothing fails, playback runs out or stays paused, and
\* the room can be claimed by any process.
RoomFreed == <>[](faults = 0 /\ \A c \in Clients : pc[c] = "idle") => <>[]Claimable

\* Nothing waits for ever: every control is answered and every room is given back.
NothingHangs == ControlsReturn /\ RoomFreed

-----------------------------------------------------------------------------
\* For TLC: the processes can be exchanged, and so can the clients.
Symmetry == Permutations(Procs) \cup Permutations(Clients)

=============================================================================
