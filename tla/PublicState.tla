----------------------------- MODULE PublicState -----------------------------
(***************************************************************************)
(* The public state of a session as the processes serve it                 *)
(* (RaceStateEngine in services/race_state.py, the one the routes read).   *)
(* The worker installs what it projects and publishes it on the bus; a     *)
(* process that serves reads the bus, then the snapshots; a process that   *)
(* replays the session reduces the recorded events itself and publishes    *)
(* what it has.  A state is how far it goes and whether it is of a replay. *)
(***************************************************************************)
EXTENDS Integers

CONSTANTS Worker, Replayer, Reader,   \* one process of each kind
          MaxLog,                     \* events of the session
          SnapshotEvery,              \* events between two snapshots (10)
          MaxFaults                   \* lost publications, failed reads and restarts

PublicAssumption ==
    /\ MaxLog \in Nat /\ SnapshotEvery \in Nat \ {0} /\ MaxFaults \in Nat
    /\ Worker # Reader /\ Replayer # Reader /\ Worker # Replayer

VARIABLES log,       \* events projected and recorded
          snap,      \* where the latest snapshot is, 0 if there is none
          shared,    \* the last state on the bus
          state,     \* of every process, what its engine holds
          cursor,    \* of the replay, -1 while nothing is replayed
          served,    \* what the reader was last given
          faults

vars == <<log, snap, shared, state, cursor, served, faults>>

Procs == {Worker, Replayer, Reader}
Absent == [seq |-> -1, replay |-> FALSE]
State(n, replay) == [seq |-> n, replay |-> replay]

Init ==
    /\ log = 0 /\ snap = 0 /\ shared = Absent
    /\ state = [p \in Procs |-> Absent] /\ cursor = -1 /\ served = Absent /\ faults = 0

\* _load_state: what is held, or else the latest snapshot.
Loaded(p) == IF state[p] = Absent THEN State(snap, FALSE) ELSE state[p]

\* get_state: a live state is followed on the bus, or in the snapshots when the
\* bus cannot be read or holds nothing; the state of a replay is kept.
Follows(held) == ~held.replay

Got(p, readable) ==
    LET held == Loaded(p)
        found == IF readable /\ shared # Absent THEN shared
                 ELSE IF snap > 0 THEN State(snap, FALSE) ELSE Absent
    IN  IF Follows(held) /\ found # Absent /\ found.seq >= held.seq THEN found ELSE held

Republished(p) == state[p] # Absent

Fault(happens) == IF happens THEN faults < MaxFaults /\ faults' = faults + 1 ELSE UNCHANGED faults

Snapshot(n) == IF n % SnapshotEvery = 0 THEN n ELSE snap

\* The worker projects an event and installs the state; the snapshot is taken
\* in the same transaction, the publication may be lost.
Project(lost) ==
    /\ log < MaxLog
    /\ log' = log + 1
    /\ snap' = Snapshot(log')
    /\ state' = [state EXCEPT ![Worker] = State(log', FALSE)]
    /\ shared' = IF lost THEN shared ELSE State(log', FALSE)
    /\ Fault(lost) /\ UNCHANGED <<cursor, served>>

\* A poll of the worker publishes its state again.
Republish ==
    /\ Republished(Worker)
    /\ state' = [state EXCEPT ![Worker] = Got(Worker, TRUE)]
    /\ shared' = Got(Worker, TRUE)
    /\ UNCHANGED <<log, snap, cursor, served, faults>>

\* start(restart): reset_session(is_replay) keeps the snapshots.
Start ==
    /\ log > 0
    /\ state' = [state EXCEPT ![Replayer] = State(0, TRUE)]
    /\ cursor' = 0
    /\ UNCHANGED <<log, snap, shared, served, faults>>

\* Seek or resume: the state is reduced anew up to a position.
Seek(n) ==
    /\ cursor >= 0 /\ n \in 1 .. log
    /\ state' = [state EXCEPT ![Replayer] = State(n, TRUE)]
    /\ cursor' = n /\ shared' = State(n, TRUE)
    /\ UNCHANGED <<log, snap, served, faults>>

\* apply: an event the state has is ignored; a replay takes no snapshot.
Step(lost) ==
    /\ cursor >= 0 /\ cursor < log
    /\ cursor' = cursor + 1
    /\ LET held == Loaded(Replayer)
           next == IF cursor + 1 <= held.seq THEN held ELSE State(cursor + 1, TRUE)
       IN  /\ state' = [state EXCEPT ![Replayer] = next]
           /\ shared' = IF lost THEN shared ELSE next
    /\ Fault(lost) /\ UNCHANGED <<log, snap, served>>

\* A route of the replaying process reads its state while it replays.
Look == /\ cursor >= 0
        /\ state' = [state EXCEPT ![Replayer] = Got(Replayer, TRUE)]
        /\ UNCHANGED <<log, snap, shared, cursor, served, faults>>

Read(readable) ==
    /\ state' = [state EXCEPT ![Reader] = Got(Reader, readable)]
    /\ served' = Got(Reader, readable)
    /\ Fault(~readable) /\ UNCHANGED <<log, snap, shared, cursor>>

\* The worker restores the acknowledged prefix before it goes on.
Restart(p) ==
    /\ p # Replayer /\ Fault(TRUE)
    /\ state' = [state EXCEPT ![p] = IF p = Worker /\ log > 0 THEN State(log, FALSE) ELSE Absent]
    /\ UNCHANGED <<log, snap, shared, cursor, served>>

Next ==
    \/ \E lost \in BOOLEAN : Project(lost) \/ Step(lost)
    \/ Republish \/ Start \/ Look
    \/ \E n \in 1 .. MaxLog : Seek(n)
    \/ \E readable \in BOOLEAN : Read(readable)
    \/ \E p \in Procs : Restart(p)

\* The polls of the worker, the requests of a viewer and the ticks of a replay
\* keep coming.
Fairness == WF_vars(Republish) /\ WF_vars(Read(TRUE)) /\ WF_vars(Step(FALSE))
Spec == Init /\ [][Next]_vars /\ Fairness

-----------------------------------------------------------------------------
States == [seq : -1 .. MaxLog, replay : BOOLEAN]

\* Nothing is served or shared beyond what was recorded.
TypeOK ==
    /\ {shared, served} \cup {state[p] : p \in Procs} \subseteq States
    /\ snap <= log /\ shared.seq <= log /\ \A p \in Procs : state[p].seq <= log

\* The process that replays shows its position and nothing after it, although
\* the bus and the snapshots hold the rest of the session.
NoFuture == cursor >= 0 => state[Replayer].replay /\ state[Replayer].seq <= cursor

\* While nothing is replayed, a viewer comes to see the last event, whichever
\* publications were lost.
LiveSettles == <>(cursor >= 0) \/ <>[](served = State(log, FALSE))

\* A viewer of another process who is shown a replay keeps being shown where
\* it stands.
ReplayShown == <>[](served.replay) => []<>(served = shared)
=============================================================================
