---------------------------- MODULE WriterLocks -----------------------------
(***************************************************************************)
(* The PostgreSQL advisory locks that keep writers of the critical         *)
(* projection apart (storage/database.py, storage/intelligence_progress.py)*)
(*   singleton  the ingestor lease: a session lock of the lease connection,*)
(*              or a transaction lock of a maintenance writer;             *)
(*   handoff    shared by every writing transaction from its first         *)
(*              statement to its commit, exclusive for the instant in      *)
(*              which a takeover checks that nothing is left in flight;    *)
(*   session    one writing transaction per session.                       *)
(* No lock is waited for.  The connection that holds the lease may die at  *)
(* any moment: PostgreSQL then frees its locks, and the process learns of  *)
(* it only when it next asks that connection.                              *)
(***************************************************************************)
CONSTANTS
    Procs,      \* processes that write
    Sessions,   \* session keys
    Nobody      \* stands for a lock that is free

ASSUME NobodyAssumption == Nobody \notin Procs

VARIABLES
    lease,      \* the lease connection of each process, as the process sees it
    singleton,  \* process whose lease connection holds the singleton lock
    tx          \* the writing transaction of a process on a session

vars == <<lease, singleton, tx>>

Txs == Procs \X Sessions

Init ==
    /\ lease = [p \in Procs |-> "none"]
    /\ singleton = Nobody
    /\ tx = [t \in Txs |-> "none"]

(***************************************************************************)
(* Who holds which lock.                                                   *)
(***************************************************************************)

\* Transactions whose maintenance branch took the singleton lock.
Maintaining == {t \in Txs : tx[t] \in {"maintenance", "maintenance open"}}

\* Transactions that hold the shared handoff lock, and those past every check
\* of the ingestor lease.
InFlight == {t \in Txs : tx[t] # "none"}
Admitted == InFlight \ {t \in Txs : tx[t] = "shared"}

SessionHolders(s) == {t \in Txs : t[2] = s /\ tx[t] \in {"live open", "maintenance open"}}

SingletonFree == singleton = Nobody /\ Maintaining = {}

\* The process wrote down that it holds the lease, and it still does.
Active(p) == lease[p] = "held" /\ singleton = p

(***************************************************************************)
(* acquire_ingestor_lease, release_ingestor_lease.                         *)
(***************************************************************************)

\* pg_try_advisory_lock on a connection of its own.
Claim(p) ==
    /\ lease[p] = "none" /\ SingletonFree
    /\ lease' = [lease EXCEPT ![p] = "claiming"]
    /\ singleton' = p
    /\ UNCHANGED tx

\* Mutant: the takeover does not wait for admitted transactions.
DrainNothing(p) ==
    /\ lease[p] = "claiming" /\ singleton = p
    /\ lease' = [lease EXCEPT ![p] = "drained"]
    /\ UNCHANGED <<singleton, tx>>

\* The exclusive handoff lock is granted when no transaction is in flight.
Drain(p) ==
    /\ lease[p] = "claiming" /\ singleton = p
    /\ InFlight = {}
    /\ lease' = [lease EXCEPT ![p] = "drained"]
    /\ UNCHANGED <<singleton, tx>>

\* It is not: the claim is given back, to be tried again later.
DrainRefused(p) ==
    /\ lease[p] = "claiming" /\ singleton = p
    /\ InFlight # {}
    /\ lease' = [lease EXCEPT ![p] = "none"]
    /\ singleton' = Nobody
    /\ UNCHANGED tx

\* commit frees the handoff lock, and the process records its lease.
Activate(p) ==
    /\ lease[p] = "drained" /\ singleton = p
    /\ lease' = [lease EXCEPT ![p] = "held"]
    /\ UNCHANGED <<singleton, tx>>

\* The connection broke during the handshake: it is invalidated.
ClaimFailed(p) ==
    /\ lease[p] \in {"claiming", "drained"} /\ singleton # p
    /\ lease' = [lease EXCEPT ![p] = "none"]
    /\ UNCHANGED <<singleton, tx>>

\* The lease connection is forgotten first and unlocked in a second step.
StartRelease(p) ==
    /\ lease[p] = "held"
    /\ lease' = [lease EXCEPT ![p] = "releasing"]
    /\ UNCHANGED <<singleton, tx>>

Release(p) ==
    /\ lease[p] = "releasing"
    /\ lease' = [lease EXCEPT ![p] = "none"]
    /\ singleton' = IF singleton = p THEN Nobody ELSE singleton
    /\ UNCHANGED tx

LoseSocket(p) ==
    /\ singleton = p
    /\ singleton' = Nobody
    /\ UNCHANGED <<lease, tx>>

(***************************************************************************)
(* _write.                                                                 *)
(***************************************************************************)

\* The shared handoff lock, refused only while a takeover checks the drain.
BeginWrite(p, s) ==
    /\ tx[<<p, s>>] = "none"
    /\ ~ \E q \in Procs : lease[q] = "drained" /\ singleton = q
    /\ tx' = [tx EXCEPT ![<<p, s>>] = "shared"]
    /\ UNCHANGED <<lease, singleton>>

\* verify_ingestor_lease, on the lease connection.
VerifyLease(p, s) ==
    /\ tx[<<p, s>>] = "shared" /\ Active(p)
    /\ tx' = [tx EXCEPT ![<<p, s>>] = "live"]
    /\ UNCHANGED <<lease, singleton>>

\* Without a lease: the singleton lock, for the length of the transaction.
AdmitMaintenance(p, s) ==
    /\ tx[<<p, s>>] = "shared" /\ lease[p] # "held" /\ SingletonFree
    /\ tx' = [tx EXCEPT ![<<p, s>>] = "maintenance"]
    /\ UNCHANGED <<lease, singleton>>

\* The session lock: the caller's reads and writes run between here and the end.
Open(p, s) ==
    /\ tx[<<p, s>>] \in {"live", "maintenance"} /\ SessionHolders(s) = {}
    /\ tx' = [tx EXCEPT ![<<p, s>>] = IF @ = "live" THEN "live open" ELSE "maintenance open"]
    /\ UNCHANGED <<lease, singleton>>

\* A refused lock, an exception, a dropped connection, a commit: all the locks
\* of the transaction are gone together.
End(p, s) ==
    /\ tx[<<p, s>>] # "none"
    /\ tx' = [tx EXCEPT ![<<p, s>>] = "none"]
    /\ UNCHANGED <<lease, singleton>>

Lease(p) ==
    \/ Claim(p) \/ Drain(p) \/ DrainRefused(p) \/ Activate(p) \/ ClaimFailed(p)
    \/ StartRelease(p) \/ Release(p) \/ LoseSocket(p)

Write(p, s) ==
    \/ BeginWrite(p, s) \/ VerifyLease(p, s) \/ AdmitMaintenance(p, s)
    \/ Open(p, s) \/ End(p, s)

Next == \E p \in Procs : Lease(p) \/ \E s \in Sessions : Write(p, s)

Spec == Init /\ [][Next]_vars

(***************************************************************************)
(* Properties.                                                             *)
(***************************************************************************)

TypeOK ==
    /\ lease \in [Procs -> {"none", "claiming", "drained", "held", "releasing"}]
    /\ singleton \in Procs \cup {Nobody}
    /\ tx \in [Txs -> {"none", "shared", "live", "live open",
                       "maintenance", "maintenance open"}]

\* A takeover becomes active only after every transaction admitted before it
\* has ended: a transaction that can still commit belongs to the active
\* ingestor itself, or there is none (the CanWrite of CriticalProjection).
HandoffDrained ==
    \A t \in Admitted : \A q \in Procs : Active(q) => t[1] = q

\* Two processes have admitted transactions at the same time only when one of
\* them was verified on a lease whose connection died or is being closed while
\* it runs; then the session locks keep them on different sessions.
OverlapIsOrphaned ==
    \A t, u \in Admitted :
        t[1] # u[1] =>
            /\ \E v \in {t, u} : tx[v] \in {"live", "live open"} /\ ~Active(v[1])
            /\ {tx[t], tx[u]} \subseteq {"live open", "maintenance open"} => t[2] # u[2]

\* A maintenance transaction never runs beside the active ingestor, nor beside
\* another maintenance transaction.
MaintenanceAlone ==
    /\ Maintaining # {} => singleton = Nobody
    /\ \A t, u \in Maintaining : t = u

\* The locks keep the writers apart: a takeover waits for what was admitted before it,
\* processes overlap only behind a lost connection, and maintenance is alone.
LocksSafe == TypeOK /\ HandoffDrained /\ OverlapIsOrphaned /\ MaintenanceAlone

(***************************************************************************)
(* The inductive invariant behind them.                                    *)
(***************************************************************************)

\* While a takeover holds the exclusive handoff lock nothing is in flight.
DrainedIsEmpty == \A q \in Procs : lease[q] = "drained" /\ singleton = q => InFlight = {}

\* The session lock is held by one transaction.
SessionExclusive == \A s \in Sessions : \A t, u \in SessionHolders(s) : t = u

Inv == TypeOK /\ DrainedIsEmpty /\ HandoffDrained /\ MaintenanceAlone /\ SessionExclusive
=============================================================================
