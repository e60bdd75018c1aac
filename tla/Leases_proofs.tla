--------------------------- MODULE Leases_proofs ----------------------------
(***************************************************************************)
(* Proofs about who may do what: the locks of the writers (WriterLocks),   *)
(* the duties behind the singleton lease (WorkerDuties), the backfill jobs *)
(* (BackfillJob), and the composition that is checked of them (MCLeases).  *)
(***************************************************************************)
EXTENDS MCLeases, TLAPS

-----------------------------------------------------------------------------
(***************************************************************************)
(* Safety of the locks for any set of processes and sessions.  Inv is      *)
(* inductive: an active ingestor was activated behind an exclusive handoff *)
(* lock (DrainedIsEmpty), and after that only itself is admitted, because  *)
(* every other admission needs the singleton lock it holds.                *)
(***************************************************************************)

\* Initially every lock is free.
LEMMA InitInv == Init => Inv
  BY NobodyAssumption
     DEF Init, Inv, TypeOK, DrainedIsEmpty, HandoffDrained, MaintenanceAlone,
         SessionExclusive, Txs, InFlight, Admitted, Maintaining, SessionHolders, Active

\* Steps of a lease connection change no transaction.
LEMMA LeaseKeeps ==
    ASSUME Inv, NEW p \in Procs, Lease(p)
    PROVE  Inv'
  <1> USE NobodyAssumption DEF Inv, TypeOK
  <1>0. tx' = tx /\ Maintaining' = Maintaining /\ InFlight' = InFlight /\ Admitted' = Admitted
    BY DEF Lease, Claim, Drain, DrainRefused, Activate, ClaimFailed, StartRelease, Release,
           LoseSocket, Maintaining, InFlight, Admitted
  <1>1. TypeOK'
    BY DEF Lease, Claim, Drain, DrainRefused, Activate, ClaimFailed, StartRelease, Release,
           LoseSocket
  <1>2. DrainedIsEmpty'
    BY <1>0
       DEF Lease, Claim, Drain, DrainRefused, Activate, ClaimFailed, StartRelease, Release,
           LoseSocket, DrainedIsEmpty
  <1>3. HandoffDrained'
    <2>1. CASE Activate(p)
      <3>1. InFlight = {}
        BY <2>1 DEF Activate, DrainedIsEmpty
      <3>2. Admitted = {}
        BY <3>1 DEF Admitted
      <3>3. QED
        BY <1>0, <3>2 DEF HandoffDrained
    <2>2. CASE ~Activate(p)
      <3>1. \A q \in Procs : Active(q)' => Active(q)
        BY <2>2
           DEF Lease, Claim, Drain, DrainRefused, ClaimFailed, StartRelease, Release,
               LoseSocket, Active
      <3>2. QED
        BY <1>0, <3>1 DEF HandoffDrained
    <2>3. QED
      BY <2>1, <2>2
  <1>4. MaintenanceAlone'
    <2>1. Maintaining # {} => singleton' = Nobody
      BY DEF Lease, Claim, Drain, DrainRefused, Activate, ClaimFailed, StartRelease, Release,
             LoseSocket, SingletonFree, MaintenanceAlone
    <2>2. QED
      BY <1>0, <2>1 DEF MaintenanceAlone
  <1>5. SessionExclusive'
    BY <1>0 DEF SessionExclusive, SessionHolders
  <1>6. QED
    BY <1>1, <1>2, <1>3, <1>4, <1>5

\* A transaction that starts or ends is admitted nowhere.
LEMMA UnadmittedKeeps ==
    ASSUME Inv, NEW p \in Procs, NEW s \in Sessions, BeginWrite(p, s) \/ End(p, s)
    PROVE  Inv'
  <1> USE DEF Inv, TypeOK
  <1>0. /\ lease' = lease /\ singleton' = singleton /\ <<p, s>> \in Txs
        /\ tx'[<<p, s>>] \in {"none", "shared"}
        /\ \A t \in Txs : t # <<p, s>> => tx'[t] = tx[t]
    BY DEF BeginWrite, End, Txs
  <1>1. TypeOK'
    BY <1>0 DEF BeginWrite, End
  <1>2. /\ Admitted' \subseteq Admitted /\ Maintaining' \subseteq Maintaining
        /\ \A u \in Sessions : SessionHolders(u)' \subseteq SessionHolders(u)
    BY <1>0 DEF Admitted, InFlight, Maintaining, SessionHolders
  <1>3. DrainedIsEmpty'
    <2>1. CASE BeginWrite(p, s)
      BY <2>1, <1>0 DEF BeginWrite, DrainedIsEmpty
    <2>2. CASE End(p, s)
      <3>1. InFlight' \subseteq InFlight
        BY <2>2, <1>0 DEF End, InFlight
      <3>2. QED
        BY <1>0, <3>1 DEF DrainedIsEmpty
    <2>3. QED
      BY <2>1, <2>2
  <1>4. HandoffDrained'
    BY <1>0, <1>2 DEF HandoffDrained, Active
  <1>5. MaintenanceAlone'
    BY <1>0, <1>2 DEF MaintenanceAlone
  <1>6. SessionExclusive'
    BY <1>2 DEF SessionExclusive
  <1>7. QED
    BY <1>1, <1>3, <1>4, <1>5, <1>6

\* A transaction is admitted beside the active ingestor only if it is its own.
LEMMA AdmittedKeeps ==
    ASSUME Inv, NEW p \in Procs, NEW s \in Sessions,
           VerifyLease(p, s) \/ AdmitMaintenance(p, s)
    PROVE  Inv'
  <1> USE NobodyAssumption DEF Inv, TypeOK
  <1>0. /\ lease' = lease /\ singleton' = singleton /\ <<p, s>> \in Txs
        /\ tx[<<p, s>>] = "shared"
        /\ \A t \in Txs : t # <<p, s>> => tx'[t] = tx[t]
    BY DEF VerifyLease, AdmitMaintenance, Txs
  <1>1. TypeOK'
    BY <1>0 DEF VerifyLease, AdmitMaintenance
  <1>2. InFlight' = InFlight /\ Admitted' \subseteq Admitted \cup {<<p, s>>}
    BY <1>0 DEF InFlight, Admitted, VerifyLease, AdmitMaintenance
  <1>3. DrainedIsEmpty'
    BY <1>0, <1>2 DEF DrainedIsEmpty
  <1>4. HandoffDrained'
    <2>1. \A q \in Procs : Active(q) => q = p
      BY DEF VerifyLease, AdmitMaintenance, Active, SingletonFree
    <2>2. \A q \in Procs : Active(q)' <=> Active(q)
      BY <1>0 DEF Active
    <2>3. ASSUME NEW t \in Admitted', NEW q \in Procs, Active(q)
          PROVE  t[1] = q
      <3>1. q = p
        BY <2>1, <2>3
      <3>2. CASE t = <<p, s>>
        BY <3>1, <3>2
      <3>3. CASE t \in Admitted
        BY <2>3, <3>3 DEF HandoffDrained
      <3>4. QED
        BY <1>2, <2>3, <3>2, <3>3
    <2>4. QED
      BY <2>2, <2>3 DEF HandoffDrained
  <1>5. MaintenanceAlone'
    <2>1. CASE VerifyLease(p, s)
      <3>1. Maintaining' = Maintaining
        BY <2>1, <1>0 DEF VerifyLease, Maintaining
      <3>2. QED
        BY <1>0, <3>1 DEF MaintenanceAlone
    <2>2. CASE AdmitMaintenance(p, s)
      <3>1. Maintaining' = {<<p, s>>} /\ singleton = Nobody
        BY <2>2, <1>0 DEF AdmitMaintenance, Maintaining, SingletonFree
      <3>2. QED
        BY <1>0, <3>1 DEF MaintenanceAlone
    <2>3. QED
      BY <2>1, <2>2
  <1>6. SessionExclusive'
    <2>1. \A t \in Txs : tx'[t] \in {"live open", "maintenance open"} =>
                            tx[t] \in {"live open", "maintenance open"}
      BY <1>0 DEF VerifyLease, AdmitMaintenance
    <2>2. QED
      BY <2>1 DEF SessionExclusive, SessionHolders
  <1>7. QED
    BY <1>1, <1>3, <1>4, <1>5, <1>6

\* The session lock is granted to one transaction, and admits nobody.
LEMMA OpenKeeps ==
    ASSUME Inv, NEW p \in Procs, NEW s \in Sessions, Open(p, s)
    PROVE  Inv'
  <1> USE DEF Inv, TypeOK, Open
  <1>0. /\ lease' = lease /\ singleton' = singleton /\ <<p, s>> \in Txs
        /\ \A t \in Txs : t # <<p, s>> => tx'[t] = tx[t]
        /\ tx'[<<p, s>>] = IF tx[<<p, s>>] = "live" THEN "live open" ELSE "maintenance open"
    BY DEF Txs
  <1>1. TypeOK'
    BY <1>0
  <1>2. InFlight' = InFlight /\ Admitted' = Admitted /\ Maintaining' = Maintaining
    BY <1>0 DEF InFlight, Admitted, Maintaining
  <1>3. DrainedIsEmpty' /\ HandoffDrained' /\ MaintenanceAlone'
    BY <1>0, <1>2 DEF DrainedIsEmpty, HandoffDrained, MaintenanceAlone, Active
  <1>4. SessionExclusive'
    <2>1. ASSUME NEW t \in Txs, tx'[t] \in {"live open", "maintenance open"}, t[2] = s
          PROVE  t = <<p, s>>
      BY <1>0, <2>1 DEF SessionHolders
    <2>2. ASSUME NEW u \in Sessions, NEW t \in Txs, NEW v \in Txs, t[2] = u, v[2] = u,
                 tx'[t] \in {"live open", "maintenance open"},
                 tx'[v] \in {"live open", "maintenance open"}
          PROVE  t = v
      <3>1. CASE u = s
        BY <2>1, <2>2, <3>1
      <3>2. CASE u # s
        <4>1. t # <<p, s>> /\ v # <<p, s>>
          <5>1. <<p, s>>[2] = s
            OBVIOUS
          <5>2. QED
            BY <5>1, <2>2, <3>2
        <4>2. tx'[t] = tx[t] /\ tx'[v] = tx[v]
          BY <1>0, <4>1
        <4>3. QED
          BY <2>2, <4>2 DEF SessionExclusive, SessionHolders
      <3>3. QED
        BY <3>1, <3>2
    <2>3. QED
      BY <2>2 DEF SessionExclusive, SessionHolders
  <1>5. QED
    BY <1>1, <1>3, <1>4

\* Inv is inductive.
THEOREM SpecInv == Spec => []Inv
  <1>1. Init => Inv
    BY InitInv
  <1>2. ASSUME Inv, [Next]_vars
        PROVE  Inv'
    <2>1. CASE UNCHANGED vars
      <3>1. /\ InFlight' = InFlight /\ Admitted' = Admitted /\ Maintaining' = Maintaining
            /\ TypeOK' = TypeOK /\ singleton' = singleton /\ lease' = lease
        BY <2>1 DEF vars, TypeOK, InFlight, Admitted, Maintaining
      <3>2. DrainedIsEmpty' /\ HandoffDrained' /\ MaintenanceAlone'
        BY <1>2, <3>1 DEF Inv, DrainedIsEmpty, HandoffDrained, MaintenanceAlone, Active
      <3>3. SessionExclusive'
        BY <1>2, <2>1 DEF Inv, vars, SessionExclusive, SessionHolders
      <3>4. QED
        BY <1>2, <3>1, <3>2, <3>3 DEF Inv
    <2>2. ASSUME NEW p \in Procs, Lease(p)
          PROVE  Inv'
      BY <1>2, <2>2, LeaseKeeps
    <2>3. ASSUME NEW p \in Procs, NEW s \in Sessions, Write(p, s)
          PROVE  Inv'
      BY <1>2, <2>3, UnadmittedKeeps, AdmittedKeeps, OpenKeeps DEF Write
    <2>4. QED
      BY <1>2, <2>1, <2>2, <2>3 DEF Next
  <1>3. QED
    BY <1>1, <1>2, PTL DEF Spec

\* The takeover barrier of acquire_ingestor_lease: when an ingestor is active,
\* every transaction that passed the checks of _write is its own.
THEOREM HandoffIsDrained == Spec => []HandoffDrained
  <1>1. Inv => HandoffDrained
    BY DEF Inv
  <1>2. QED
    BY <1>1, SpecInv, PTL

\* A maintenance transaction runs beside no active ingestor and no other one.
THEOREM MaintenanceIsAlone == Spec => []MaintenanceAlone
  <1>1. Inv => MaintenanceAlone
    BY DEF Inv
  <1>2. QED
    BY <1>1, SpecInv, PTL

\* Admitted transactions of two processes overlap only behind a lost or closing
\* lease, and never on the same session.
THEOREM OverlapNeedsOrphan == Spec => []OverlapIsOrphaned
  <1>1. ASSUME Inv
        PROVE  OverlapIsOrphaned
    <2>1. SUFFICES ASSUME NEW t \in Admitted, NEW u \in Admitted, t[1] # u[1]
                   PROVE  /\ \E v \in {t, u} : tx[v] \in {"live", "live open"} /\ ~Active(v[1])
                          /\ {tx[t], tx[u]} \subseteq {"live open", "maintenance open"}
                               => t[2] # u[2]
      BY DEF OverlapIsOrphaned
    <2>2. /\ t \in Txs /\ u \in Txs /\ t # u
          /\ t[1] \in Procs /\ u[1] \in Procs /\ t[2] \in Sessions
          /\ tx[t] \in {"live", "live open", "maintenance", "maintenance open"}
          /\ tx[u] \in {"live", "live open", "maintenance", "maintenance open"}
      BY <1>1, <2>1 DEF Admitted, InFlight, Txs, Inv, TypeOK
    <2>3. ~(t \in Maintaining /\ u \in Maintaining)
      BY <1>1, <2>2 DEF Inv, MaintenanceAlone
    <2>4. \A v \in {t, u} : v \in Maintaining => singleton = Nobody
      BY <1>1 DEF Inv, MaintenanceAlone
    <2>5. \E v \in {t, u} : tx[v] \in {"live", "live open"} /\ ~Active(v[1])
      BY <2>1, <2>2, <2>3, <2>4, NobodyAssumption DEF Maintaining, Active
    <2>6. {tx[t], tx[u]} \subseteq {"live open", "maintenance open"} => t[2] # u[2]
      BY <1>1, <2>2 DEF Inv, SessionExclusive, SessionHolders
    <2>7. QED
      BY <2>5, <2>6
  <1>2. QED
    BY <1>1, SpecInv, PTL

\* The locks keep the writers apart (acquire_ingestor_lease, _write).
THEOREM LocksAreSafe == Spec => []LocksSafe
  <1>1. Inv => TypeOK
    BY DEF Inv
  <1>2. QED
    BY <1>1, SpecInv, HandoffIsDrained, OverlapNeedsOrphan, MaintenanceIsAlone, PTL
       DEF LocksSafe

-----------------------------------------------------------------------------
(***************************************************************************)
(* The duties behind the lease.  DutyInv says of each process what close() *)
(* has stopped so far, which phase goes with which tasks, and that a       *)
(* process with a duty remembers the lease: what it remembers is true      *)
(* until a lease connection dies.                                          *)
(***************************************************************************)

LEMMA WorkerOK == Duty!WorkerAssumption
  BY PartsAssumption

\* The order in which close() stops things, as the position of each.
StoppedBy(p, n, task) == closing[p] > n => task \notin running[p]

Stopped(p) ==
    /\ StoppedBy(p, 2, "recovery") /\ StoppedBy(p, 3, "replays") /\ StoppedBy(p, 4, "reconcile")
    /\ StoppedBy(p, 5, "catalog") /\ StoppedBy(p, 6, "mqtt")
    /\ closing[p] > 1 => retry[p] = "none"

Phases(p) ==
    /\ workerAt[p] = "close" <=> closing[p] # 0
    /\ workerAt[p] = "off" => running[p] = {} /\ p \notin owned
    /\ retry[p] # "none" => workerAt[p] \in {"up", "close"}

\* Who has the lease, as far as the process knows.
Leased(p) ==
    /\ holder = p => p \in owned
    /\ workerAt[p] \in {"recovery", "live"} => p \in owned
    /\ p \in Ingestors /\ workerAt[p] = "runs" => p \in owned
    /\ retry[p] \in {"recovery", "live"} => p \in owned
    /\ Duty!Duties(p) # {} => p \in owned
    /\ broken = 0 /\ p \in owned => holder = p

Progress(p) ==
    /\ workerAt[p] = "live" => "recovery" \in running[p]
    /\ workerAt[p] = "up" /\ retry[p] = "live" => "recovery" \in running[p]
    /\ workerAt[p] = "up" /\ retry[p] \in {"none", "done"} => Duty!Whole(p)

DutyInv ==
    /\ Duty!TypeOK
    /\ \A p \in Duty!Processes : Stopped(p) /\ Phases(p) /\ Leased(p) /\ Progress(p)

DutyMine(p) == Stopped(p) /\ Phases(p) /\ Leased(p) /\ Progress(p)

DutyActs(p) ==
    \/ Duty!Start(p) \/ Duty!Boot(p) \/ Duty!DeferredReplayRecovery(p) \/ Duty!Retry(p)
    \/ Duty!Shutdown(p) \/ Duty!Close(p) \/ Duty!Crash(p) \/ Duty!LoseSocket(p)

\* The types, one by one.
DutyMaps ==
    /\ workerAt \in [Duty!Processes ->
                       {"off", "runs", "replays", "lease", "recovery", "live", "up", "close"}]
    /\ closing \in [Duty!Processes -> 0 .. 7]
    /\ retry \in [Duty!Processes -> {"none", "try", "recovery", "live", "wait", "done"}]
    /\ running \in [Duty!Processes -> SUBSET (Duty!WorkerTasks \cup {"replays"})]

LEMMA CloseOrderIs ==
    /\ Len(Duty!CloseOrder) = 7
    /\ Duty!CloseOrder[1] = "retry" /\ Duty!CloseOrder[2] = "recovery"
    /\ Duty!CloseOrder[3] = "replays" /\ Duty!CloseOrder[4] = "reconcile"
    /\ Duty!CloseOrder[5] = "catalog" /\ Duty!CloseOrder[6] = "mqtt"
    /\ Duty!CloseOrder[7] = "lease"
  BY DEF Duty!CloseOrder

LEMMA HasDutyMaps == ASSUME Duty!TypeOK PROVE DutyMaps
  BY CloseOrderIs DEF Duty!TypeOK, DutyMaps

\* What one process does leaves the rest of another as it was.
Apart(p) ==
    /\ workerAt'[p] = workerAt[p] /\ closing'[p] = closing[p] /\ retry'[p] = retry[p]
    /\ running'[p] = running[p] /\ (p \in owned' <=> p \in owned)

LEMMA OthersApart ==
    ASSUME Duty!TypeOK, NEW q \in Duty!Processes, DutyActs(q), NEW p \in Duty!Processes, p # q
    PROVE  Apart(p)
  <1>1. DutyMaps
    BY HasDutyMaps
  <1>2. CASE Duty!Boot(q)
    BY <1>1, <1>2
       DEF Duty!Boot, Duty!SweepRuns, Duty!StartReplayRecovery, Duty!BootFails,
           Duty!BootAcquires, Duty!IngestorRefused, Duty!StartRetry, Duty!BootRecovery,
           Duty!BootLive, Duty!StartRecovery, Duty!StartLive, Duty!Take, Duty!lease,
           DutyMaps, Apart
  <1>3. CASE Duty!Retry(q)
    BY <1>1, <1>3
       DEF Duty!Retry, Duty!RetryAcquires, Duty!RetryRefused, Duty!RetryRecovery,
           Duty!RetryFails, Duty!RetryLive, Duty!TryAgain, Duty!StartRecovery,
           Duty!StartLive, Duty!Take, Duty!lease, DutyMaps, Apart
  <1>4. CASE Duty!Close(q)
    BY <1>1, <1>4 DEF Duty!Close, Duty!GiveUp, Duty!lease, DutyMaps, Apart
  <1>5. CASE \/ Duty!Start(q) \/ Duty!DeferredReplayRecovery(q) \/ Duty!Shutdown(q)
             \/ Duty!Crash(q) \/ Duty!LoseSocket(q)
    BY <1>1, <1>5
       DEF Duty!Start, Duty!DeferredReplayRecovery, Duty!Shutdown, Duty!Crash,
           Duty!LoseSocket, Duty!GiveUp, Duty!lease, DutyMaps, Apart
  <1>6. QED
    BY <1>2, <1>3, <1>4, <1>5 DEF DutyActs

\* How the lease moves.
LEMMA LeaseMoves ==
    ASSUME NEW q \in Duty!Processes, DutyActs(q)
    PROVE  \/ UNCHANGED Duty!lease /\ UNCHANGED broken
           \/ Duty!Granted(q) /\ Duty!Take(q) /\ UNCHANGED broken
           \/ Duty!GiveUp(q) /\ UNCHANGED broken
           \/ Duty!LoseSocket(q)
  <1>1. CASE Duty!Boot(q)
    BY <1>1
       DEF Duty!Boot, Duty!SweepRuns, Duty!StartReplayRecovery, Duty!BootFails,
           Duty!BootAcquires, Duty!IngestorRefused, Duty!StartRetry, Duty!BootRecovery,
           Duty!BootLive, Duty!counts
  <1>2. CASE Duty!Retry(q)
    BY <1>2
       DEF Duty!Retry, Duty!RetryAcquires, Duty!RetryRefused, Duty!RetryRecovery,
           Duty!RetryFails, Duty!RetryLive, Duty!TryAgain, Duty!counts
  <1>3. CASE Duty!Close(q)
    BY <1>3 DEF Duty!Close, Duty!counts
  <1>4. CASE \/ Duty!Start(q) \/ Duty!DeferredReplayRecovery(q) \/ Duty!Shutdown(q)
             \/ Duty!Crash(q) \/ Duty!LoseSocket(q)
    BY <1>4
       DEF Duty!Start, Duty!DeferredReplayRecovery, Duty!Shutdown, Duty!Crash, Duty!counts
  <1>5. QED
    BY <1>1, <1>2, <1>3, <1>4 DEF DutyActs

LEMMA DutyOthersKept ==
    ASSUME DutyInv, NEW q \in Duty!Processes, DutyActs(q), NEW p \in Duty!Processes, p # q
    PROVE  DutyMine(p)'
  <1>1. Apart(p)
    BY OthersApart DEF DutyInv
  <1>2. Stopped(p) /\ Phases(p) /\ Leased(p) /\ Progress(p)
    BY DEF DutyInv
  <1>3. Stopped(p)' /\ Phases(p)' /\ Progress(p)'
    BY <1>1, <1>2 DEF Apart, Stopped, StoppedBy, Phases, Progress, Duty!Whole, Duty!Duties
  <1>4. (holder' = p => p \in owned') /\ (broken' = 0 /\ p \in owned' => holder' = p)
    <2>1. p # Nobody /\ q # Nobody /\ broken \in Nat
      BY WorkerOK DEF Duty!WorkerAssumption, DutyInv, Duty!TypeOK
    <2>2. CASE UNCHANGED Duty!lease /\ UNCHANGED broken
      BY <1>2, <2>2 DEF Duty!lease, Leased
    <2>3. CASE Duty!Granted(q) /\ Duty!Take(q) /\ UNCHANGED broken
      BY <1>1, <1>2, <2>1, <2>3 DEF Duty!Granted, Duty!Take, Leased, Apart
    <2>4. CASE Duty!GiveUp(q) /\ UNCHANGED broken
      BY <1>1, <1>2, <2>1, <2>4 DEF Duty!GiveUp, Leased, Apart
    <2>5. CASE Duty!LoseSocket(q)
      BY <2>1, <2>5 DEF Duty!LoseSocket
    <2>6. QED
      BY <2>2, <2>3, <2>4, <2>5, LeaseMoves
  <1>5. Leased(p)'
    BY <1>1, <1>2, <1>4 DEF Leased, Apart, Duty!Duties
  <1>6. QED
    BY <1>3, <1>5 DEF DutyMine

-----------------------------------------------------------------------------

\* The lease after p was granted it, and after p gave it up.
LEMMA Taken ==
    ASSUME NEW p \in Duty!Processes, Duty!Take(p)
    PROVE  holder' = p /\ p \in owned'
  BY DEF Duty!Take

LEMMA GivenUp ==
    ASSUME NEW p \in Duty!Processes, Duty!GiveUp(p)
    PROVE  holder' # p /\ p \notin owned'
  BY WorkerOK DEF Duty!WorkerAssumption, Duty!GiveUp

\* A step of the lifespan before the process serves.
LEMMA BootKept ==
    ASSUME DutyInv, NEW p \in Duty!Processes, Duty!Boot(p)
    PROVE  DutyMine(p)'
  <1>1. DutyMaps /\ Stopped(p) /\ Phases(p) /\ Leased(p) /\ Progress(p)
    BY HasDutyMaps DEF DutyInv
  <1>2. CASE Duty!SweepRuns(p)
    BY <1>1, <1>2
       DEF Duty!SweepRuns, Duty!lease, Duty!counts, DutyMine, DutyMaps, Stopped, StoppedBy,
           Phases, Leased, Progress, Duty!Duties, Duty!Whole
  <1>3. CASE Duty!StartReplayRecovery(p)
    BY <1>1, <1>3
       DEF Duty!StartReplayRecovery, Duty!lease, Duty!counts, DutyMine, DutyMaps, Stopped,
           StoppedBy, Phases, Leased, Progress, Duty!Duties, Duty!Whole, Duty!WorkerTasks,
           Duty!LiveDuties
  <1>4. CASE Duty!BootFails(p)
    BY <1>1, <1>4
       DEF Duty!BootFails, Duty!lease, Duty!counts, DutyMine, DutyMaps, Stopped, StoppedBy,
           Phases, Leased, Progress, Duty!Duties, Duty!Whole
  <1>5. CASE Duty!BootAcquires(p)
    BY <1>1, <1>5, Taken
       DEF Duty!BootAcquires, Duty!lease, Duty!counts, DutyMine, DutyMaps, Stopped,
           StoppedBy, Phases, Leased, Progress, Duty!Duties, Duty!Whole
  <1>6. CASE Duty!IngestorRefused(p)
    BY <1>1, <1>6
       DEF Duty!IngestorRefused, Duty!lease, Duty!counts, DutyMine, DutyMaps, Stopped,
           StoppedBy, Phases, Leased, Progress, Duty!Duties, Duty!Whole
  <1>7. CASE Duty!StartRetry(p)
    BY <1>1, <1>7
       DEF Duty!StartRetry, Duty!lease, Duty!counts, DutyMine, DutyMaps, Stopped, StoppedBy,
           Phases, Leased, Progress, Duty!Duties, Duty!Whole
  <1>8. CASE Duty!BootRecovery(p)
    BY <1>1, <1>8
       DEF Duty!BootRecovery, Duty!StartRecovery, Duty!lease, Duty!counts, DutyMine,
           DutyMaps, Stopped, StoppedBy, Phases, Leased, Progress, Duty!Duties, Duty!Whole,
           Duty!WorkerTasks, Duty!LiveDuties
  <1>9. CASE Duty!BootLive(p)
    BY <1>1, <1>9
       DEF Duty!BootLive, Duty!StartLive, Duty!lease, Duty!counts, DutyMine, DutyMaps,
           Stopped, StoppedBy, Phases, Leased, Progress, Duty!Duties, Duty!Whole,
           Duty!WorkerTasks, Duty!LiveDuties
  <1>10. QED
    BY <1>2, <1>3, <1>4, <1>5, <1>6, <1>7, <1>8, <1>9 DEF Duty!Boot

LEMMA RetryKept ==
    ASSUME DutyInv, NEW p \in Duty!Processes, Duty!Retry(p)
    PROVE  DutyMine(p)'
  <1>1. DutyMaps /\ Stopped(p) /\ Phases(p) /\ Leased(p) /\ Progress(p)
    BY HasDutyMaps DEF DutyInv
  <1>2. CASE Duty!RetryAcquires(p)
    BY <1>1, <1>2, Taken
       DEF Duty!RetryAcquires, Duty!lease, Duty!counts, DutyMine, DutyMaps, Stopped,
           StoppedBy, Phases, Leased, Progress, Duty!Duties, Duty!Whole
  <1>3. CASE Duty!RetryRefused(p)
    BY <1>1, <1>3
       DEF Duty!RetryRefused, Duty!lease, Duty!counts, DutyMine, DutyMaps, Stopped,
           StoppedBy, Phases, Leased, Progress, Duty!Duties, Duty!Whole
  <1>4. CASE Duty!RetryRecovery(p)
    BY <1>1, <1>4
       DEF Duty!RetryRecovery, Duty!StartRecovery, Duty!lease, Duty!counts, DutyMine,
           DutyMaps, Stopped, StoppedBy, Phases, Leased, Progress, Duty!Duties, Duty!Whole,
           Duty!WorkerTasks, Duty!LiveDuties
  <1>5. CASE Duty!RetryFails(p)
    BY <1>1, <1>5
       DEF Duty!RetryFails, Duty!lease, Duty!counts, DutyMine, DutyMaps, Stopped, StoppedBy,
           Phases, Leased, Progress, Duty!Duties, Duty!Whole
  <1>6. CASE Duty!RetryLive(p)
    BY <1>1, <1>6
       DEF Duty!RetryLive, Duty!StartLive, Duty!lease, Duty!counts, DutyMine, DutyMaps,
           Stopped, StoppedBy, Phases, Leased, Progress, Duty!Duties, Duty!Whole,
           Duty!WorkerTasks, Duty!LiveDuties
  <1>7. CASE Duty!TryAgain(p)
    BY <1>1, <1>7
       DEF Duty!TryAgain, Duty!lease, Duty!counts, DutyMine, DutyMaps, Stopped, StoppedBy,
           Phases, Leased, Progress, Duty!Duties, Duty!Whole
  <1>8. QED
    BY <1>2, <1>3, <1>4, <1>5, <1>6, <1>7 DEF Duty!Retry

\* close() has stopped one task more.
LEMMA CloseKept ==
    ASSUME DutyInv, NEW p \in Duty!Processes, Duty!Close(p)
    PROVE  DutyMine(p)'
  <1>1. DutyMaps /\ Stopped(p) /\ Phases(p) /\ Leased(p) /\ Progress(p)
    BY HasDutyMaps DEF DutyInv
  <1>2. workerAt[p] = "close" /\ closing[p] \in 1 .. 7
    BY <1>1 DEF Duty!Close, Phases, DutyMaps
  <1>3. running'[p] = running[p] \ {Duty!CloseOrder[closing[p]]} /\ UNCHANGED Duty!counts
    BY <1>1 DEF Duty!Close, DutyMaps
  <1>4. CASE closing[p] = 7
    <2>1. workerAt'[p] = "off" /\ closing'[p] = 0 /\ retry'[p] = "none" /\ Duty!GiveUp(p)
      BY <1>1, <1>4, CloseOrderIs DEF Duty!Close, DutyMaps, Stopped
    <2>2. running[p] = {}
      BY <1>1, <1>4 DEF Stopped, StoppedBy, DutyMaps, Duty!WorkerTasks, Duty!LiveDuties
    <2>3. QED
      BY <1>3, <2>1, <2>2, GivenUp
         DEF DutyMine, Stopped, StoppedBy, Phases, Leased, Progress, Duty!Duties
  <1>5. CASE closing[p] # 7
    <2>1. workerAt'[p] = "close" /\ closing'[p] = closing[p] + 1 /\ UNCHANGED Duty!lease
      BY <1>1, <1>2, <1>5, CloseOrderIs DEF Duty!Close, DutyMaps
    <2>2. retry'[p] = IF closing[p] = 1 THEN "none" ELSE retry[p]
      BY <1>1, <1>2, <1>5, CloseOrderIs DEF Duty!Close, DutyMaps
    <2>3. Stopped(p)'
      BY <1>1, <1>2, <1>3, <1>5, <2>1, <2>2, CloseOrderIs DEF Stopped, StoppedBy
    <2>4. Phases(p)'
      BY <1>1, <1>2, <2>1, <2>2 DEF Phases
    <2>5. Leased(p)' /\ Progress(p)'
      BY <1>1, <1>3, <2>1, <2>2 DEF Leased, Progress, Duty!Duties, Duty!lease, Duty!counts
    <2>6. QED
      BY <2>3, <2>4, <2>5 DEF DutyMine
  <1>6. QED
    BY <1>4, <1>5

LEMMA DutyOwnKept ==
    ASSUME DutyInv, NEW p \in Duty!Processes, DutyActs(p)
    PROVE  DutyMine(p)'
  <1>1. DutyMaps /\ Stopped(p) /\ Phases(p) /\ Leased(p) /\ Progress(p)
    BY HasDutyMaps DEF DutyInv
  <1>2. CASE Duty!Start(p)
    BY <1>1, <1>2
       DEF Duty!Start, Duty!FirstStep, Duty!lease, Duty!counts, DutyMine, DutyMaps, Stopped,
           StoppedBy, Phases, Leased, Progress, Duty!Duties, Duty!Whole
  <1>3. CASE Duty!DeferredReplayRecovery(p)
    BY <1>1, <1>3
       DEF Duty!DeferredReplayRecovery, Duty!lease, Duty!counts, DutyMine, DutyMaps, Stopped,
           StoppedBy, Phases, Leased, Progress, Duty!Duties, Duty!Whole, Duty!WorkerTasks,
           Duty!LiveDuties
  <1>4. CASE Duty!Shutdown(p)
    BY <1>1, <1>4
       DEF Duty!Shutdown, Duty!lease, Duty!counts, DutyMine, DutyMaps, Stopped, StoppedBy,
           Phases, Leased, Progress, Duty!Duties, Duty!Whole
  <1>5. CASE Duty!Crash(p)
    BY <1>1, <1>5, GivenUp
       DEF Duty!Crash, Duty!lease, Duty!counts, DutyMine, DutyMaps, Stopped, StoppedBy,
           Phases, Leased, Progress, Duty!Duties, Duty!Whole
  <1>6. CASE Duty!LoseSocket(p)
    <2>1. broken' # 0 /\ p \in owned /\ owned' = owned /\ holder' # p
      BY <1>1, <1>6, WorkerOK
         DEF Duty!LoseSocket, Leased, DutyInv, Duty!TypeOK, Duty!WorkerAssumption
    <2>2. QED
      BY <1>1, <1>6, <2>1
         DEF Duty!LoseSocket, DutyMine, Stopped, StoppedBy, Phases, Leased, Progress,
             Duty!Duties, Duty!Whole
  <1>7. QED
    BY <1>2, <1>3, <1>4, <1>5, <1>6, BootKept, RetryKept, CloseKept DEF DutyActs

LEMMA DutyTypeKept == ASSUME DutyInv, [Duty!Next]_(Duty!vars) PROVE Duty!TypeOK'
  <1>1. Duty!TypeOK /\ DutyMaps
    BY HasDutyMaps DEF DutyInv
  <1>2. /\ {MaxFaults, MaxBroken} \subseteq Nat
        /\ faults \in 0 .. MaxFaults /\ broken \in 0 .. MaxBroken
        /\ holder \in Duty!Processes \cup {Nobody} /\ owned \subseteq Duty!Processes
    BY <1>1, WorkerOK DEF Duty!TypeOK, Duty!WorkerAssumption
  <1>3. SUFFICES ASSUME NEW p \in Duty!Processes, DutyActs(p) PROVE Duty!TypeOK'
    BY <1>1 DEF Duty!Next, DutyActs, Duty!vars, Duty!TypeOK
  <1>4. holder' \in Duty!Processes \cup {Nobody} /\ owned' \subseteq Duty!Processes
    BY <1>2, <1>3, LeaseMoves DEF Duty!lease, Duty!Take, Duty!GiveUp, Duty!LoseSocket
  <1>5. faults' \in 0 .. MaxFaults /\ broken' \in 0 .. MaxBroken
    <2>1. CASE Duty!Boot(p)
      BY <1>2, <2>1
         DEF Duty!Boot, Duty!SweepRuns, Duty!StartReplayRecovery, Duty!BootFails,
             Duty!BootAcquires, Duty!IngestorRefused, Duty!StartRetry, Duty!BootRecovery,
             Duty!BootLive, Duty!counts, Duty!Refused, Duty!Fault
    <2>2. CASE Duty!Retry(p)
      BY <1>2, <2>2
         DEF Duty!Retry, Duty!RetryAcquires, Duty!RetryRefused, Duty!RetryRecovery,
             Duty!RetryFails, Duty!RetryLive, Duty!TryAgain, Duty!counts, Duty!Refused,
             Duty!Fault
    <2>3. CASE \/ Duty!Start(p) \/ Duty!DeferredReplayRecovery(p) \/ Duty!Shutdown(p)
               \/ Duty!Close(p) \/ Duty!Crash(p) \/ Duty!LoseSocket(p)
      BY <1>2, <2>3
         DEF Duty!Start, Duty!DeferredReplayRecovery, Duty!Shutdown, Duty!Close, Duty!Crash,
             Duty!LoseSocket, Duty!counts
    <2>4. QED
      BY <1>3, <2>1, <2>2, <2>3 DEF DutyActs
  <1>6. DutyMaps'
    <2>1. CASE Duty!Boot(p)
      BY <1>1, <2>1
         DEF Duty!Boot, Duty!SweepRuns, Duty!StartReplayRecovery, Duty!BootFails,
             Duty!BootAcquires, Duty!IngestorRefused, Duty!StartRetry, Duty!BootRecovery,
             Duty!BootLive, Duty!StartRecovery, Duty!StartLive, DutyMaps, Duty!WorkerTasks,
             Duty!LiveDuties
    <2>2. CASE Duty!Retry(p)
      BY <1>1, <2>2
         DEF Duty!Retry, Duty!RetryAcquires, Duty!RetryRefused, Duty!RetryRecovery,
             Duty!RetryFails, Duty!RetryLive, Duty!TryAgain, Duty!StartRecovery,
             Duty!StartLive, DutyMaps, Duty!WorkerTasks, Duty!LiveDuties
    <2>3. CASE Duty!Close(p)
      <3>1. closing[p] \in 1 .. 7
        BY <1>1, <2>3 DEF Duty!Close, DutyInv, Phases, DutyMaps
      <3>2. QED
        BY <1>1, <2>3, <3>1, CloseOrderIs DEF Duty!Close, DutyMaps, Duty!WorkerTasks
    <2>4. CASE \/ Duty!Start(p) \/ Duty!DeferredReplayRecovery(p) \/ Duty!Shutdown(p)
               \/ Duty!Crash(p) \/ Duty!LoseSocket(p)
      BY <1>1, <2>4
         DEF Duty!Start, Duty!FirstStep, Duty!DeferredReplayRecovery, Duty!Shutdown,
             Duty!Crash, Duty!LoseSocket, DutyMaps, Duty!WorkerTasks
    <2>5. QED
      BY <1>3, <2>1, <2>2, <2>3, <2>4 DEF DutyActs
  <1>7. QED
    BY <1>4, <1>5, <1>6, CloseOrderIs DEF Duty!TypeOK, DutyMaps

LEMMA InitDutyInv == Duty!Init => DutyInv
  BY WorkerOK, CloseOrderIs
     DEF Duty!WorkerAssumption, Duty!Init, DutyInv, Duty!TypeOK, Stopped, StoppedBy, Phases,
         Leased, Progress, Duty!Duties, Duty!Whole

LEMMA DutyInvKept == ASSUME DutyInv, [Duty!Next]_(Duty!vars) PROVE DutyInv'
  <1>1. ASSUME NEW q \in Duty!Processes, DutyActs(q), NEW p \in Duty!Processes
        PROVE  DutyMine(p)'
    BY <1>1, DutyOwnKept, DutyOthersKept
  <1>2. CASE UNCHANGED Duty!vars
    BY <1>2, DutyTypeKept
       DEF Duty!vars, DutyInv, Stopped, StoppedBy, Phases, Leased, Progress, Duty!Duties,
           Duty!Whole
  <1>3. QED
    BY <1>1, <1>2, DutyTypeKept DEF DutyInv, DutyMine, Duty!Next, DutyActs

\* DutyInv is inductive.
THEOREM SpecDutyInv == Duty!Spec => []DutyInv
  BY InitDutyInv, DutyInvKept, PTL DEF Duty!Spec

LEMMA DutyInvHolds ==
    ASSUME DutyInv
    PROVE  /\ Duty!TypeOK /\ Duty!DutyHasLease
           /\ Duty!UpIsWhole /\ Duty!ClosedIsQuiet
  BY DEF DutyInv, Duty!ClosedIsQuiet, Duty!UpIsWhole, Duty!DutyHasLease, Phases, Leased,
         Progress

-----------------------------------------------------------------------------
(***************************************************************************)
(* The backfill of a session.  JobInv says what the next steps of a worker *)
(* rely on: where it is in the order of the endpoints, that the rows of    *)
(* what it may checkpoint are stored, what its run says, and that a job it *)
(* is about to call complete has every checkpoint, whoever wrote them.     *)
(***************************************************************************)

LEMMA JobOK ==
    /\ Job!None \notin Backfillers /\ Forced \subseteq Backfillers
    /\ Order \in Seq(STRING) /\ Job!None \notin Job!Endpoints
    /\ MaxTrouble \in Nat
  BY PartsAssumption DEF Job!JobAssumption

JobType ==
    job \in [status : {Job!None, "running", "failed", "partial", "completed"},
             completed : SUBSET Job!Endpoints, failed : Job!Endpoints \cup {Job!None}]

Rows == [state : {Job!None, "running", "completed", "failed"}, fresh : BOOLEAN]
RunType == run \in [Backfillers -> Rows]

PcType == jobPc \in [Backfillers -> Job!Steps]
AtType == jobAt \in [Backfillers -> 1 .. Len(Order) + 1]

LocalType ==
    /\ known \in [Backfillers -> SUBSET Job!Endpoints]
    /\ got \in [Backfillers -> BOOLEAN] /\ partial \in [Backfillers -> BOOLEAN]
    /\ beat \in [Backfillers -> BOOLEAN]

RoomType ==
    /\ jobLease \in Backfillers \cup {Job!None}
    /\ room.avail \in 0 .. 3
    /\ jobStored \subseteq Job!Endpoints
    /\ jobTrouble \in Nat

\* The worker is at an endpoint.
AtEndpoint(w) == jobPc[w] \in {"fetch", "store", "finish", "except", "complete", "fail"}

\* What the next steps of a worker rely on.
Placed(w) == AtEndpoint(w) => jobAt[w] <= Len(Order)
Backed(w) == jobPc[w] \in {"finish", "complete"} /\ got[w] => Job!EndpointOf(w) \in jobStored
RunKnown(w) ==
    /\ jobPc[w] \in {"fetch", "store", "finish", "except", "fail"} =>
            run[w].state \in {"running", "failed"}
    /\ jobPc[w] = "complete" => run[w].state = "completed"
Judged(w) ==
    jobPc[w] \in {"finalize", "close"} /\ ~partial[w] => Job!Endpoints \subseteq job.completed

JobInv ==
    /\ JobType /\ RunType /\ PcType /\ AtType /\ LocalType /\ RoomType
    /\ Job!CheckpointsBacked /\ Job!WholeIsWhole
    /\ \A w \in Backfillers : Placed(w) /\ Backed(w) /\ RunKnown(w) /\ Judged(w)

Types == JobType /\ RunType /\ PcType /\ AtType /\ LocalType /\ RoomType

JobMine(w) == Placed(w) /\ Backed(w) /\ RunKnown(w) /\ Judged(w)

JobActs(w) ==
    \/ Job!Acquire(w) \/ Job!Work(w) \/ Job!FetchFails(w) \/ Job!Beat(w) \/ Job!Notice(w)
    \/ Job!Stall(w) \/ Job!Sweep(w) \/ Job!Crash(w) \/ Job!Cancel(w)
    \/ \E rows \in BOOLEAN : Job!Fetch(w, rows)

\* An index of an endpoint.
LEMMA EndpointType ==
    ASSUME AtType, NEW w \in Backfillers, jobAt[w] <= Len(Order)
    PROVE  Job!EndpointOf(w) \in Job!Endpoints
  <1>1. jobAt[w] \in DOMAIN Order
    BY JobOK DEF AtType
  <1>2. QED
    BY <1>1 DEF Job!EndpointOf, Job!Endpoints

LEMMA EndpointsNamed == Job!Endpoints \subseteq STRING \ {Job!None}
  BY JobOK DEF Job!Endpoints

\* A run row that takes another status or another heartbeat.
LEMMA RowUpdates ==
    ASSUME NEW r \in Rows
    PROVE  /\ \A s \in {"completed", "failed"} :
                 /\ [r EXCEPT !.state = s] \in Rows /\ [r EXCEPT !.state = s].state = s
                 /\ Job!Ended(r, s) \in Rows
                 /\ Job!Ended(r, s).state = IF r.state = "running" THEN s ELSE r.state
           /\ \A b \in BOOLEAN :
                 [r EXCEPT !.fresh = b] \in Rows /\ [r EXCEPT !.fresh = b].state = r.state
  BY DEF Rows, Job!Ended

\* Write ends the row, if it succeeds.
LEMMA WriteSteps ==
    ASSUME RunType, jobTrouble \in Nat,
           NEW w \in Backfillers, NEW s \in {"completed", "failed"}, Job!Write(w, s)
    PROVE  /\ RunType'
           /\ \A v \in Backfillers \ {w} : run'[v] = run[v]
           /\ \/ jobTrouble' = jobTrouble /\ run'[w].state = IF run[w].state = "running" THEN s ELSE run[w].state
              \/ jobTrouble' # jobTrouble /\ run'[w].state = run[w].state
           /\ jobTrouble' \in Nat
  <1>1. run[w] \in Rows
    BY DEF RunType
  <1>2. CASE run' = [run EXCEPT ![w] = Job!Ended(@, s)] /\ UNCHANGED jobTrouble
    <2>1. PICK r : r = Job!Ended(run[w], s)
      OBVIOUS
    <2>2. r \in Rows /\ r.state = IF run[w].state = "running" THEN s ELSE run[w].state
      BY <1>1, <2>1, RowUpdates
    <2>3. run' = [run EXCEPT ![w] = r]
      BY <1>2, <2>1
    <2>4. QED
      BY <1>2, <2>2, <2>3 DEF RunType
  <1>3. CASE jobTrouble' = jobTrouble + 1 /\ UNCHANGED run
    BY <1>3 DEF RunType
  <1>4. QED
    BY <1>2, <1>3 DEF Job!Write

LEMMA RunTypeKept ==
    ASSUME Types, NEW w \in Backfillers, JobActs(w)
    PROVE  RunType' /\ \A v \in Backfillers \ {w} : run'[v] = run[v]
  <1>1. RunType
    BY DEF Types
  <1>2. CASE \/ Job!Acquire(w) \/ Job!FetchFails(w) \/ Job!Crash(w)
             \/ \E rows \in BOOLEAN : Job!Fetch(w, rows)
    BY <1>1, <1>2 DEF Job!Acquire, Job!FetchFails, Job!Crash, Job!Fetch, RunType
  <1>3. CASE \/ Job!Prepare(w) \/ Job!Skip(w) \/ Job!Store(w) \/ Job!Complete(w)
             \/ Job!Fail(w) \/ Job!Refresh(w) \/ Job!Finalize(w) \/ Job!Close(w)
    BY <1>1, <1>3
       DEF Job!Prepare, Job!Skip, Job!Store, Job!Complete, Job!Fail, Job!Refresh,
           Job!Finalize, Job!Close, RunType
  <1>4. CASE Job!Start(w)
    <2>1. [state |-> "running", fresh |-> TRUE] \in Rows
      BY DEF Rows
    <2>2. QED
      BY <1>1, <1>4, <2>1 DEF Job!Start, RunType
  <1>5. CASE Job!Finish(w) \/ Job!Except(w)
    BY <1>1, <1>5, WriteSteps DEF Job!Finish, Job!Except, Types, RoomType
  <1>6. CASE Job!Notice(w)
    <2>1. Job!Write(w, "failed") \/ UNCHANGED run
      BY <1>6 DEF Job!Notice
    <2>2. QED
      BY <1>1, <2>1, WriteSteps DEF RunType, Types, RoomType
  <1>7. CASE Job!Beat(w) \/ Job!Stall(w)
    <2>1. UNCHANGED run \/ \E b \in BOOLEAN : run' = [run EXCEPT ![w].fresh = b]
      BY <1>7 DEF Job!Beat, Job!Stall
    <2>2. ASSUME NEW b \in BOOLEAN, run' = [run EXCEPT ![w].fresh = b]
          PROVE  RunType' /\ \A v \in Backfillers \ {w} : run'[v] = run[v]
      <3>1. PICK r : r = [run[w] EXCEPT !.fresh = b]
        OBVIOUS
      <3>2. r \in Rows
        BY <1>1, <3>1, RowUpdates DEF RunType
      <3>3. run' = [run EXCEPT ![w] = r]
        BY <2>2, <3>1
      <3>4. QED
        BY <1>1, <3>2, <3>3 DEF RunType
    <2>3. QED
      BY <1>1, <2>1, <2>2 DEF RunType
  <1>8. CASE Job!Sweep(w) \/ Job!Cancel(w)
    <2>1. run' = [run EXCEPT ![w] = Job!Ended(@, "failed")]
      BY <1>8 DEF Job!Sweep, Job!Cancel, Job!Ended
    <2>2. PICK r : r = Job!Ended(run[w], "failed")
      OBVIOUS
    <2>3. r \in Rows
      BY <1>1, <2>2, RowUpdates DEF RunType
    <2>4. run' = [run EXCEPT ![w] = r]
      BY <2>1, <2>2
    <2>5. QED
      BY <1>1, <2>3, <2>4 DEF RunType
  <1>9. QED
    BY <1>2, <1>3, <1>4, <1>5, <1>6, <1>7, <1>8 DEF JobActs, Job!Work

\* Only the pc of w moves, and w's own variables.
LEMMA OthersStand ==
    ASSUME Types, NEW w \in Backfillers, JobActs(w), NEW v \in Backfillers \ {w}
    PROVE  /\ jobPc'[v] = jobPc[v] /\ jobAt'[v] = jobAt[v]
           /\ got'[v] = got[v] /\ partial'[v] = partial[v]
  <1>1. PcType /\ AtType /\ LocalType
    BY DEF Types
  <1>2. CASE \/ Job!Acquire(w) \/ Job!FetchFails(w) \/ Job!Crash(w)
             \/ \E rows \in BOOLEAN : Job!Fetch(w, rows)
    BY <1>1, <1>2
       DEF Job!Acquire, Job!FetchFails, Job!Crash, Job!Fetch, Job!Goto, Job!own, PcType,
           AtType, LocalType
  <1>3. CASE \/ Job!Prepare(w) \/ Job!Skip(w) \/ Job!Start(w) \/ Job!Store(w)
             \/ Job!Complete(w) \/ Job!Fail(w) \/ Job!Refresh(w)
    BY <1>1, <1>3
       DEF Job!Prepare, Job!Skip, Job!Start, Job!Store, Job!Complete, Job!Fail, Job!Refresh,
           Job!Goto, Job!own, PcType, AtType, LocalType
  <1>4. CASE Job!Finalize(w) \/ Job!Close(w) \/ Job!Finish(w) \/ Job!Except(w)
    BY <1>1, <1>4
       DEF Job!Finalize, Job!Close, Job!Finish, Job!Except, Job!Goto, Job!own, PcType,
           AtType, LocalType
  <1>5. CASE Job!Beat(w) \/ Job!Notice(w) \/ Job!Stall(w) \/ Job!Sweep(w) \/ Job!Cancel(w)
    BY <1>1, <1>5
       DEF Job!Beat, Job!Notice, Job!Stall, Job!Sweep, Job!Cancel, Job!Goto, Job!own, PcType,
           AtType, LocalType
  <1>6. QED
    BY <1>2, <1>3, <1>4, <1>5 DEF JobActs, Job!Work

LEMMA PcTypeKept ==
    ASSUME Types, NEW w \in Backfillers, JobActs(w)
    PROVE  PcType'
  <1>1. PcType
    BY DEF Types
  <1>2. CASE \/ Job!Acquire(w) \/ Job!FetchFails(w) \/ Job!Crash(w)
             \/ \E rows \in BOOLEAN : Job!Fetch(w, rows)
    BY <1>1, <1>2
       DEF Job!Acquire, Job!FetchFails, Job!Crash, Job!Fetch, Job!Goto, PcType, Job!Steps
  <1>3. CASE \/ Job!Prepare(w) \/ Job!Skip(w) \/ Job!Start(w) \/ Job!Store(w)
             \/ Job!Complete(w) \/ Job!Fail(w) \/ Job!Refresh(w)
    BY <1>1, <1>3
       DEF Job!Prepare, Job!Skip, Job!Start, Job!Store, Job!Complete, Job!Fail, Job!Refresh,
           Job!Goto, PcType, Job!Steps
  <1>4. CASE Job!Finalize(w) \/ Job!Close(w) \/ Job!Except(w)
    BY <1>1, <1>4
       DEF Job!Finalize, Job!Close, Job!Finish, Job!Except, Job!Goto, PcType, Job!Steps
  <1>5. CASE Job!Finish(w)
    <2>1. Job!Goto(w, "except") \/ Job!Goto(w, "complete") \/ Job!Goto(w, "fail")
      BY <1>5 DEF Job!Finish
    <2>2. QED
      BY <1>1, <2>1 DEF Job!Goto, PcType, Job!Steps
  <1>6. CASE Job!Beat(w) \/ Job!Notice(w) \/ Job!Stall(w) \/ Job!Sweep(w) \/ Job!Cancel(w)
    BY <1>1, <1>6
       DEF Job!Beat, Job!Notice, Job!Stall, Job!Sweep, Job!Cancel, Job!Goto, PcType,
           Job!Steps
  <1>7. QED
    BY <1>2, <1>3, <1>4, <1>5, <1>6 DEF JobActs, Job!Work

LEMMA LocalTypeKept ==
    ASSUME Types, NEW w \in Backfillers, JobActs(w)
    PROVE  LocalType'
  <1>1. LocalType /\ JobType
    BY DEF Types
  <1>2. CASE \/ Job!Acquire(w) \/ Job!FetchFails(w) \/ Job!Crash(w)
             \/ \E rows \in BOOLEAN : Job!Fetch(w, rows)
    BY <1>1, <1>2 DEF Job!Acquire, Job!FetchFails, Job!Crash, Job!Fetch, Job!own, LocalType
  <1>3. CASE Job!Prepare(w)
    BY <1>1, <1>3 DEF Job!Prepare, LocalType, JobType
  <1>4. CASE Job!Refresh(w)
    BY <1>1, <1>4 DEF Job!Refresh, Job!Incomplete, LocalType
  <1>5. CASE Job!Skip(w) \/ Job!Start(w) \/ Job!Store(w) \/ Job!Complete(w) \/ Job!Fail(w)
    BY <1>1, <1>5
       DEF Job!Skip, Job!Start, Job!Store, Job!Complete, Job!Fail, Job!own, LocalType
  <1>6. CASE Job!Finalize(w) \/ Job!Close(w) \/ Job!Finish(w) \/ Job!Except(w)
    BY <1>1, <1>6 DEF Job!Finalize, Job!Close, Job!Finish, Job!Except, Job!own, LocalType
  <1>7. CASE Job!Beat(w) \/ Job!Notice(w) \/ Job!Stall(w) \/ Job!Sweep(w) \/ Job!Cancel(w)
    BY <1>1, <1>7
       DEF Job!Beat, Job!Notice, Job!Stall, Job!Sweep, Job!Cancel, Job!own, LocalType
  <1>8. QED
    BY <1>2, <1>3, <1>4, <1>5, <1>6, <1>7 DEF JobActs, Job!Work

LEMMA AtTypeKept ==
    ASSUME Types, NEW w \in Backfillers, Placed(w), JobActs(w)
    PROVE  AtType'
  <1>1. AtType /\ Len(Order) \in Nat
    BY JobOK DEF Types
  <1>2. CASE Job!Skip(w) \/ Job!Complete(w) \/ Job!Fail(w)
    <2>1. jobAt[w] <= Len(Order) /\ jobAt' = [jobAt EXCEPT ![w] = @ + 1]
      BY <1>2 DEF Job!Skip, Job!Complete, Job!Fail, Placed, AtEndpoint
    <2>2. QED
      BY <1>1, <2>1 DEF AtType
  <1>3. CASE Job!Prepare(w)
    BY <1>1, <1>3 DEF Job!Prepare, AtType
  <1>4. CASE ~Job!Skip(w) /\ ~Job!Complete(w) /\ ~Job!Fail(w) /\ ~Job!Prepare(w)
    <2>1. UNCHANGED jobAt
      BY <1>4
         DEF JobActs, Job!Work, Job!Acquire, Job!FetchFails, Job!Crash, Job!Fetch, Job!Start,
             Job!Store, Job!Refresh, Job!Finalize, Job!Close, Job!Finish, Job!Except,
             Job!Beat, Job!Notice, Job!Stall, Job!Sweep, Job!Cancel, Job!own
    <2>2. QED
      BY <1>1, <2>1 DEF AtType
  <1>5. QED
    BY <1>2, <1>3, <1>4

\* The rows and the checkpoints only grow.
LEMMA Grows ==
    ASSUME Types, NEW w \in Backfillers, Placed(w), Backed(w), JobActs(w)
    PROVE  /\ JobType' /\ jobStored \subseteq jobStored' /\ jobStored' \subseteq Job!Endpoints
           /\ job.completed \subseteq job'.completed
           /\ job'.completed \subseteq job.completed \cup jobStored
  <1>1. JobType /\ AtType /\ jobStored \subseteq Job!Endpoints
    BY DEF Types, RoomType
  <1>2. CASE Job!Prepare(w)
    BY <1>1, <1>2 DEF Job!Prepare, Job!Reopened, JobType
  <1>3. CASE Job!Complete(w)
    <2>1. Job!EndpointOf(w) \in Job!Endpoints
      BY <1>1, <1>3, EndpointType DEF Job!Complete, Placed, AtEndpoint
    <2>2. got[w] => Job!EndpointOf(w) \in jobStored
      BY <1>3 DEF Job!Complete, Backed
    <2>3. job' = [job EXCEPT !.status = "running",
                             !.completed = Job!Checkpoint(@, Job!EndpointOf(w), got[w])]
          /\ UNCHANGED jobStored
      BY <1>3 DEF Job!Complete
    <2>4. job'.completed = job.completed \/ (got[w] /\ job'.completed = job.completed \cup {Job!EndpointOf(w)})
      BY <1>1, <2>3 DEF JobType, Job!Checkpoint
    <2>5. JobType'
      BY <1>1, <2>1, <2>3 DEF JobType, Job!Checkpoint
    <2>6. QED
      BY <1>1, <2>2, <2>3, <2>4, <2>5
  <1>4. CASE Job!Fail(w)
    <2>1. Job!EndpointOf(w) \in Job!Endpoints
      BY <1>1, <1>4, EndpointType DEF Job!Fail, Placed, AtEndpoint
    <2>2. QED
      BY <1>1, <1>4, <2>1 DEF Job!Fail, Job!FailedAt, JobType
  <1>5. CASE Job!Close(w)
    BY <1>1, <1>5 DEF Job!Close, JobType
  <1>6. CASE Job!Store(w)
    <2>1. Job!EndpointOf(w) \in Job!Endpoints
      BY <1>1, <1>6, EndpointType DEF Job!Store, Placed, AtEndpoint
    <2>2. QED
      BY <1>1, <1>6, <2>1 DEF Job!Store, JobType
  <1>7. CASE /\ ~Job!Prepare(w) /\ ~Job!Complete(w) /\ ~Job!Fail(w) /\ ~Job!Close(w)
             /\ ~Job!Store(w)
    <2>1. UNCHANGED job /\ UNCHANGED jobStored
      BY <1>7
         DEF JobActs, Job!Work, Job!Acquire, Job!FetchFails, Job!Crash, Job!Fetch, Job!Skip,
             Job!Start, Job!Refresh, Job!Finalize, Job!Finish, Job!Except, Job!Beat,
             Job!Notice, Job!Stall, Job!Sweep, Job!Cancel
    <2>2. QED
      BY <1>1, <2>1 DEF JobType
  <1>8. QED
    BY <1>2, <1>3, <1>4, <1>5, <1>6, <1>7

LEMMA RoomTypeKept ==
    ASSUME Types, NEW w \in Backfillers, Placed(w), Backed(w), JobActs(w)
    PROVE  RoomType'
  <1>1. /\ jobLease \in Backfillers \cup {Job!None} /\ room.avail \in 0 .. 3 /\ jobTrouble \in Nat
        /\ jobStored' \subseteq Job!Endpoints
    BY Grows DEF Types, RoomType
  <1>2. jobLease' \in Backfillers \cup {Job!None}
    BY <1>1
       DEF JobActs, Job!Work, Job!Acquire, Job!FetchFails, Job!Crash, Job!Fetch, Job!Prepare,
           Job!Skip, Job!Start, Job!Store, Job!Complete, Job!Fail, Job!Refresh, Job!Finalize,
           Job!Close, Job!Finish, Job!Except, Job!Beat, Job!Notice, Job!Stall, Job!Sweep,
           Job!Cancel, Job!Release
  <1>3. room'.avail \in 0 .. 3
    <2>1. CASE Job!Finalize(w)
      BY <1>1, <2>1 DEF Job!Finalize, Job!Classify
    <2>2. CASE ~Job!Finalize(w)
      <3>1. UNCHANGED room
        BY <2>2
           DEF JobActs, Job!Work, Job!Acquire, Job!FetchFails, Job!Crash, Job!Fetch,
               Job!Prepare, Job!Skip, Job!Start, Job!Store, Job!Complete, Job!Fail,
               Job!Refresh, Job!Close, Job!Finish, Job!Except, Job!Beat, Job!Notice,
               Job!Stall, Job!Sweep, Job!Cancel
      <3>2. QED
        BY <1>1, <3>1
    <2>3. QED
      BY <2>1, <2>2
  <1>4. jobTrouble' \in Nat
    <2>1. \A x : Job!Write(w, x) => jobTrouble' \in Nat
      BY <1>1 DEF Job!Write
    <2>2. QED
      BY <1>1, <2>1
         DEF JobActs, Job!Work, Job!Acquire, Job!FetchFails, Job!Crash, Job!Fetch,
             Job!Prepare, Job!Skip, Job!Start, Job!Store, Job!Complete, Job!Fail,
             Job!Refresh, Job!Finalize, Job!Close, Job!Finish, Job!Except, Job!Beat,
             Job!Notice, Job!Stall, Job!Sweep, Job!Cancel
  <1>5. QED
    BY <1>1, <1>2, <1>3, <1>4 DEF RoomType

LEMMA TypesKept ==
    ASSUME JobInv, [Job!Next]_(Job!vars)
    PROVE  Types'
  <1>1. Types
    BY DEF JobInv, Types
  <1>2. ASSUME NEW w \in Backfillers, JobActs(w)
        PROVE  Types'
    BY <1>1, <1>2, RunTypeKept, PcTypeKept, AtTypeKept, LocalTypeKept, RoomTypeKept, Grows
       DEF JobInv, Types
  <1>3. CASE Job!DropLease
    BY <1>1, <1>3
       DEF Job!DropLease, Job!own, Types, JobType, RunType, PcType, AtType, LocalType,
           RoomType
  <1>4. CASE UNCHANGED Job!vars
    BY <1>1, <1>4 DEF Job!vars, Types, JobType, RunType, PcType, AtType, LocalType, RoomType
  <1>5. QED
    BY <1>2, <1>3, <1>4 DEF Job!Next, JobActs

-----------------------------------------------------------------------------

\* A step by another worker.
LEMMA JobOthersKept ==
    ASSUME JobInv, NEW w \in Backfillers, JobActs(w), NEW v \in Backfillers \ {w}
    PROVE  JobMine(v)'
  <1>1. Types /\ JobMine(v) /\ Placed(w) /\ Backed(w)
    BY DEF JobInv, Types, JobMine
  <1>2. /\ jobPc'[v] = jobPc[v] /\ jobAt'[v] = jobAt[v]
        /\ got'[v] = got[v] /\ partial'[v] = partial[v] /\ run'[v] = run[v]
    BY <1>1, OthersStand, RunTypeKept
  <1>3. jobStored \subseteq jobStored' /\ job.completed \subseteq job'.completed
    BY <1>1, Grows
  <1>4. QED
    BY <1>1, <1>2, <1>3
       DEF JobMine, Placed, AtEndpoint, Backed, RunKnown, Judged, Job!EndpointOf

\* What a worker does next, after a step of its own.
LEMMA PlacedKept ==
    ASSUME JobInv, NEW w \in Backfillers, JobActs(w)
    PROVE  Placed(w)'
  <1>1. PcType /\ AtType /\ Placed(w)
    BY DEF JobInv
  <1>2. SUFFICES ASSUME jobPc'[w] \in {"fetch", "store", "finish", "except", "complete", "fail"}
                 PROVE  jobAt'[w] <= Len(Order)
    BY DEF Placed, AtEndpoint
  <1>3. CASE Job!Start(w)
    BY <1>1, <1>3 DEF Job!Start, Job!own
  <1>4. CASE \/ Job!FetchFails(w) \/ Job!Store(w) \/ Job!Except(w)
             \/ \E rows \in BOOLEAN : Job!Fetch(w, rows)
    BY <1>1, <1>4
       DEF Job!FetchFails, Job!Store, Job!Except, Job!Fetch, Job!own, Placed, AtEndpoint
  <1>5. CASE Job!Finish(w)
    BY <1>1, <1>5 DEF Job!Finish, Job!own, Placed, AtEndpoint
  <1>6. CASE Job!Notice(w)
    BY <1>1, <1>2, <1>6
       DEF Job!Notice, Job!Stopping, Job!own, Placed, AtEndpoint, PcType, Job!Steps
  <1>7. CASE Job!Beat(w) \/ Job!Stall(w) \/ Job!Sweep(w)
    BY <1>1, <1>2, <1>7 DEF Job!Beat, Job!Stall, Job!Sweep, Job!own, Placed, AtEndpoint
  <1>8. CASE Job!Acquire(w) \/ Job!Prepare(w) \/ Job!Crash(w) \/ Job!Cancel(w)
    BY <1>1, <1>2, <1>8
       DEF Job!Acquire, Job!Prepare, Job!Crash, Job!Cancel, Job!Goto, PcType
  <1>9. CASE \/ Job!Complete(w) \/ Job!Fail(w) \/ Job!Refresh(w) \/ Job!Finalize(w)
             \/ Job!Close(w)
    BY <1>1, <1>2, <1>9
       DEF Job!Complete, Job!Fail, Job!Refresh, Job!Finalize, Job!Close, Job!Goto, PcType
  <1>10. CASE Job!Skip(w)
    BY <1>1, <1>2, <1>10 DEF Job!Skip
  <1>11. QED
    BY <1>3, <1>4, <1>5, <1>6, <1>7, <1>8, <1>9, <1>10 DEF JobActs, Job!Work

LEMMA BackedKept ==
    ASSUME JobInv, NEW w \in Backfillers, JobActs(w)
    PROVE  Backed(w)'
  <1>1. PcType /\ LocalType /\ Backed(w) /\ Placed(w) /\ Types
    BY DEF JobInv, Types
  <1>2. jobStored \subseteq jobStored'
    BY <1>1, Grows
  <1>3. SUFFICES ASSUME jobPc'[w] \in {"finish", "complete"}, got'[w]
                 PROVE  Job!EndpointOf(w)' \in jobStored'
    BY DEF Backed
  <1>4. CASE \E rows \in BOOLEAN : Job!Fetch(w, rows)
    BY <1>1, <1>3, <1>4 DEF Job!Fetch, Job!Goto, PcType, LocalType
  <1>5. CASE Job!Store(w)
    BY <1>5 DEF Job!Store, Job!own, Job!EndpointOf
  <1>6. CASE Job!Finish(w)
    BY <1>1, <1>2, <1>3, <1>6 DEF Job!Finish, Job!own, Backed, Job!EndpointOf
  <1>7. CASE Job!Beat(w) \/ Job!Stall(w) \/ Job!Sweep(w)
    BY <1>1, <1>2, <1>3, <1>7
       DEF Job!Beat, Job!Stall, Job!Sweep, Job!own, Backed, Job!EndpointOf
  <1>8. CASE Job!Notice(w)
    BY <1>1, <1>2, <1>3, <1>8
       DEF Job!Notice, Job!Goto, Job!own, Backed, Job!EndpointOf, PcType
  <1>9. CASE \/ Job!Acquire(w) \/ Job!Prepare(w) \/ Job!Start(w) \/ Job!FetchFails(w)
             \/ Job!Except(w) \/ Job!Crash(w) \/ Job!Cancel(w)
    BY <1>1, <1>3, <1>9
       DEF Job!Acquire, Job!Prepare, Job!Start, Job!FetchFails, Job!Except, Job!Crash,
           Job!Cancel, Job!Goto, PcType
  <1>10. CASE \/ Job!Complete(w) \/ Job!Fail(w) \/ Job!Refresh(w) \/ Job!Finalize(w)
              \/ Job!Close(w)
    BY <1>1, <1>3, <1>10
       DEF Job!Complete, Job!Fail, Job!Refresh, Job!Finalize, Job!Close, Job!Goto, PcType
  <1>11. CASE Job!Skip(w)
    BY <1>1, <1>3, <1>11 DEF Job!Skip
  <1>12. QED
    BY <1>4, <1>5, <1>6, <1>7, <1>8, <1>9, <1>10, <1>11 DEF JobActs, Job!Work

LEMMA RunKnownKept ==
    ASSUME JobInv, NEW w \in Backfillers, JobActs(w)
    PROVE  RunKnown(w)'
  <1>1. PcType /\ RunType /\ RunKnown(w) /\ jobTrouble \in Nat /\ run[w] \in Rows
    BY DEF JobInv, RoomType, RunType
  <1>2. CASE Job!Start(w)
    BY <1>1, <1>2 DEF Job!Start, Job!Goto, PcType, RunType, RunKnown
  <1>3. CASE Job!FetchFails(w) \/ Job!Store(w) \/ \E rows \in BOOLEAN : Job!Fetch(w, rows)
    BY <1>1, <1>3 DEF Job!FetchFails, Job!Store, Job!Fetch, Job!Goto, PcType, RunKnown
  <1>4. CASE Job!Finish(w)
    <2>1. Job!Write(w, "completed") /\ run[w].state \in {"running", "failed"}
      BY <1>1, <1>4 DEF Job!Finish, RunKnown
    <2>2. jobPc'[w] = IF jobTrouble' # jobTrouble THEN "except"
                   ELSE IF run[w].state = "running" THEN "complete" ELSE "fail"
      BY <1>1, <1>4 DEF Job!Finish, Job!Goto, PcType
    <2>3. QED
      BY <1>1, <2>1, <2>2, WriteSteps DEF RunKnown
  <1>5. CASE Job!Except(w)
    <2>1. Job!Write(w, "failed") /\ run[w].state \in {"running", "failed"} /\ jobPc'[w] = "fail"
      BY <1>1, <1>5 DEF Job!Except, RunKnown, Job!Goto, PcType
    <2>2. QED
      BY <1>1, <2>1, WriteSteps DEF RunKnown
  <1>6. CASE Job!Notice(w)
    <2>1. CASE Job!Stopping(w)
      BY <1>1, <1>6, <2>1 DEF Job!Notice, RunKnown
    <2>2. CASE ~Job!Stopping(w)
      <3>1. Job!Write(w, "failed") /\ run[w].state \in {"running", "failed"} /\ jobPc'[w] = "fail"
        BY <1>1, <1>6, <2>2 DEF Job!Notice, Job!Stopping, RunKnown, Job!Goto, PcType
      <3>2. QED
        BY <1>1, <3>1, WriteSteps DEF RunKnown
    <2>3. QED
      BY <2>1, <2>2
  <1>7. CASE Job!Beat(w) \/ Job!Stall(w)
    <2>1. UNCHANGED jobPc /\ (UNCHANGED run \/ \E b \in BOOLEAN : run' = [run EXCEPT ![w].fresh = b])
      BY <1>7 DEF Job!Beat, Job!Stall
    <2>2. ASSUME NEW b \in BOOLEAN, run' = [run EXCEPT ![w].fresh = b]
          PROVE  run'[w].state = run[w].state
      BY <1>1, <2>2, RowUpdates DEF RunType
    <2>3. QED
      BY <1>1, <2>1, <2>2 DEF RunKnown
  <1>8. CASE Job!Sweep(w)
    BY <1>1, <1>8 DEF Job!Sweep, RunKnown, RunType, Rows
  <1>9. CASE Job!Acquire(w) \/ Job!Prepare(w) \/ Job!Crash(w) \/ Job!Cancel(w)
    BY <1>1, <1>9
       DEF Job!Acquire, Job!Prepare, Job!Crash, Job!Cancel, Job!Goto, PcType, RunKnown
  <1>10. CASE \/ Job!Complete(w) \/ Job!Fail(w) \/ Job!Refresh(w) \/ Job!Finalize(w)
              \/ Job!Close(w)
    BY <1>1, <1>10
       DEF Job!Complete, Job!Fail, Job!Refresh, Job!Finalize, Job!Close, Job!Goto, PcType,
           RunKnown
  <1>11. CASE Job!Skip(w)
    BY <1>1, <1>11 DEF Job!Skip, RunKnown
  <1>12. QED
    BY <1>2, <1>3, <1>4, <1>5, <1>6, <1>7, <1>8, <1>9, <1>10, <1>11 DEF JobActs, Job!Work

LEMMA JudgedKept ==
    ASSUME JobInv, NEW w \in Backfillers, JobActs(w)
    PROVE  Judged(w)'
  <1>1. PcType /\ LocalType /\ Judged(w) /\ Types /\ Placed(w) /\ Backed(w)
    BY DEF JobInv, Types
  <1>2. job.completed \subseteq job'.completed
    BY <1>1, Grows
  <1>3. SUFFICES ASSUME jobPc'[w] \in {"finalize", "close"}, ~partial'[w]
                 PROVE  Job!Endpoints \subseteq job'.completed
    BY DEF Judged
  <1>4. CASE Job!Refresh(w)
    BY <1>1, <1>2, <1>3, <1>4 DEF Job!Refresh, Job!Incomplete, LocalType
  <1>5. CASE Job!Finalize(w)
    BY <1>1, <1>2, <1>3, <1>5 DEF Job!Finalize, Judged, Job!own
  <1>6. CASE Job!Beat(w) \/ Job!Stall(w) \/ Job!Sweep(w)
    BY <1>1, <1>2, <1>3, <1>6 DEF Job!Beat, Job!Stall, Job!Sweep, Job!own, Judged
  <1>7. CASE Job!Notice(w)
    BY <1>1, <1>2, <1>3, <1>7 DEF Job!Notice, Job!Goto, Job!own, Judged, PcType
  <1>8. CASE \/ Job!Acquire(w) \/ Job!Prepare(w) \/ Job!Start(w) \/ Job!FetchFails(w)
             \/ Job!Except(w) \/ Job!Crash(w) \/ Job!Cancel(w) \/ Job!Store(w)
    BY <1>1, <1>3, <1>8
       DEF Job!Acquire, Job!Prepare, Job!Start, Job!FetchFails, Job!Except, Job!Crash,
           Job!Cancel, Job!Store, Job!Goto, PcType
  <1>9. CASE Job!Complete(w) \/ Job!Fail(w) \/ Job!Close(w)
    BY <1>1, <1>3, <1>9 DEF Job!Complete, Job!Fail, Job!Close, Job!Goto, PcType
  <1>10. CASE Job!Finish(w)
    BY <1>1, <1>3, <1>10 DEF Job!Finish, Job!Goto, PcType
  <1>11. CASE Job!Skip(w)
    BY <1>1, <1>3, <1>11 DEF Job!Skip
  <1>12. CASE \E rows \in BOOLEAN : Job!Fetch(w, rows)
    BY <1>1, <1>3, <1>12 DEF Job!Fetch, Job!Goto, PcType
  <1>13. QED
    BY <1>4, <1>5, <1>6, <1>7, <1>8, <1>9, <1>10, <1>11, <1>12 DEF JobActs, Job!Work

\* Only a worker that found every endpoint complete calls the job or the room whole.
LEMMA WholeKept ==
    ASSUME JobInv, NEW w \in Backfillers, JobActs(w)
    PROVE  Job!WholeIsWhole'
  <1>1. Job!WholeIsWhole /\ Judged(w) /\ Types /\ Placed(w) /\ Backed(w) /\ JobType
    BY DEF JobInv, Types
  <1>2. job.completed \subseteq job'.completed
    BY <1>1, Grows
  <1>3. CASE Job!Close(w)
    <2>1. job'.status = "completed" => Job!Endpoints \subseteq job.completed
      BY <1>1, <1>3 DEF Job!Close, Judged, JobType
    <2>2. room' = room
      BY <1>3 DEF Job!Close
    <2>3. QED
      BY <1>1, <1>2, <2>1, <2>2 DEF Job!WholeIsWhole
  <1>4. CASE Job!Finalize(w)
    <2>1. room'.ing = "ready" => Job!Endpoints \subseteq job.completed
      BY <1>1, <1>4 DEF Job!Finalize, Judged
    <2>2. job' = job
      BY <1>4 DEF Job!Finalize
    <2>3. QED
      BY <1>1, <1>2, <2>1, <2>2 DEF Job!WholeIsWhole
  <1>5. CASE Job!Prepare(w)
    BY <1>1, <1>2, <1>5 DEF Job!Prepare, Job!Reopened, JobType, Job!WholeIsWhole
  <1>6. CASE Job!Complete(w) \/ Job!Fail(w)
    BY <1>1, <1>2, <1>6 DEF Job!Complete, Job!Fail, JobType, Job!WholeIsWhole
  <1>7. CASE /\ ~Job!Close(w) /\ ~Job!Finalize(w) /\ ~Job!Prepare(w) /\ ~Job!Complete(w)
             /\ ~Job!Fail(w)
    <2>1. UNCHANGED job /\ UNCHANGED room
      BY <1>7
         DEF JobActs, Job!Work, Job!Acquire, Job!FetchFails, Job!Crash, Job!Fetch, Job!Skip,
             Job!Start, Job!Store, Job!Refresh, Job!Finish, Job!Except, Job!Beat, Job!Notice,
             Job!Stall, Job!Sweep, Job!Cancel
    <2>2. QED
      BY <1>1, <2>1 DEF Job!WholeIsWhole
  <1>8. QED
    BY <1>3, <1>4, <1>5, <1>6, <1>7

LEMMA JobInvKept == ASSUME JobInv, [Job!Next]_(Job!vars) PROVE JobInv'
  <1>1. Types'
    BY TypesKept
  <1>2. ASSUME NEW w \in Backfillers, JobActs(w)
        PROVE  Job!CheckpointsBacked' /\ Job!WholeIsWhole' /\ \A v \in Backfillers : JobMine(v)'
    <2>1. Job!CheckpointsBacked'
      BY <1>2, Grows DEF JobInv, Types, Job!CheckpointsBacked
    <2>2. JobMine(w)'
      BY <1>2, PlacedKept, BackedKept, RunKnownKept, JudgedKept DEF JobMine
    <2>3. QED
      BY <1>2, <2>1, <2>2, JobOthersKept, WholeKept
  <1>3. CASE Job!DropLease \/ UNCHANGED Job!vars
    <2>1. UNCHANGED <<job, jobPc, jobAt, got, partial, run, jobStored, room>>
      BY <1>3 DEF Job!DropLease, Job!vars, Job!own
    <2>2. Job!CheckpointsBacked' /\ Job!WholeIsWhole'
      BY <2>1 DEF JobInv, Job!CheckpointsBacked, Job!WholeIsWhole
    <2>3. \A v \in Backfillers : JobMine(v)'
      BY <2>1
         DEF JobInv, JobMine, Placed, AtEndpoint, Backed, RunKnown, Judged, Job!EndpointOf
    <2>4. QED
      BY <1>1, <2>2, <2>3 DEF JobInv, Types, JobMine
  <1>4. QED
    BY <1>1, <1>2, <1>3 DEF Job!Next, JobActs, JobInv, Types, JobMine

LEMMA InitJobInv == Job!Init => JobInv
  <1>1. SUFFICES ASSUME Job!Init PROVE JobInv
    OBVIOUS
  <1>2. JobType /\ Job!WholeIsWhole /\ Job!CheckpointsBacked
    <2>1. job = Job!NoJob /\ jobStored = {} /\ room.ing = "pending"
      BY <1>1 DEF Job!Init
    <2>2. JobType
      BY <2>1 DEF Job!NoJob, JobType
    <2>3. Job!CheckpointsBacked
      BY <2>1 DEF Job!NoJob, Job!CheckpointsBacked
    <2>4. Job!WholeIsWhole
      BY <2>1 DEF Job!NoJob, Job!None, Job!WholeIsWhole
    <2>5. QED
      BY <2>2, <2>3, <2>4
  <1>3. RunType
    <2>1. Job!NoRun \in Rows
      BY DEF Job!NoRun, Rows
    <2>2. QED
      BY <1>1, <2>1 DEF Job!Init, RunType
  <1>4. PcType /\ AtType /\ LocalType /\ RoomType
    BY <1>1, JobOK DEF Job!Init, PcType, Job!Steps, AtType, LocalType, RoomType
  <1>5. \A w \in Backfillers : Placed(w) /\ Backed(w) /\ RunKnown(w) /\ Judged(w)
    BY <1>1 DEF Job!Init, Placed, AtEndpoint, Backed, RunKnown, Judged
  <1>6. QED
    BY <1>2, <1>3, <1>4, <1>5 DEF JobInv

\* JobInv is inductive.
THEOREM SpecJobInv == Job!Spec => []JobInv
  BY InitJobInv, JobInvKept, PTL DEF Job!Spec

LEMMA JobInvHolds ==
    ASSUME JobInv
    PROVE  /\ Job!TypeOK /\ Job!CheckpointsBacked
           /\ Job!RunsAgree /\ Job!WholeIsWhole
  <1>1. Job!TypeOK
    BY DEF JobInv, Job!TypeOK, JobType, RunType, Rows, PcType, AtType, LocalType, RoomType
  <1>2. Job!CheckpointsBacked /\ Job!RunsAgree /\ Job!WholeIsWhole
    BY DEF JobInv, Job!RunsAgree, RunKnown
  <1>3. QED
    BY <1>1, <1>2

\* No checkpoint is lost, whoever rewrites the row of the job.
THEOREM CheckpointsAreKept == Job!Spec => Job!CheckpointsKept
  <1>1. ASSUME JobInv, [Job!Next]_(Job!vars)
        PROVE  [job.completed \subseteq job'.completed]_(Job!vars)
    <2>1. ASSUME NEW w \in Backfillers, JobActs(w) PROVE job.completed \subseteq job'.completed
      BY <1>1, <2>1, Grows DEF JobInv, Types
    <2>2. CASE Job!DropLease
      BY <2>2 DEF Job!DropLease
    <2>3. QED
      BY <1>1, <2>1, <2>2 DEF Job!Next, JobActs
  <1>2. QED
    BY <1>1, SpecJobInv, PTL DEF Job!Spec, Job!CheckpointsKept

-----------------------------------------------------------------------------
(***************************************************************************)
(* The parts side by side.  Only one part moves in a behaviour, so what    *)
(* the specification of a component keeps is kept by the whole.            *)
(***************************************************************************)

OtherParts ==
    {"handover", "status", "mqtt", "fetched", "reconcile", "command", "locations", "ceiling"}

\* A step of the composition is a step of the part that moves.
LEMMA OnePart ==
    ASSUME PartsNext
    PROVE  \/ UNCHANGED partsVars
           \/ Only("locks") /\ Next
           \/ Only("duties") /\ Duty!Next
           \/ Only("backfill") /\ Job!Next
           \/ \E p \in OtherParts : Only(p)
  BY Zenon DEF PartsNext, OtherParts

\* It never changes which part moves.
LEMMA PartStays ==
    ASSUME [PartsNext]_partsVars
    PROVE  part' = part
  BY OnePart DEF Only, partsVars

\* The locks of the writers move as their own specification says.
LEMMA LocksStep ==
    ASSUME [PartsNext]_partsVars
    PROVE  [Next]_vars
  <1>1. CASE UNCHANGED partsVars
    BY <1>1 DEF partsVars
  <1>2. Only("duties") => UNCHANGED vars
    BY DEF Only
  <1>3. Only("backfill") => UNCHANGED vars
    BY DEF Only
  <1>4. ASSUME NEW p \in OtherParts, Only(p)
        PROVE  UNCHANGED vars
    BY <1>4 DEF Only, OtherParts
  <1>5. QED
    BY <1>1, <1>2, <1>3, <1>4, OnePart, Zenon

\* A step with part duties is a step of WorkerDuties, and one with part
\* backfill is a step of BackfillJob.
LEMMA DutiesStep ==
    ASSUME [PartsNext]_partsVars, part = "duties"
    PROVE  [Duty!Next]_(Duty!vars)
  <1>1. CASE UNCHANGED partsVars
    BY <1>1 DEF partsVars, workerVars, Duty!vars
  <1>2. ~Only("locks") /\ ~Only("backfill")
    BY DEF Only
  <1>3. ASSUME NEW p \in OtherParts
        PROVE  ~Only(p)
    BY DEF Only, OtherParts
  <1>4. QED
    BY <1>1, <1>2, <1>3, OnePart, Zenon

LEMMA BackfillStep ==
    ASSUME [PartsNext]_partsVars, part = "backfill"
    PROVE  [Job!Next]_(Job!vars)
  <1>1. CASE UNCHANGED partsVars
    BY <1>1 DEF partsVars, jobVars, Job!vars
  <1>2. ~Only("locks") /\ ~Only("duties")
    BY DEF Only
  <1>3. ASSUME NEW p \in OtherParts
        PROVE  ~Only(p)
    BY DEF Only, OtherParts
  <1>4. QED
    BY <1>1, <1>2, <1>3, OnePart, Zenon

\* The composition implements the specification of the locks, so everything
\* proved of WriterLocks holds in it.
THEOREM PartsKeepLocks == PartsSpec => Spec
  <1>1. PartsInit => Init
    BY DEF PartsInit
  <1>2. QED
    BY <1>1, LocksStep, PTL DEF PartsSpec, Spec

\* The duties are behind the lease, for any processes and any number of faults.
THEOREM DutiesAreSafe == PartsSpec => []DutiesSafe
  <1> DEFINE Held == part = "duties" => DutyInv
  <1>1. PartsInit => Held
    <2>1. PartsInit /\ part = "duties" => Duty!Init
      BY DEF PartsInit
    <2>2. QED
      BY <2>1, InitDutyInv
  <1>2. Held /\ [PartsNext]_partsVars => Held'
    BY DutiesStep, PartStays, DutyInvKept
  <1>3. Held => DutiesSafe
    <2>1. DutyInv => Duty!TypeOK
      BY DEF DutyInv
    <2>2. QED
      BY <2>1, DutyInvHolds DEF DutiesSafe
  <1>4. QED
    BY <1>1, <1>2, <1>3, PTL DEF PartsSpec

\* Checkpoints are backed by rows and workers by their runs, for any workers
\* and any order of the endpoints.
THEOREM BackfillsDoAgree == PartsSpec => []BackfillsAgree
  <1> DEFINE Held == part = "backfill" => JobInv
  <1>1. PartsInit => Held
    <2>1. PartsInit /\ part = "backfill" => Job!Init
      BY DEF PartsInit
    <2>2. QED
      BY <2>1, InitJobInv
  <1>2. Held /\ [PartsNext]_partsVars => Held'
    BY BackfillStep, PartStays, JobInvKept
  <1>3. Held => BackfillsAgree
    BY JobInvHolds DEF BackfillsAgree
  <1>4. QED
    BY <1>1, <1>2, <1>3, PTL DEF PartsSpec
=============================================================================
