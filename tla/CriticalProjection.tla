------------------------- MODULE CriticalProjection -------------------------
(***************************************************************************)
(* The critical intelligence projection of one session: every source fact  *)
(* is admitted to the durable event log, reduced by a private engine, and  *)
(* committed together with the facts derived from it before any reader may *)
(* see its effect ("staged privately, acknowledged durably, then exposed": *)
(* services/intelligence_recovery.py).                                     *)
(*                                                                         *)
(* Several processes run this code on one database: the leased ingestor, a *)
(* successor waiting for its lease, maintenance commands.  A database      *)
(* transaction is one step (its advisory locks exclude every other writer  *)
(* of the session); every await between transactions is a step boundary.   *)
(* Dead processes, lost commit responses, cancellations and exceptions may *)
(* happen at each of them, at most MaxFaults times in a behaviour.         *)
(***************************************************************************)
EXTENDS Naturals, Sequences

CONSTANTS
    Facts,      \* source facts, named by their deduplication key
    Emits,      \* Emits[S][f]: how many facts f derives once S is reduced
    Legacy,     \* the log before its progress was recorded
    Procs,      \* processes that run the event processor
    Workers,    \* those of them that compete for the ingestor lease
    MaxFaults,  \* bound on crashes, lost sockets and failing awaits
    None        \* stands for Python's None

\* The durable log of one session is a sequence of normalized race events
\* whose positions are their sequence numbers.  A source fact comes from the
\* provider; a derived fact is computed by the detectors from a source fact and
\* everything reduced before it.
Source(f) == [kind |-> "source", fact |-> f, nth |-> 0]
Derived(f, k) == [kind |-> "derived", fact |-> f, nth |-> k]
Record == [kind : {"source", "derived"}, fact : Facts, nth : Nat]

ASSUME EmitsAssumption == Emits \in [SUBSET Facts -> [Facts -> Nat]]
ASSUME LegacyAssumption == Legacy \in Seq(Record)
ASSUME LegacyFactsAssumption ==
    \A i, j \in DOMAIN Legacy :
        /\ Legacy[i].kind = "source"
        /\ Legacy[j].kind = "source"
        /\ Legacy[i].fact = Legacy[j].fact
        => i = j
ASSUME WorkersAssumption == Workers \subseteq Procs
ASSUME NoneAssumption ==
    None \notin Facts /\ None \notin Procs /\ None \notin [source : Nat, through : Nat]
ASSUME MaxFaultsAssumption == MaxFaults \in Nat

VARIABLES
    \* durable: normalized_race_events, session_intelligence_progress, raw rows
    log, row, raw,
    \* the ingestor lease: its holder in PostgreSQL, each process's belief
    owner, leased,
    \* private memory: _ready anchor, working engine, public engine
    ready, working, public,
    \* the flow that holds the session lock, and its local variables
    pc, progress, job, target, staged, sent,
    \* which process handed which position to the consumers, oldest first
    notified,
    faults

durable == <<log, row, raw>>
lease == <<owner, leased>>
memory == <<ready, working, public>>
locals == <<progress, job, target, staged, sent>>
vars == <<log, row, raw, owner, leased, ready, working, public, pc,
          progress, job, target, staged, sent, notified, faults>>

\* The source facts reduced by a run over the log (or log prefix) w.
FactsIn(w) == {w[i].fact : i \in {j \in DOMAIN w : w[j].kind = "source"}}

\* The position of the last source fact of w, 0 when it has none.
LastSource(w) ==
    LET at == {i \in DOMAIN w : w[i].kind = "source"}
        IsLast(i) == \A j \in at : j <= i
    IN  IF \E i \in at : IsLast(i) THEN CHOOSE i \in at : IsLast(i) ELSE 0

\* What the detectors derive from f when the facts of w came before it.  They
\* are deterministic in the reduced prefix, which is all the protocol needs.
Effects(w, f) == [k \in 1 .. Emits[FactsIn(w)][f] |-> Derived(f, k)]

Prefix(w, n) == SubSeq(w, 1, n)

Row == [known : BOOLEAN, source : Nat, through : Nat, pending : Nat, failed : BOOLEAN]
NoRow == [known |-> FALSE, source |-> 0, through |-> 0, pending |-> 0, failed |-> FALSE]
AnchorOf(r) == [source |-> r.source, through |-> r.through]

\* The row _record inserts on first contact with a session that already has a log.
Baseline == [known |-> TRUE, source |-> LastSource(log), through |-> Len(log),
             pending |-> 0, failed |-> FALSE]

Init ==
    /\ log = Legacy /\ row = NoRow
    /\ raw = [f \in Facts |-> "pending"]
    /\ owner = None /\ leased = [p \in Procs |-> FALSE]
    /\ ready = [p \in Procs |-> None]
    /\ working = [p \in Procs |-> <<>>]
    /\ public = [p \in Procs |-> <<>>]
    /\ pc = [p \in Procs |-> "idle"]
    /\ progress = [p \in Procs |-> NoRow]
    /\ job = [p \in Procs |-> None]
    /\ target = [p \in Procs |-> 0]
    /\ staged = [p \in Procs |-> <<>>]
    /\ sent = [p \in Procs |-> 0]
    /\ notified = <<>>
    /\ faults = 0

(***************************************************************************)
(* Helpers.                                                                *)
(***************************************************************************)

\* When a transaction of _write commits, its process owns the lease or nobody
\* does (module WriterLocks: HandoffDrained).
CanWrite(p) == owner \in {p, None}

\* When it is refused: the lease holder's own connection no longer holds the
\* lease, or the lease another process would need to be free is not.
Refused(p) == owner # (IF leased[p] THEN p ELSE None)

Goto(p, label) == pc' = [pc EXCEPT ![p] = label]

\* Local variables go out of scope.
Forget(p, label) ==
    /\ Goto(p, label)
    /\ progress' = [progress EXCEPT ![p] = NoRow]
    /\ job' = [job EXCEPT ![p] = None]
    /\ target' = [target EXCEPT ![p] = 0]
    /\ staged' = [staged EXCEPT ![p] = <<>>]
    /\ sent' = [sent EXCEPT ![p] = 0]

\* The flow returns or raises and releases the session lock.
Leave(p) == Forget(p, "idle")

\* The except clause of _project: a partly mutated engine is never reused.
Distrust(p) == ready' = [ready EXCEPT ![p] = None]

Fault == faults < MaxFaults /\ faults' = faults + 1

(***************************************************************************)
(* initialize_session.                                                     *)
(***************************************************************************)

\* A delivery, a flush or the recovery sweep takes the session lock and a pin.
Begin(p) ==
    /\ pc[p] = "idle"
    /\ Goto(p, "loading")
    /\ UNCHANGED <<durable, lease, memory, locals, notified, faults>>

\* repository.initialize: read the progress row, inserting it when absent.
Load(p) ==
    /\ pc[p] = "loading" /\ CanWrite(p)
    /\ row' = IF row.known THEN row ELSE Baseline
    /\ progress' = [progress EXCEPT ![p] = row']
    /\ Goto(p, IF ready[p] = AnchorOf(row') THEN "checking" ELSE "restoring")
    /\ UNCHANGED <<log, raw, lease, memory, job, target, staged, sent, notified, faults>>

LoadRefused(p) ==
    /\ pc[p] = "loading" /\ Refused(p)
    /\ Leave(p)
    /\ UNCHANGED <<durable, lease, memory, notified, faults>>

\* Mutants: the restore stops at the completed source; it replays nothing.
RestoreToSource(p) ==
    /\ pc[p] = "restoring"
    /\ working' = [working EXCEPT ![p] = Prefix(log, progress[p].source)]
    /\ Goto(p, "exposing")
    /\ UNCHANGED <<durable, lease, ready, public, locals, notified, faults>>

RestoreNothing(p) ==
    /\ pc[p] = "restoring"
    /\ working' = [working EXCEPT ![p] = <<>>]
    /\ Goto(p, "exposing")
    /\ UNCHANGED <<durable, lease, ready, public, locals, notified, faults>>

\* coordinator.restore_session: replay the completed prefix without effects.
Restore(p) ==
    /\ pc[p] = "restoring"
    /\ working' = [working EXCEPT ![p] = Prefix(log, progress[p].through)]
    /\ Goto(p, "exposing")
    /\ UNCHANGED <<durable, lease, ready, public, locals, notified, faults>>

\* public_state.install_state, then the anchor.
Expose(p) ==
    /\ pc[p] = "exposing"
    /\ public' = [public EXCEPT ![p] = working[p]]
    /\ ready' = [ready EXCEPT ![p] = AnchorOf(progress[p])]
    /\ Goto(p, "checking")
    /\ UNCHANGED <<durable, lease, working, locals, notified, faults>>

\* Mutant: initialization does not look for pending work.
CheckNothing(p) ==
    /\ pc[p] = "checking"
    /\ progress' = [progress EXCEPT ![p] = NoRow]
    /\ Goto(p, "choosing")
    /\ UNCHANGED <<durable, lease, memory, target, job, staged, sent, notified, faults>>

\* pending_source: an admitted fact whose projection never committed is next.
CheckPending(p) ==
    /\ pc[p] = "checking"
    /\ target' = [target EXCEPT ![p] = progress[p].pending]
    /\ progress' = [progress EXCEPT ![p] = NoRow]
    /\ Goto(p, IF progress[p].pending = 0 THEN "choosing" ELSE "reducing")
    /\ UNCHANGED <<durable, lease, memory, job, staged, sent, notified, faults>>

(***************************************************************************)
(* append: intake of one fact by the initialized session.                  *)
(***************************************************************************)

\* The ordering buffer releases a fact; redeliveries make it any fact at all.
Take(p, f) ==
    /\ pc[p] = "choosing"
    /\ job' = [job EXCEPT ![p] = f]
    /\ Goto(p, "appending")
    /\ UNCHANGED <<durable, lease, memory, progress, target, staged, sent, notified, faults>>

\* Nothing (more) to append: recover_session, or the batch is flushed.
Finish(p) ==
    /\ pc[p] = "choosing"
    /\ Leave(p)
    /\ UNCHANGED <<durable, lease, memory, notified, faults>>

\* append_source's guards before it looks the deduplication key up.
MayAppend(p) ==
    /\ CanWrite(p)
    /\ ready[p] = AnchorOf(row)
    /\ row.pending = 0

\* The insert of append_source: the next position, and the row points at it.
AdmitSource(p) ==
    /\ MayAppend(p)
    /\ job[p] \notin FactsIn(log)
    /\ Len(log) = row.through
    /\ log' = Append(log, Source(job[p]))
    /\ row' = [row EXCEPT !.pending = Len(log) + 1]

AppendNew(p) ==
    /\ pc[p] = "appending" /\ AdmitSource(p)
    /\ target' = [target EXCEPT ![p] = Len(log) + 1]
    /\ Goto(p, "reducing")
    /\ UNCHANGED <<raw, lease, memory, progress, job, staged, sent, notified, faults>>

\* Mutant: the existing event is returned as committed and announced again.
AppendExistingAnnounced(p) ==
    /\ pc[p] = "appending" /\ MayAppend(p) /\ job[p] \in FactsIn(log)
    /\ target' = [target EXCEPT ![p] = CHOOSE i \in DOMAIN log : log[i] = Source(job[p])]
    /\ Goto(p, "notifying")
    /\ UNCHANGED <<durable, lease, memory, progress, job, staged, sent, notified, faults>>

\* The key is already in the log: nothing is projected.
AppendExisting(p) ==
    /\ pc[p] = "appending" /\ MayAppend(p) /\ job[p] \in FactsIn(log)
    /\ Goto(p, "marking")
    /\ UNCHANGED <<durable, lease, memory, locals, notified, faults>>

\* IntelligenceWriterConflictError, or no private predecessor at all.
AppendRefused(p) ==
    /\ pc[p] = "appending"
    /\ \/ Refused(p) \/ ~MayAppend(p)
       \/ job[p] \notin FactsIn(log) /\ Len(log) # row.through
    /\ Leave(p)
    /\ UNCHANGED <<durable, lease, memory, notified, faults>>

\* The insert committed but its response is lost: append raises.
AppendLost(p) ==
    /\ pc[p] = "appending" /\ AdmitSource(p)
    /\ Fault /\ Leave(p)
    /\ UNCHANGED <<raw, lease, memory, notified>>

(***************************************************************************)
(* _project: reduce privately, commit, expose.                             *)
(***************************************************************************)

Reduce(p) ==
    /\ pc[p] = "reducing"
    /\ LET source == log[target[p]]
       IN  /\ staged' = [staged EXCEPT ![p] = Effects(working[p], source.fact)]
           /\ working' = [working EXCEPT ![p] = Append(@, source) \o staged'[p]]
    /\ Goto(p, "committing")
    /\ UNCHANGED <<durable, lease, ready, public, progress, job, target, sent, notified, faults>>

MayCommit(p) ==
    /\ CanWrite(p)
    /\ ready[p] = AnchorOf(row)
    /\ row.pending = target[p]
    /\ Len(log) = target[p]

\* Mutant: the completed prefix ends at the source, not behind its bundle.
CompleteSourceOnly(p) ==
    /\ MayCommit(p)
    /\ log' = log \o staged[p]
    /\ row' = [row EXCEPT !.source = target[p], !.through = target[p],
                          !.pending = 0, !.failed = FALSE]

\* commit_projection: the derived facts and the completed row, atomically.
CompleteSource(p) ==
    /\ MayCommit(p)
    /\ log' = log \o staged[p]
    /\ row' = [row EXCEPT !.source = target[p],
                          !.through = target[p] + Len(staged[p]),
                          !.pending = 0,
                          !.failed = FALSE]

Commit(p) ==
    /\ pc[p] = "committing" /\ CompleteSource(p)
    /\ Goto(p, "installing")
    /\ UNCHANGED <<raw, lease, memory, locals, notified, faults>>

CommitRefused(p) ==
    /\ pc[p] = "committing" /\ (Refused(p) \/ ~MayCommit(p))
    /\ Distrust(p) /\ Goto(p, "failing")
    /\ UNCHANGED <<durable, lease, working, public, locals, notified, faults>>

\* The commit took place and its response is lost.
CommitLost(p) ==
    /\ pc[p] = "committing" /\ CompleteSource(p)
    /\ Fault /\ Distrust(p) /\ Goto(p, "failing")
    /\ UNCHANGED <<raw, lease, working, public, locals, notified>>

\* Recovered work (no job) is never announced; new work is.
Install(p) ==
    /\ pc[p] = "installing"
    /\ public' = [public EXCEPT ![p] = working[p]]
    /\ ready' = [ready EXCEPT ![p] =
                   [source |-> target[p], through |-> target[p] + Len(staged[p])]]
    /\ IF job[p] = None
       THEN Forget(p, "choosing")
       ELSE Goto(p, "notifying") /\ UNCHANGED locals
    /\ UNCHANGED <<durable, lease, working, notified, faults>>

\* record_failure, guarded by the source still being the pending one.
RecordFailure(p) ==
    /\ pc[p] = "failing"
    /\ \/ CanWrite(p) /\ row.pending = target[p] /\ row' = [row EXCEPT !.failed = TRUE]
       \/ (Refused(p) \/ row.pending # target[p]) /\ UNCHANGED row
    /\ Leave(p)
    /\ UNCHANGED <<log, raw, lease, memory, notified, faults>>

(***************************************************************************)
(* _persist_ordered after append: consumers, then the raw row.             *)
(***************************************************************************)

Notify(p) ==
    /\ pc[p] = "notifying" /\ sent[p] <= Len(staged[p])
    /\ notified' = Append(notified, [by |-> p, at |-> target[p] + sent[p]])
    /\ sent' = [sent EXCEPT ![p] = @ + 1]
    /\ Goto(p, IF sent[p] = Len(staged[p]) THEN "marking" ELSE "notifying")
    /\ UNCHANGED <<durable, lease, memory, progress, job, target, staged, faults>>

\* raw_events.mark_status; the session scope then moves to the next fact.
Mark(p) ==
    /\ pc[p] = "marking"
    /\ raw' = [raw EXCEPT ![job[p]] = IF target[p] = 0 THEN "duplicate" ELSE "normalized"]
    /\ Forget(p, "choosing")
    /\ UNCHANGED <<log, row, lease, memory, notified, faults>>

(***************************************************************************)
(* The environment: leases, eviction, failing awaits, crashes.             *)
(***************************************************************************)

\* acquire_ingestor_lease; a process that believes it holds one never retries.
AcquireLease(p) ==
    /\ p \in Workers /\ ~leased[p] /\ owner = None
    /\ owner' = p /\ leased' = [leased EXCEPT ![p] = TRUE]
    /\ UNCHANGED <<durable, memory, pc, locals, notified, faults>>

\* The lease connection drops: PostgreSQL frees the lock, the flag stays.
LoseSocket(p) ==
    /\ owner = p /\ Fault
    /\ owner' = None
    /\ UNCHANGED <<durable, leased, memory, pc, locals, notified>>

\* Mutant: eviction discards the engine and keeps its anchor.
EvictKeepingAnchor(p) ==
    /\ pc[p] = "idle" /\ ready[p] # None
    /\ working' = [working EXCEPT ![p] = <<>>]
    /\ UNCHANGED <<durable, lease, ready, public, pc, locals, notified, faults>>

\* HistoryContextPool.acquire for another session evicts this idle one.
Evict(p) ==
    /\ pc[p] = "idle" /\ ready[p] # None
    /\ Distrust(p)
    /\ working' = [working EXCEPT ![p] = <<>>]
    /\ UNCHANGED <<durable, lease, public, pc, locals, notified, faults>>

\* An exception or a cancellation outside _project: the flow is abandoned.  An
\* interrupted restore resets the detectors.
Interrupt(p) ==
    /\ pc[p] \notin {"idle", "reducing", "committing", "installing"}
    /\ Fault /\ Leave(p)
    /\ working' = IF pc[p] = "restoring" THEN [working EXCEPT ![p] = <<>>] ELSE working
    /\ UNCHANGED <<durable, lease, ready, public, notified>>

\* Mutant: a partly mutated private engine is reused.
InterruptProjectionTrusting(p) ==
    /\ pc[p] \in {"reducing", "committing", "installing"}
    /\ Fault /\ Leave(p)
    /\ \/ pc[p] = "reducing"
          /\ working' = [working EXCEPT ![p] = Append(@, log[target[p]])]
       \/ working' = working
    /\ UNCHANGED <<durable, lease, ready, public, notified>>

\* The same inside _project, with the source half applied at worst.  Only an
\* exception that is not a cancellation goes on to record_failure.
InterruptProjection(p) ==
    /\ pc[p] \in {"reducing", "committing", "installing"}
    /\ Fault /\ Distrust(p)
    /\ \/ pc[p] = "reducing"
          /\ working' = [working EXCEPT ![p] = Append(@, log[target[p]])]
       \/ working' = working
    /\ \/ Leave(p)
       \/ Goto(p, "failing") /\ UNCHANGED locals
    /\ UNCHANGED <<durable, lease, public, notified>>

Crash(p) ==
    /\ Fault /\ Leave(p) /\ Distrust(p)
    /\ working' = [working EXCEPT ![p] = <<>>]
    /\ public' = [public EXCEPT ![p] = <<>>]
    /\ leased' = [leased EXCEPT ![p] = FALSE]
    /\ owner' = IF owner = p THEN None ELSE owner
    /\ UNCHANGED <<durable, notified>>

\* One step of the flow that holds the session lock, nothing going wrong.
Step(p) ==
    \/ Load(p) \/ LoadRefused(p) \/ Restore(p) \/ Expose(p) \/ CheckPending(p)
    \/ (\E f \in Facts : Take(p, f)) \/ Finish(p)
    \/ AppendNew(p) \/ AppendExisting(p) \/ AppendRefused(p)
    \/ Reduce(p) \/ Commit(p) \/ CommitRefused(p) \/ Install(p) \/ RecordFailure(p)
    \/ Notify(p) \/ Mark(p)

Environment(p) ==
    \/ AcquireLease(p) \/ LoseSocket(p) \/ Evict(p)
    \/ AppendLost(p) \/ CommitLost(p)
    \/ Interrupt(p) \/ InterruptProjection(p) \/ Crash(p)

Next == \E p \in Procs : Begin(p) \/ Step(p) \/ Environment(p)

Spec == Init /\ [][Next]_vars

\* The leased worker's recovery sweep visits every session with pending work.
Sweep(p) == leased[p] /\ row.pending # 0 /\ Begin(p)

\* asyncio runs a started flow on; the sweep and the lease retry are loops.
Fairness ==
    /\ \A p \in Procs : WF_vars(Step(p))
    /\ \A p \in Workers : WF_vars(Sweep(p)) /\ WF_vars(AcquireLease(p))

FairSpec == Spec /\ Fairness

(***************************************************************************)
(* Properties.                                                             *)
(***************************************************************************)

Pending(f) == row.pending # 0 /\ log[row.pending] = Source(f)
Completed(f) == \E i \in 1 .. row.through : log[i].kind = "source" /\ log[i].fact = f
Orphaned == \A p \in Workers : leased[p] /\ owner # p

Anchor == [source : Nat, through : Nat]

\* The values every variable takes; Labels are the awaits of the session flow.
Labels == {"idle", "loading", "restoring", "exposing", "checking", "choosing",
           "appending", "reducing", "committing", "installing", "notifying",
           "marking", "failing"}

TypeOK ==
    /\ log \in Seq(Record) /\ row \in Row
    /\ raw \in [Facts -> {"pending", "normalized", "duplicate"}]
    /\ owner \in Workers \cup {None} /\ leased \in [Procs -> BOOLEAN]
    /\ ready \in [Procs -> Anchor \cup {None}]
    /\ working \in [Procs -> Seq(Record)] /\ public \in [Procs -> Seq(Record)]
    /\ pc \in [Procs -> Labels]
    /\ progress \in [Procs -> Row]
    /\ job \in [Procs -> Facts \cup {None}]
    /\ target \in [Procs -> Nat] /\ staged \in [Procs -> Seq(Record)]
    /\ sent \in [Procs -> Nat]
    /\ notified \in Seq([by : Procs, at : Nat])
    /\ faults \in 0 .. MaxFaults

\* Whatever fails in between, the progress row accounts for the whole log: it
\* is complete, or its last event is the one pending source fact, right behind
\* the completed prefix (append_source, commit_projection).
RowAccountsForLog ==
    row.known =>
        IF row.pending = 0
        THEN row.through = Len(log)
        ELSE /\ row.pending = Len(log)
             /\ row.pending = row.through + 1
             /\ log[row.pending].kind = "source"

\* A completed source fact is followed by exactly the facts the detectors
\* derive from the log in front of it, and then by the next source fact: no
\* crash, lost response or takeover loses, repeats or misplaces a derived fact.
BundlesComplete ==
    \A i \in Len(Legacy) + 1 .. Len(log) :
        log[i].kind = "source" /\ i # row.pending =>
            LET derived == Effects(Prefix(log, i - 1), log[i].fact)
                end == i + Len(derived)
            IN  /\ end <= Len(log)
                /\ SubSeq(log, i + 1, end) = derived
                /\ end < Len(log) => log[end + 1].kind = "source"

\* However often a fact is delivered, and to however many processes, its
\* deduplication key enters the log once.
FactOnce ==
    \A i, j \in DOMAIN log :
        /\ log[i].kind = "source" /\ log[j].kind = "source"
        /\ log[i].fact = log[j].fact
        => i = j

\* "Staged privately, acknowledged durably, then exposed": a process's public
\* engine never shows an event outside the durably completed prefix.
PublicIsDurable ==
    \A p \in Procs :
        /\ public[p] # <<>> => row.known
        /\ Len(public[p]) <= row.through
        /\ public[p] = Prefix(log, Len(public[p]))

\* An anchor equal to the row's is what lets initialize_session skip the
\* restore, so it must mean that the private engine holds that very prefix.
PrivateIsExact ==
    \A p \in Procs :
        /\ row.known /\ ready[p] = AnchorOf(row)
        /\ pc[p] \notin {"committing", "installing"}
        => working[p] = Prefix(log, row.through)

\* A raw row leaves "pending" only after its fact and the whole bundle derived
\* from it are durable: afterwards redelivery no longer normalizes it.
RawRetired ==
    \A f \in Facts : raw[f] # "pending" => Completed(f)

\* Consumers see committed events only, each at most once, and in log order
\* from any one process.
NotifiedOnce ==
    \A i \in DOMAIN notified :
        /\ notified[i].at <= row.through
        /\ \A j \in 1 .. i - 1 :
             /\ notified[j].at # notified[i].at
             /\ notified[j].by = notified[i].by => notified[j].at < notified[i].at

\* A failure code is shown for a source fact that is still pending, never left
\* behind by a late record_failure on one that somebody else completed.
FailureIsPending == row.failed => row.pending # 0

\* Within the life of a process its public state never goes back, although the
\* engine behind it is thrown away and rebuilt from the log.
PublicAdvances ==
    [][\A p \in Procs : public'[p] # <<>> => Len(public'[p]) >= Len(public[p])]_vars

\* The log is sound: the progress row accounts for all of it, no fact enters it
\* twice, and what was derived stands behind its source.
LogSound == TypeOK /\ RowAccountsForLog /\ FactOnce /\ BundlesComplete

\* The engines are exact: what is shown is durable, what is private is where its
\* anchor says, and a failure is that of a fact that is pending.
EnginesExact == PublicIsDurable /\ PrivateIsExact /\ FailureIsPending

\* Every delivery is accounted for: a raw row is retired after its bundle is durable,
\* and a consumer is told of every committed event at most once, in log order.
DeliveredOnce == RawRetired /\ NotifiedOnce

Promise == INSTANCE ProjectionLog
               WITH through <- IF row.known THEN row.through ELSE Len(log)

\* All processes together implement the one-bundle-at-a-time log.
ImplementsProjectionLog == Promise!Spec

\* An admitted source fact is projected in the end, unless every worker is left
\* holding a lease whose socket died (such a process never asks again).
PendingIsProjected == \A f \in Facts : Pending(f) ~> (Completed(f) \/ Orphaned)

(***************************************************************************)
(* The inductive invariant behind the safety properties: what each await   *)
(* of the flow of process p knows about the durable log.                   *)
(***************************************************************************)

\* An anchor read earlier: the row has since stood still or moved forward.
Lags(a) ==
    /\ row.known
    /\ a.through <= row.through
    /\ a.through = row.through => a.source = row.source

IsSource(n) == n \in 1 .. Len(log) /\ log[n].kind = "source"

UnknownRowIsEmpty == ~row.known => row = NoRow

ProgressInv(p) ==
    pc[p] \in {"restoring", "exposing", "checking"} =>
        /\ progress[p].known /\ Lags(AnchorOf(progress[p]))
        /\ progress[p].pending # 0 =>
             /\ progress[p].pending = progress[p].through + 1
             /\ IsSource(progress[p].pending)

AnchorInv(p) ==
    /\ ready[p] # None => Lags(ready[p])
    /\ pc[p] \in {"restoring", "exposing"} =>
         ready[p] = None \/ ready[p].through < progress[p].through
    /\ pc[p] = "checking" => ready[p] = AnchorOf(progress[p])
    /\ pc[p] = "failing" => ready[p] = None
    /\ pc[p] \in {"choosing", "appending", "reducing", "committing", "installing"} =>
         ready[p] # None

EngineInv(p) ==
    /\ pc[p] \in {"idle", "loading"} /\ ready[p] # None /\ ready[p].through = row.through =>
         working[p] = Prefix(log, row.through)
    /\ pc[p] = "exposing" => working[p] = Prefix(log, progress[p].through)
    /\ pc[p] \in {"checking", "choosing", "appending", "reducing", "notifying", "marking"} =>
         ready[p] # None /\ working[p] = Prefix(log, ready[p].through)
    /\ pc[p] = "committing" => working[p] = Prefix(log, target[p]) \o staged[p]
    /\ pc[p] = "installing" => working[p] = Prefix(log, target[p] + Len(staged[p]))

BundleInv(p) ==
    /\ pc[p] \in {"reducing", "committing"} =>
         target[p] = ready[p].through + 1 /\ IsSource(target[p])
    /\ pc[p] = "committing" =>
         staged[p] = Effects(Prefix(log, target[p] - 1), log[target[p]].fact)
    /\ pc[p] = "installing" =>
         Lags([source |-> target[p], through |-> target[p] + Len(staged[p])])
    /\ pc[p] \in {"appending", "notifying", "marking"} => job[p] # None
    /\ pc[p] = "appending" => target[p] = 0
    /\ pc[p] \in {"choosing", "idle", "loading", "restoring", "exposing", "checking"} =>
         job[p] = None /\ target[p] = 0
    /\ target[p] # 0 /\ job[p] # None =>
         IsSource(target[p]) /\ log[target[p]] = Source(job[p])
    /\ pc[p] \in {"installing", "notifying", "marking"} /\ target[p] # 0 =>
         target[p] <= row.through
    /\ pc[p] \in {"installing", "notifying", "failing"} => target[p] # 0
    /\ pc[p] = "marking" /\ target[p] = 0 => Completed(job[p])

PublicInv(p) ==
    /\ public[p] # <<>> => row.known
    /\ Len(public[p]) <= row.through
    /\ public[p] = Prefix(log, Len(public[p]))

Local(p) == ProgressInv(p) /\ AnchorInv(p) /\ EngineInv(p) /\ BundleInv(p) /\ PublicInv(p)

IInv ==
    /\ TypeOK
    /\ UnknownRowIsEmpty /\ RowAccountsForLog /\ FailureIsPending
    /\ \A p \in Procs : Local(p)

(***************************************************************************)
(* What is known of the announcements: a process that has committed a fact *)
(* it was handed announces the positions of its bundle, and nobody else    *)
(* has announced them or will.                                             *)
(***************************************************************************)

Announces(p) == pc[p] \in {"installing", "notifying"} /\ job[p] # None
Unannounced(p) == target[p] + sent[p] .. target[p] + Len(staged[p])

AnnounceInv(p) ==
    /\ pc[p] \notin {"notifying", "marking"} => sent[p] = 0
    /\ Announces(p) =>
         /\ target[p] + Len(staged[p]) <= row.through
         /\ \A i \in DOMAIN notified :
              /\ notified[i].at \notin Unannounced(p)
              /\ notified[i].by = p => notified[i].at < target[p] + sent[p]
         /\ \A q \in Procs \ {p} : Announces(q) => Unannounced(p) \cap Unannounced(q) = {}

NotifyInv == NotifiedOnce /\ \A p \in Procs : AnnounceInv(p)
=============================================================================
