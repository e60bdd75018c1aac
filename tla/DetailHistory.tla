---------------------------- MODULE DetailHistory ----------------------------
(***************************************************************************)
(* The factual history of one session as it is kept for readers            *)
(* (services/history_checkpointing.py, race_state.apply, _persist_detail   *)
(* of storage/intelligence_progress.py, the scan of history_details.py).   *)
(* The projection keeps the whole history in memory and now and then       *)
(* encodes it into an immutable checkpoint; what it publishes carries only *)
(* a reference: the checkpoint and the last relevant fact.  A reader       *)
(* rebuilds the history a view refers to from the checkpoint and the facts *)
(* of the log behind it, within limits, or says that it is unavailable.    *)
(*                                                                         *)
(* A history is the set of the positions of its relevant facts; what their *)
(* values make of it is the subject of FactualContext.                     *)
(***************************************************************************)
EXTENDS Integers, Sequences, FiniteSetsExt

CONSTANTS
    Every,      \* relevant facts between two encodings: 64
    Span,       \* positions between two encodings, and of one scan: 2048
    Transforms, \* relevant facts a reader applies: 128
    SnapEvery,  \* positions between two snapshots: 10
    Legacy,     \* the log an older release has left
    MaxLog,     \* bound on the log
    MaxFaults,  \* bound on crashes and lost responses
    None

Kinds == {"sample", "fact", "large", "finish"}

HistoryAssumption ==
    /\ {Every, Span, Transforms, SnapEvery} \subseteq Nat \ {0}
    /\ {MaxLog, MaxFaults} \subseteq Nat 
    /\ Legacy \in Seq(Kinds \cup {"derived"}) /\ Len(Legacy) <= MaxLog

VARIABLES
    \* durable: the log, the progress row, the checkpoints and snapshots
    log, done, pending, ref, detail, blobs, snaps,
    private, \* the tracker of the loaded projection, None when not loaded
    shown,   \* the state that was published last
    faults

stored == <<log, done, pending, ref, detail, blobs, snaps>>
vars == <<log, done, pending, ref, detail, blobs, snaps, private, shown, faults>>

\* A large fact is one after which the history is too large to be encoded.
Relevant(i) == log[i] \in {"fact", "large", "finish"}
RelevantUpTo(n) == {i \in 1..n : Relevant(i)}
Count(n) == Cardinality(RelevantUpTo(n))
LastRelevant(n) == Max(RelevantUpTo(n) \cup {0})

-----------------------------------------------------------------------------
(* HistoryCheckpointTracker.                                               *)

Fresh == [base |-> 0, count |-> 0, at |-> 0, status |-> "legacy"]

Due(t, i) ==
    \/ t.at = 0 \/ log[i] = "finish"
    \/ Count(i) - t.count >= Every \/ i - t.at >= Span

Encoded(t, i) ==
    IF log[i] = "large"
    THEN [t EXCEPT !.count = Count(i), !.at = i, !.status = "checkpoint_bytes"]
    ELSE [base |-> i, count |-> Count(i), at |-> i, status |-> "available"]

Advance(t, i) == IF Relevant(i) /\ Due(t, i) THEN Encoded(t, i) ELSE t

\* Replaying the acknowledged prefix without effects.
Rebuilt(n) ==
    LET t[i \in 0..n] == IF i = 0 THEN Fresh ELSE Advance(t[i - 1], i) IN t[n]

Reference(t, n) == IF t.base = 0 THEN None ELSE [base |-> t.base, last |-> LastRelevant(n)]

\* The state that a projection with tracker t, complete up to n, publishes.
View(t, n) == [at |-> n, ref |-> Reference(t, n), detail |-> t.status]

-----------------------------------------------------------------------------
(* The projection.                                                         *)

WriterInit ==
    /\ log = Legacy /\ done = Len(Legacy) /\ pending = 0
    /\ ref = None /\ detail = "legacy" /\ blobs = {} /\ snaps = {}
    /\ private = None /\ shown = View(Fresh, 0) /\ faults = 0

Restore ==
    /\ private = None /\ private' = Rebuilt(done)
    /\ UNCHANGED <<log, done, pending, ref, detail, blobs, snaps, shown, faults>>

Admit(kind) ==
    /\ private # None /\ pending = 0 /\ Len(log) < MaxLog
    /\ log' = Append(log, kind) /\ pending' = Len(log) + 1
    /\ UNCHANGED <<done, ref, detail, blobs, snaps, private, shown, faults>>

\* A checkpoint is written with the fact that it was made at.
NewBlob(t) == IF t.base = pending THEN {t.base} ELSE {}

\* A reference that changes must have its checkpoint.
Backed(t) ==
    \A r \in {Reference(t, pending)} \ {None, ref} : r.base \in blobs \cup NewBlob(t)

\* A snapshot when the projection crosses or reaches a multiple of SnapEvery.
SnapDue(through) ==
    \/ (pending - 1) \div SnapEvery # through \div SnapEvery
    \/ log[pending] = "finish"

Commit(t, through) ==
    /\ log' = log \o [i \in 1..(through - pending) |-> "derived"]
    /\ done' = through /\ pending' = 0
    /\ ref' = Reference(t, pending) /\ detail' = t.status
    /\ blobs' = IF Reference(t, pending) = ref THEN blobs ELSE blobs \cup NewBlob(t)
    /\ snaps' = IF SnapDue(through)
                THEN snaps \cup {[View(t, pending) EXCEPT !.at = through]} ELSE snaps

\* The pending fact is reduced and committed with the facts derived from it.
Project(through) ==
    LET t == Advance(private, pending)
    IN  /\ private # None /\ pending # 0 /\ Backed(t)
        /\ Commit(t, through)
        /\ \/ private' = t /\ UNCHANGED faults
           \/ faults < MaxFaults /\ faults' = faults + 1 /\ private' = None
        /\ UNCHANGED shown

\* HistoryCheckpointConflictError: the engine is reloaded before the next try.
Refused ==
    /\ private # None /\ pending # 0 /\ ~Backed(Advance(private, pending))
    /\ private' = None
    /\ UNCHANGED <<log, done, pending, ref, detail, blobs, snaps, shown, faults>>

Publish ==
    /\ private # None /\ pending = 0 /\ shown' = View(private, done)
    /\ UNCHANGED <<log, done, pending, ref, detail, blobs, snaps, private, faults>>

Crash ==
    /\ private # None /\ faults < MaxFaults /\ faults' = faults + 1
    /\ private' = None
    /\ UNCHANGED <<log, done, pending, ref, detail, blobs, snaps, shown>>

Derived == {pending + n : n \in {m \in 0..1 : pending + m <= MaxLog}}

WriterNext ==
    \/ Restore \/ Refused \/ Publish \/ Crash
    \/ \E kind \in Kinds : Admit(kind)
    \/ \E through \in Derived : Project(through)

WriterSpec == WriterInit /\ [][WriterNext]_vars

\* Recovery attempts are repeated for as long as a fact is pending.
FairWriterSpec ==
    /\ WriterSpec
    /\ WF_vars(Restore) /\ WF_vars(Refused) /\ WF_vars(\E n \in Derived : Project(n))

-----------------------------------------------------------------------------
(* HistoryDetailReader._read.                                              *)

Unavailable(why) == [ok |-> FALSE, why |-> why, facts |-> {}]

\* Mutant: the facts between the snapshot and the cursor are left out.
SnapshotOnly(view, target) == RelevantUpTo(view.ref.last)

\* The history of a view's checkpoint, the facts up to its last one, and the
\* facts between the view and the cursor.
Collected(view, target) ==
    RelevantUpTo(view.ref.last) \cup {i \in RelevantUpTo(target) : i > view.at}

Scanned(view, target) == (view.ref.last - view.ref.base) + (target - view.at)

Applied(view, target) ==
    Cardinality({i \in Collected(view, target) : i > view.ref.base})

Read(view, target) ==
    CASE view.detail = "checkpoint_bytes" -> Unavailable("checkpoint_bytes")
      [] view.detail # "checkpoint_bytes" /\ view.ref = None -> Unavailable("unverified")
      [] OTHER ->
            IF target < view.at THEN Unavailable("view_cursor_mismatch")
            ELSE IF view.ref.base \notin blobs THEN Unavailable("checkpoint_missing")
            ELSE IF Scanned(view, target) > Span THEN Unavailable("source_scan_limit")
            ELSE IF Applied(view, target) > Transforms THEN Unavailable("relevant_limit")
            ELSE [ok |-> TRUE, why |-> "", facts |-> Collected(view, target)]

Candidates(cursor) ==
    {s \in snaps : s.ref # None /\ s.at <= cursor /\ s.at > cursor - Span}

ReadAt(cursor) ==
    IF Candidates(cursor) = {} THEN Unavailable("snapshot_missing")
    ELSE LET s == CHOOSE s \in Candidates(cursor) :
                      \A other \in Candidates(cursor) : other.at <= s.at
         IN  Read(s, cursor)

-----------------------------------------------------------------------------
(* Properties.                                                             *)

View_ == [at : Nat, ref : {None} \cup [base : Nat, last : Nat],
          detail : {"legacy", "available", "checkpoint_bytes"}]

TypeOK ==
    /\ log \in Seq(Kinds \cup {"derived"}) /\ Len(log) <= MaxLog
    /\ done \in 0..Len(log) /\ pending \in {0, done + 1} /\ faults \in 0..MaxFaults
    /\ snaps \subseteq View_ /\ shown \in View_
    /\ [at |-> done, ref |-> ref, detail |-> detail] \in View_

\* No reference is acknowledged, or kept in a snapshot, without its checkpoint.
ReferencesBacked ==
    /\ ref # None => ref.base \in blobs
    /\ \A s \in snaps : s.ref # None => s.ref.base \in blobs

\* "Exact selected reads are bounded and may report unavailable, never
\* substitute latest history for an older cursor": what is answered for an
\* acknowledged cursor is every relevant fact up to it and nothing later.
ExactOrUnavailable ==
    \A c \in 1..done : ReadAt(c).ok => ReadAt(c).facts = RelevantUpTo(c)

\* The cadence of the checkpoints keeps every published state within the limits
\* of the reader: its history can be read unless it was too large to encode.
LiveReadable ==
    shown.ref # None /\ shown.detail = "available" =>
        LET a == Read(shown, shown.at) IN a.ok /\ a.facts = RelevantUpTo(shown.at)

\* "Effects-off restart reconstructs the same cadence/status": the projection
\* holds the reference and the status that are stored.
RestartAgrees ==
    private # None /\ pending = 0 =>
        ref = Reference(private, done) /\ detail = private.status

\* "Retry pending work before subsequent intake, including periodic recovery of
\* a final failed source": an admitted fact is projected in the end.
PendingProjected == pending # 0 ~> pending = 0
=============================================================================
