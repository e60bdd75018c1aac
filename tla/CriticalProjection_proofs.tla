---------------------- MODULE CriticalProjection_proofs ---------------------
(****************************************************************************)
(* Safety of the critical projection for any set of processes, any facts,  *)
(* any detectors, any legacy log and any number of faults, in three parts: *)
(* facts about logs and their prefixes; the inductive invariant IInv, which *)
(* each action re-establishes for the process that moves (one step of      *)
(* NextIInv per action) while what the others know stays true because the  *)
(* log only grows and the row only moves forward (OthersKeep); and what    *)
(* follows from it, the safety properties and the refinement of            *)
(* ProjectionLog.                                                          *)
(****************************************************************************)
EXTENDS CriticalProjection, SequenceTheorems, TLAPS

(****************************************************************************)
(* Logs and their prefixes.                                                *)
(****************************************************************************)

\* v continues w: the log is append-only, so every earlier prefix of w is the
\* prefix of v of the same length.
Continues(v, w) ==
    /\ Len(w) <= Len(v)
    /\ \A i \in 1 .. Len(w) : v[i] = w[i]
    /\ \A n \in 0 .. Len(w) : Prefix(v, n) = Prefix(w, n)

\* The records of both kinds are well formed (normalized_race_events rows).
LEMMA RecordTypes ==
    /\ \A f \in Facts : Source(f) \in Record
    /\ \A f \in Facts, k \in Nat : Derived(f, k) \in Record
  BY DEF Source, Derived, Record

\* A prefix of a log is a log of the asked length.
LEMMA PrefixType ==
    ASSUME NEW w \in Seq(Record), NEW n \in 0 .. Len(w)
    PROVE  /\ Prefix(w, n) \in Seq(Record)
           /\ Len(Prefix(w, n)) = n
           /\ \A i \in 1 .. n : Prefix(w, n)[i] = w[i]
  <1>1. \A i \in 1 .. n : w[i] \in Record
    OBVIOUS
  <1>2. QED
    BY <1>1, SubSeqProperties DEF Prefix

\* The whole log is its own longest prefix.
LEMMA PrefixFull ==
    ASSUME NEW w \in Seq(Record)
    PROVE  Prefix(w, Len(w)) = w
  BY SubSeqFull DEF Prefix

\* The empty prefix.
LEMMA PrefixEmpty ==
    ASSUME NEW w
    PROVE  Prefix(w, 0) = <<>>
  BY SubSeqEmpty DEF Prefix

\* One more record of a log extends its prefix by that record.
LEMMA PrefixNext ==
    ASSUME NEW w \in Seq(Record), NEW n \in Nat, n < Len(w)
    PROVE  Prefix(w, n + 1) = Append(Prefix(w, n), w[n + 1])
  <1>1. Prefix(w, n) \in Seq(Record) /\ w[n + 1] \in Record
    BY PrefixType
  <1>2. SubSeq(w, 1, n + 1) = SubSeq(w, 1, n) \o <<w[n + 1]>>
    BY SubSeqRecursiveSecond, 1 \in 1 .. Len(w), n + 1 \in 1 .. Len(w)
  <1>3. QED
    BY <1>1, <1>2, AppendIsConcat DEF Prefix

\* Concatenation continues a log.
LEMMA ConcatContinues ==
    ASSUME NEW w \in Seq(Record), NEW v \in Seq(Record)
    PROVE  Continues(w \o v, w) /\ w \o v \in Seq(Record)
  <1>1. /\ w \o v \in Seq(Record) /\ Len(w \o v) = Len(w) + Len(v)
        /\ \A i \in 1 .. Len(w) : (w \o v)[i] = w[i]
    BY ConcatProperties
  <1>2. ASSUME NEW n \in 0 .. Len(w)
        PROVE  Prefix(w \o v, n) = Prefix(w, n)
    <2>1. CASE n = 0
      BY <2>1, PrefixEmpty
    <2>2. CASE n # 0
      BY <2>2, SubSeqOfConcat1, 1 \in 1 .. Len(w), n \in 1 .. Len(w) DEF Prefix
    <2>3. QED
      BY <2>1, <2>2
  <1>3. QED
    BY <1>1, <1>2 DEF Continues

\* Appending one record does, too.
LEMMA AppendContinues ==
    ASSUME NEW w \in Seq(Record), NEW r \in Record
    PROVE  /\ Continues(Append(w, r), w) /\ Append(w, r) \in Seq(Record)
           /\ Len(Append(w, r)) = Len(w) + 1
           /\ Append(w, r)[Len(w) + 1] = r
  <1>1. Append(w, r) = w \o <<r>> /\ <<r>> \in Seq(Record)
    BY AppendIsConcat
  <1>2. QED
    BY <1>1, ConcatContinues, AppendProperties

\* A log continues itself.
LEMMA SelfContinues ==
    ASSUME NEW w \in Seq(Record)
    PROVE  Continues(w, w)
  BY DEF Continues

\* The derived facts of any prefix are well formed derived records.
LEMMA EffectsType ==
    ASSUME NEW w \in Seq(Record), NEW f \in Facts
    PROVE  /\ Effects(w, f) \in Seq(Record)
           /\ \A i \in 1 .. Len(Effects(w, f)) : Effects(w, f)[i].kind = "derived"
  <1>1. FactsIn(w) \in SUBSET Facts
    <2>1. ASSUME NEW i \in DOMAIN w
          PROVE  w[i].fact \in Facts
      <3>1. w[i] \in Record
        BY DOMAIN w = 1 .. Len(w), ElementOfSeq
      <3>2. QED
        BY <3>1 DEF Record
    <2>2. QED
      BY <2>1 DEF FactsIn
  <1>2. Emits[FactsIn(w)][f] \in Nat
    BY <1>1, EmitsAssumption
  <1> DEFINE n == Emits[FactsIn(w)][f]
             e == [k \in 1 .. n |-> Derived(f, k)]
  <1>3. e \in [1 .. n -> Record]
    BY RecordTypes, <1>2
  <1>4. e \in Seq(Record) /\ Len(e) = n
    BY <1>2, <1>3
  <1>5. \A i \in 1 .. n : e[i].kind = "derived"
    BY DEF Derived
  <1>6. QED
    BY <1>4, <1>5 DEF Effects

\* The last source position is a sequence number (or 0).
LEMMA LastSourceType ==
    ASSUME NEW w \in Seq(Record)
    PROVE  LastSource(w) \in 0 .. Len(w)
  <1> DEFINE at == {i \in DOMAIN w : w[i].kind = "source"}
             IsLast(i) == \A j \in at : j <= i
             last == CHOOSE i \in at : IsLast(i)
  <1>1. at \subseteq 1 .. Len(w)
    OBVIOUS
  <1>2. CASE \E i \in at : IsLast(i)
    <2>1. last \in at
      BY <1>2
    <2>2. LastSource(w) = last
      BY <1>2 DEF LastSource
    <2>3. QED
      BY <1>1, <2>1, <2>2
  <1>3. CASE ~ \E i \in at : IsLast(i)
    <2>1. LastSource(w) = 0
      BY <1>3 DEF LastSource
    <2>2. QED
      BY <2>1
  <1>4. QED
    BY <1>2, <1>3

-----------------------------------------------------------------------------
(****************************************************************************)
(* The inductive invariant.                                                *)
(****************************************************************************)

\* Nothing of process q changes.
Same(q) ==
    /\ pc'[q] = pc[q] /\ progress'[q] = progress[q] /\ job'[q] = job[q]
    /\ target'[q] = target[q] /\ staged'[q] = staged[q]
    /\ ready'[q] = ready[q] /\ working'[q] = working[q] /\ public'[q] = public[q]

\* The durable state is append-only and its row monotonic.
Grows ==
    /\ Continues(log', log)
    /\ row.known => row'.known
    /\ row.through <= row'.through
    /\ row.known /\ row'.through = row.through => row'.source = row.source

Shape == UnknownRowIsEmpty /\ RowAccountsForLog /\ FailureIsPending

\* The completed prefix lies inside the log.
LEMMA ThroughInLog ==
    ASSUME TypeOK, Shape
    PROVE  row.through \in 0 .. Len(log)
  BY DEF TypeOK, Shape, UnknownRowIsEmpty, RowAccountsForLog, Row, NoRow

\* An anchor that lagged behind the row still does.
LEMMA LagsKeeps ==
    ASSUME TypeOK, TypeOK', Grows, NEW a \in Anchor, Lags(a)
    PROVE  Lags(a)'
  <1>1. /\ row.through \in Nat /\ row'.through \in Nat
        /\ a.through \in Nat
    BY DEF TypeOK, Row, Anchor
  <1>2. row'.known /\ row.through <= row'.through /\ a.through <= row.through
    BY DEF Grows, Lags
  <1>3. a.through = row'.through => a.source = row'.source
    BY <1>1, <1>2 DEF Grows, Lags
  <1>4. QED
    BY <1>1, <1>2, <1>3 DEF Lags

\* A source fact of the log stays where it is.
LEMMA SourceKeeps ==
    ASSUME TypeOK, TypeOK', Grows, NEW n \in Nat, IsSource(n)
    PROVE  IsSource(n)' /\ log'[n] = log[n]
  BY DEF TypeOK, Grows, IsSource, Continues

\* What a process that does not move knows about the durable state survives.
LEMMA OthersKeep ==
    ASSUME TypeOK, TypeOK', Shape, Shape', Grows, NEW q \in Procs, Local(q), Same(q)
    PROVE  Local(q)'
  <1> USE DEF Same
  <1>t. /\ ready[q] # None => ready[q] \in Anchor
        /\ AnchorOf(progress[q]) \in Anchor
        /\ progress[q] \in Row /\ target[q] \in Nat /\ staged[q] \in Seq(Record)
        /\ row \in Row /\ row' \in Row /\ log \in Seq(Record) /\ log' \in Seq(Record)
        /\ public[q] \in Seq(Record)
    BY DEF TypeOK, Anchor, AnchorOf, Row
  <1>l. row.through \in 0 .. Len(log)
    BY ThroughInLog
  <1>p. \A n \in 0 .. Len(log) : Prefix(log', n) = Prefix(log, n)
    BY DEF Grows, Continues
  <1>1. ProgressInv(q)'
    <2>1. CASE pc[q] \in {"restoring", "exposing", "checking"}
      <3>1. /\ progress[q].known /\ Lags(AnchorOf(progress[q]))
            /\ progress[q].pending # 0 =>
                 /\ progress[q].pending = progress[q].through + 1
                 /\ IsSource(progress[q].pending)
        BY <2>1 DEF Local, ProgressInv
      <3>2. Lags(AnchorOf(progress[q]))'
        BY <3>1, <1>t, LagsKeeps DEF Lags, AnchorOf
      <3>3. progress[q].pending # 0 => IsSource(progress[q].pending)'
        BY <3>1, <1>t, SourceKeeps DEF Row
      <3>4. QED
        BY <3>1, <3>2, <3>3 DEF ProgressInv, Lags, IsSource, AnchorOf
    <2>2. QED
      BY <2>1 DEF ProgressInv
  <1>2. AnchorInv(q)'
    <2>1. AnchorInv(q)
      BY DEF Local
    <2>2. ready[q] # None => Lags(ready[q])'
      BY <2>1, <1>t, LagsKeeps DEF AnchorInv, Lags
    <2>3. QED
      BY <2>1, <2>2 DEF AnchorInv, Lags, AnchorOf
  <1>3. EngineInv(q)'
    <2>1. EngineInv(q) /\ AnchorInv(q) /\ ProgressInv(q) /\ BundleInv(q)
      BY DEF Local
    <2>2. ready[q] # None => ready[q].through \in 0 .. row.through
      BY <2>1, <1>t DEF AnchorInv, Lags, Anchor, Row
    <2>3. /\ pc[q] \in {"idle", "loading"} /\ ready[q] # None /\ ready[q].through = row'.through
          => working[q] = Prefix(log', row'.through)
      BY <2>1, <2>2, <1>t, <1>l, <1>p DEF EngineInv, Grows, Row
    <2>4. pc[q] = "exposing" => working[q] = Prefix(log', progress[q].through)
      BY <2>1, <1>t, <1>l, <1>p DEF EngineInv, ProgressInv, Lags, AnchorOf, Row
    <2>5. pc[q] \in {"checking", "choosing", "appending", "reducing", "notifying", "marking"} =>
              ready[q] # None /\ working[q] = Prefix(log', ready[q].through)
      BY <2>1, <2>2, <1>t, <1>l, <1>p DEF EngineInv, Row
    <2>6. pc[q] = "committing" => working[q] = Prefix(log', target[q]) \o staged[q]
      <3>1. pc[q] = "committing" => target[q] \in 0 .. Len(log)
        BY <2>1, <1>t DEF BundleInv, IsSource
      <3>2. QED
        BY <2>1, <3>1, <1>p DEF EngineInv
    <2>7. pc[q] = "installing" => working[q] = Prefix(log', target[q] + Len(staged[q]))
      BY <2>1, <1>t, <1>l, <1>p DEF EngineInv, BundleInv, Lags, Row
    <2>8. QED
      BY <2>3, <2>4, <2>5, <2>6, <2>7 DEF EngineInv
  <1>4. BundleInv(q)'
    <2>1. BundleInv(q)
      BY DEF Local
    <2>2. IsSource(target[q]) => IsSource(target[q])' /\ log'[target[q]] = log[target[q]]
      BY <1>t, SourceKeeps
    <2>3. IsSource(target[q]) => Prefix(log', target[q] - 1) = Prefix(log, target[q] - 1)
      BY <1>t, <1>p DEF IsSource
    <2>4. pc[q] = "installing" =>
              Lags([source |-> target[q], through |-> target[q] + Len(staged[q])])'
      <3>1. [source |-> target[q], through |-> target[q] + Len(staged[q])] \in Anchor
        BY <1>t DEF Anchor
      <3>2. QED
        BY <2>1, <3>1, LagsKeeps DEF BundleInv, Lags
    <2>5. Completed(job[q]) => Completed(job[q])'
      <3>1. \A i \in 1 .. row.through : i \in 1 .. row'.through /\ log'[i] = log[i]
        BY <1>t, <1>l DEF Grows, Continues, Row
      <3>2. QED
        BY <3>1 DEF Completed
    <2>6. target[q] <= row.through => target[q] <= row'.through
      BY <1>t DEF Grows, Row
    <2>7. QED
      BY <2>1, <2>2, <2>3, <2>4, <2>5, <2>6 DEF BundleInv, IsSource, Lags, Completed
  <1>5. PublicInv(q)'
    <2>1. PublicInv(q)
      BY DEF Local
    <2>2. Len(public[q]) \in 0 .. Len(log)
      BY <2>1, <1>t, <1>l DEF PublicInv, Row
    <2>3. QED
      BY <2>1, <2>2, <1>t, <1>p DEF PublicInv, Grows, Row
  <1>6. QED
    BY <1>1, <1>2, <1>3, <1>4, <1>5 DEF Local

\* An action that leaves log and row alone keeps their shape.
LEMMA Frozen ==
    ASSUME TypeOK, Shape, UNCHANGED <<log, row>>
    PROVE  Shape' /\ Grows
  <1>1. Shape'
    BY DEF Shape, UnknownRowIsEmpty, RowAccountsForLog, FailureIsPending
  <1>2. Continues(log', log)
    BY SelfContinues DEF TypeOK
  <1>3. QED
    BY <1>1, <1>2 DEF Grows, TypeOK, Row

\* The invariant of the process that moves is all an action has to establish.
LEMMA Combine ==
    ASSUME IInv, NEW p \in Procs, TypeOK', Shape', Grows, Local(p)',
           \A q \in Procs \ {p} : Same(q)
    PROVE  IInv'
  <1>1. TypeOK /\ Shape /\ \A q \in Procs : Local(q)
    BY DEF IInv, Shape
  <1>2. ASSUME NEW q \in Procs
        PROVE  Local(q)'
    <2>1. CASE q = p
      BY <2>1
    <2>2. CASE q # p
      BY <2>2, <1>1, OthersKeep
    <2>3. QED
      BY <2>1, <2>2
  <1>3. QED
    BY <1>2 DEF IInv, Shape

\* Initially nothing is known about an idle process except that it is fresh.
LEMMA InitIInv == Init => IInv
  <1> SUFFICES ASSUME Init PROVE IInv
    OBVIOUS
  <1>1. TypeOK
    BY LegacyAssumption, MaxFaultsAssumption
       DEF Init, TypeOK, Row, NoRow, Labels, Anchor
  <1>2. UnknownRowIsEmpty /\ RowAccountsForLog /\ FailureIsPending
    BY DEF Init, UnknownRowIsEmpty, RowAccountsForLog, FailureIsPending, NoRow
  <1>3. ASSUME NEW p \in Procs
        PROVE  Local(p)
    <2>1. /\ pc[p] = "idle" /\ ready[p] = None /\ public[p] = <<>>
          /\ job[p] = None /\ target[p] = 0 /\ row = NoRow
      BY DEF Init
    <2>2. PublicInv(p)
      BY <2>1, PrefixEmpty DEF PublicInv, NoRow
    <2>3. QED
      BY <2>1, <2>2 DEF Local, ProgressInv, AnchorInv, EngineInv, BundleInv
  <1>4. QED
    BY <1>1, <1>2, <1>3 DEF IInv

\* Taking the session lock says nothing new.
LEMMA BeginKeeps ==
    ASSUME IInv, NEW p \in Procs, Begin(p)
    PROVE  IInv'
  <1> USE DEF Begin, Goto, durable, lease, memory, locals
  <1>1. TypeOK'
    BY DEF IInv, TypeOK, Labels
  <1>2. Shape' /\ Grows
    BY Frozen DEF IInv, Shape
  <1>3. \A q \in Procs \ {p} : Same(q)
    BY DEF IInv, TypeOK, Same
  <1>4. Local(p)'
    <2>1. pc[p] = "idle" /\ pc'[p] = "loading" /\ Local(p)
      BY DEF IInv, TypeOK
    <2>2. QED
      BY <2>1 DEF Local, ProgressInv, AnchorInv, EngineInv, BundleInv, PublicInv, Lags
  <1>5. QED
    BY <1>1, <1>2, <1>3, <1>4, Combine

\* The row read, or inserted, is the one the anchor is compared with.
LEMMA LoadKeeps ==
    ASSUME IInv, NEW p \in Procs, Load(p)
    PROVE  IInv'
  <1> USE DEF Load, Goto, lease, memory
  <1>t. TypeOK /\ Shape /\ Local(p)
    BY DEF IInv, Shape
  <1>b. ~row.known => /\ row' = Baseline /\ row'.known /\ row'.through = Len(log)
                      /\ row'.pending = 0 /\ row'.source = LastSource(log)
                      /\ ~row'.failed
    BY DEF Baseline, NoRow
  <1>r. row' \in Row
    <2>1. LastSource(log) \in Nat
      BY <1>t, LastSourceType DEF TypeOK
    <2>3. Baseline \in Row
      BY <2>1, <1>t DEF Baseline, TypeOK, Row
    <2>4. QED
      BY <2>3, <1>t DEF TypeOK
  <1>1. TypeOK'
    BY <1>t, <1>r DEF TypeOK, Labels
  <1>2. Shape'
    BY <1>t, <1>b DEF Shape, UnknownRowIsEmpty, RowAccountsForLog, FailureIsPending
  <1>3. Grows
    <2>1. Continues(log', log)
      BY <1>t, SelfContinues DEF TypeOK
    <2>2. ~row.known => row.through = 0
      BY <1>t DEF Shape, UnknownRowIsEmpty, NoRow
    <2>3. QED
      BY <2>1, <2>2, <1>b, <1>t, <1>r DEF Grows, TypeOK, Row
  <1>4. \A q \in Procs \ {p} : Same(q)
    BY <1>t DEF TypeOK, Same
  <1>5. Local(p)'
    <2>1. /\ pc[p] = "loading" /\ progress'[p] = row'
          /\ pc'[p] = IF ready[p] = AnchorOf(row') THEN "checking" ELSE "restoring"
      BY <1>t DEF TypeOK
    <2>2. row'.known /\ log' = log /\ ready' = ready /\ working' = working /\ public' = public
      BY <1>b
    <2>3. ProgressInv(p)'
      <3>1. row'.pending # 0 => row'.pending = row'.through + 1 /\ IsSource(row.pending)'
        BY <1>1, <1>2, <2>2
           DEF Shape, RowAccountsForLog, IsSource, TypeOK, Row
      <3>2. QED
        BY <2>1, <2>2, <3>1, <1>r DEF ProgressInv, Lags, AnchorOf, IsSource, Row
    <2>4. AnchorInv(p)'
      <3>1. ready[p] # None => ready[p] \in Anchor /\ row.known /\ Lags(ready[p])
        BY <1>t DEF TypeOK, Local, AnchorInv, Lags
      <3>2. ready[p] # None => Lags(ready[p])'
        BY <3>1, <1>t, <1>1, <1>3, LagsKeeps
      <3>3. ready[p] # None /\ ready[p] # AnchorOf(row') => ready[p].through < row'.through
        BY <3>1, <3>2, <1>r DEF Lags, AnchorOf, Anchor, Row
      <3>4. QED
        BY <2>1, <2>2, <3>2, <3>3 DEF AnchorInv, Lags, AnchorOf
    <2>5. EngineInv(p)'
      <3>1. ready[p] = AnchorOf(row') => /\ ready[p] # None /\ ready[p].through = row'.through
        BY <1>r, NoneAssumption DEF AnchorOf, Row
      <3>2. ready[p] = AnchorOf(row') => row' = row
        BY <3>1, <2>1, <1>t, <1>b DEF Local, AnchorInv, Lags
      <3>3. ready[p] = AnchorOf(row') => working[p] = Prefix(log, ready[p].through)
        BY <3>1, <3>2, <2>1, <1>t DEF Local, EngineInv
      <3>4. CASE pc'[p] = "restoring"
        BY <3>4 DEF EngineInv
      <3>5. CASE pc'[p] = "checking"
        <4>1. ready[p] = AnchorOf(row')
          BY <2>1, <3>5
        <4>2. ready'[p] # None /\ working'[p] = Prefix(log', ready'[p].through)
          BY <4>1, <2>2, <3>1, <3>3
        <4>3. QED
          BY <3>5, <4>2 DEF EngineInv
      <3>6. QED
        BY <2>1, <3>4, <3>5
    <2>6. BundleInv(p)'
      BY <1>t, <2>1, <2>2 DEF Local, BundleInv
    <2>7. PublicInv(p)'
      BY <1>t, <2>2, <1>3, <1>r DEF Local, PublicInv, Grows, TypeOK, Row
    <2>8. QED
      BY <2>3, <2>4, <2>5, <2>6, <2>7 DEF Local
  <1>6. QED
    BY <1>1, <1>2, <1>3, <1>4, <1>5, Combine

\* A flow that ends, in order or not, leaves a process about which enough is
\* known: its anchor is out of date, or its engine holds the completed prefix.
LEMMA LeaveLocal ==
    ASSUME IInv, NEW p \in Procs, TypeOK', Shape', Grows, row'.through = row.through,
           Leave(p), public'[p] \in {public[p], <<>>},
           \/ ready'[p] = None
           \/ /\ ready'[p] = ready[p]
              /\ pc[p] \notin {"reducing", "committing", "installing"}
              /\ working'[p] = working[p] \/ pc[p] = "restoring"
    PROVE  Local(p)'
  <1>t. TypeOK /\ Shape /\ Local(p) /\ row.through \in 0 .. Len(log)
    BY ThroughInLog DEF IInv, Shape
  <1>1. /\ pc'[p] = "idle" /\ job'[p] = None /\ target'[p] = 0
    BY <1>t DEF Leave, Forget, Goto, TypeOK
  <1>2. ready[p] # None => Lags(ready[p]) /\ ready[p] \in Anchor
    BY <1>t DEF Local, AnchorInv, TypeOK
  <1>3. ready'[p] # None => Lags(ready[p])' /\ ready'[p] = ready[p]
    BY <1>2, <1>t, LagsKeeps
  <1>4. AnchorInv(p)'
    BY <1>1, <1>3 DEF AnchorInv, Lags
  <1>5. EngineInv(p)'
    <2>1. SUFFICES ASSUME ready'[p] # None, ready'[p].through = row'.through
                   PROVE  working'[p] = Prefix(log', row'.through)
      BY <1>1 DEF EngineInv
    <2>2. ready[p] # None /\ ready[p].through = row.through
      BY <2>1
    <2>3. pc[p] \notin {"restoring", "exposing", "failing"}
      <3>1. progress[p].through \in Nat /\ row.through \in Nat
        BY <1>t DEF TypeOK, Row
      <3>2. pc[p] \in {"restoring", "exposing"} =>
              progress[p].through <= row.through /\ ready[p].through < progress[p].through
        BY <1>t, <2>2 DEF Local, AnchorInv, ProgressInv, Lags, AnchorOf
      <3>3. pc[p] # "failing"
        BY <1>t, <2>2 DEF Local, AnchorInv
      <3>4. QED
        BY <3>1, <3>2, <3>3, <2>2
    <2>4. pc[p] \in {"idle", "loading", "checking", "choosing", "appending", "notifying", "marking"}
      BY <2>1, <2>3, <1>t DEF TypeOK, Labels
    <2>5. working[p] = Prefix(log, row.through)
      BY <2>2, <2>4, <1>t DEF Local, EngineInv
    <2>6. Prefix(log', row.through) = Prefix(log, row.through)
      BY <1>t DEF Grows, Continues
    <2>7. QED
      BY <2>1, <2>3, <2>5, <2>6
  <1>6. PublicInv(p)'
    <2>1. CASE public'[p] = <<>>
      BY <2>1, PrefixEmpty, <1>t DEF PublicInv
    <2>2. CASE public'[p] = public[p]
      <3>1. Len(public[p]) \in 0 .. Len(log)
        BY <1>t DEF Local, PublicInv, TypeOK
      <3>2. QED
        BY <3>1, <2>2, <1>t DEF Local, PublicInv, Grows, Continues
    <2>3. QED
      BY <2>1, <2>2
  <1>7. ProgressInv(p)' /\ BundleInv(p)'
    BY <1>1 DEF ProgressInv, BundleInv
  <1>8. QED
    BY <1>4, <1>5, <1>6, <1>7 DEF Local

\* Forgotten local variables have their types.
LEMMA ForgetType ==
    ASSUME TypeOK, NEW p \in Procs, NEW label \in Labels, Forget(p, label)
    PROVE  /\ pc' \in [Procs -> Labels] /\ progress' \in [Procs -> Row]
           /\ job' \in [Procs -> Facts \cup {None}] /\ target' \in [Procs -> Nat]
           /\ staged' \in [Procs -> Seq(Record)] /\ sent' \in [Procs -> Nat]
           /\ \A q \in Procs \ {p} :
                /\ pc'[q] = pc[q] /\ progress'[q] = progress[q] /\ job'[q] = job[q]
                /\ target'[q] = target[q] /\ staged'[q] = staged[q]
  <1>1. NoRow \in Row /\ <<>> \in Seq(Record)
    BY DEF NoRow, Row
  <1>2. QED
    BY <1>1 DEF TypeOK, Forget, Goto

\* A flow that is refused, or has nothing left to do, just ends.
LEMMA LoadRefusedKeeps ==
    ASSUME IInv, NEW p \in Procs, LoadRefused(p) \/ Finish(p) \/ AppendRefused(p)
    PROVE  IInv'
  <1> USE DEF durable, lease, memory
  <1>0. /\ UNCHANGED <<durable, lease, memory, notified, faults>> /\ Leave(p)
        /\ pc[p] \in {"loading", "choosing", "appending"}
    BY DEF LoadRefused, Finish, AppendRefused
  <1>1. TypeOK'
    BY <1>0, ForgetType DEF IInv, TypeOK, Labels, Leave
  <1>2. Shape' /\ Grows
    BY <1>0, Frozen DEF IInv, Shape
  <1>3. \A q \in Procs \ {p} : Same(q)
    BY <1>0, ForgetType DEF IInv, Same, Leave, Labels
  <1>4. Local(p)'
    BY <1>0, <1>1, <1>2, LeaveLocal
  <1>5. QED
    BY <1>1, <1>2, <1>3, <1>4, Combine

\* The replayed prefix is the one the row that was read names.
LEMMA RestoreKeeps ==
    ASSUME IInv, NEW p \in Procs, Restore(p)
    PROVE  IInv'
  <1> USE DEF Restore, Goto, durable, lease, locals
  <1>t. TypeOK /\ Shape /\ Local(p) /\ row.through \in 0 .. Len(log)
    BY ThroughInLog DEF IInv, Shape
  <1>0. progress[p].through \in 0 .. Len(log)
    BY <1>t DEF Local, ProgressInv, Lags, AnchorOf, TypeOK, Row
  <1>1. TypeOK'
    <2>1. Prefix(log, progress[p].through) \in Seq(Record)
      BY <1>0, <1>t, PrefixType DEF TypeOK
    <2>2. QED
      BY <2>1, <1>t DEF TypeOK, Labels
  <1>2. Shape' /\ Grows
    BY <1>t, Frozen
  <1>3. \A q \in Procs \ {p} : Same(q)
    BY <1>t DEF TypeOK, Same
  <1>4. Local(p)'
    <2>1. /\ pc[p] = "restoring" /\ pc'[p] = "exposing"
          /\ working'[p] = Prefix(log, progress[p].through)
      BY <1>t DEF TypeOK
    <2>2. QED
      BY <2>1, <1>t
         DEF Local, ProgressInv, AnchorInv, EngineInv, BundleInv, PublicInv, Lags, IsSource
  <1>5. QED
    BY <1>1, <1>2, <1>3, <1>4, Combine

\* The replayed prefix is durable, so it may be public.
LEMMA ExposeKeeps ==
    ASSUME IInv, NEW p \in Procs, Expose(p)
    PROVE  IInv'
  <1> USE DEF Expose, Goto, durable, lease, locals
  <1>t. TypeOK /\ Shape /\ Local(p) /\ row.through \in 0 .. Len(log)
    BY ThroughInLog DEF IInv, Shape
  <1>1. TypeOK'
    BY <1>t DEF TypeOK, Labels, AnchorOf, Anchor, Row
  <1>2. Shape' /\ Grows
    BY <1>t, Frozen
  <1>3. \A q \in Procs \ {p} : Same(q)
    BY <1>t DEF TypeOK, Same
  <1>4. Local(p)'
    <2>1. /\ pc[p] = "exposing" /\ pc'[p] = "checking"
          /\ public'[p] = working[p] /\ ready'[p] = AnchorOf(progress[p])
          /\ working[p] = Prefix(log, progress[p].through)
          /\ progress[p].known /\ Lags(AnchorOf(progress[p]))
      BY <1>t DEF TypeOK, Local, EngineInv, ProgressInv
    <2>2. /\ progress[p].through \in 0 .. row.through /\ row.known
          /\ AnchorOf(progress[p]).through = progress[p].through
          /\ AnchorOf(progress[p]) # None
      BY <2>1, <1>t, NoneAssumption DEF Lags, AnchorOf, TypeOK, Row
    <2>3. Len(working[p]) = progress[p].through
      BY <2>1, <2>2, <1>t, PrefixType DEF TypeOK
    <2>4. ProgressInv(p)' /\ BundleInv(p)'
      BY <2>1, <1>t DEF Local, ProgressInv, BundleInv, Lags, IsSource
    <2>5. AnchorInv(p)' /\ EngineInv(p)'
      BY <2>1, <2>2 DEF AnchorInv, EngineInv, Lags
    <2>6. PublicInv(p)'
      BY <2>1, <2>2, <2>3, <1>t DEF PublicInv
    <2>7. QED
      BY <2>4, <2>5, <2>6 DEF Local
  <1>5. QED
    BY <1>1, <1>2, <1>3, <1>4, Combine

\* The pending source is the event right behind the restored prefix.
LEMMA CheckPendingKeeps ==
    ASSUME IInv, NEW p \in Procs, CheckPending(p)
    PROVE  IInv'
  <1> USE DEF CheckPending, Goto, durable, lease, memory
  <1>t. TypeOK /\ Shape /\ Local(p)
    BY DEF IInv, Shape
  <1>1. TypeOK'
    BY <1>t DEF TypeOK, Labels, Row, NoRow
  <1>2. Shape' /\ Grows
    BY <1>t, Frozen
  <1>3. \A q \in Procs \ {p} : Same(q)
    BY <1>t DEF TypeOK, Same
  <1>4. Local(p)'
    <2>1. /\ pc[p] = "checking" /\ target'[p] = progress[p].pending
          /\ pc'[p] = IF progress[p].pending = 0 THEN "choosing" ELSE "reducing"
          /\ job[p] = None /\ ready[p] = AnchorOf(progress[p]) /\ ready[p] # None
          /\ progress[p].pending # 0 =>
               progress[p].pending = progress[p].through + 1 /\ IsSource(progress[p].pending)
      BY <1>t DEF TypeOK, Local, AnchorInv, BundleInv, EngineInv, ProgressInv
    <2>2. ready[p].through = progress[p].through
      BY <2>1 DEF AnchorOf
    <2>3. ProgressInv(p)' /\ AnchorInv(p)' /\ PublicInv(p)'
      BY <2>1, <1>t DEF Local, ProgressInv, AnchorInv, PublicInv, Lags
    <2>4. EngineInv(p)'
      <3>1. working[p] = Prefix(log, ready[p].through)
        BY <2>1, <1>t DEF Local, EngineInv
      <3>2. pc'[p] \in {"choosing", "reducing"}
        BY <2>1
      <3>3. QED
        BY <2>1, <3>1, <3>2 DEF EngineInv
    <2>5. BundleInv(p)'
      BY <2>1, <2>2, <1>t DEF Local, BundleInv, IsSource
    <2>6. QED
      BY <2>3, <2>4, <2>5 DEF Local
  <1>5. QED
    BY <1>1, <1>2, <1>3, <1>4, Combine

\* A fact released by the ordering buffer has not touched anything yet.
LEMMA TakeKeeps ==
    ASSUME IInv, NEW p \in Procs, NEW f \in Facts, Take(p, f)
    PROVE  IInv'
  <1> USE DEF Take, Goto, durable, lease, memory
  <1>t. TypeOK /\ Shape /\ Local(p)
    BY DEF IInv, Shape
  <1>1. TypeOK'
    BY <1>t DEF TypeOK, Labels
  <1>2. Shape' /\ Grows
    BY <1>t, Frozen
  <1>3. \A q \in Procs \ {p} : Same(q)
    BY <1>t DEF TypeOK, Same
  <1>4. Local(p)'
    <2>1. pc[p] = "choosing" /\ pc'[p] = "appending" /\ job'[p] = f /\ f # None
      BY <1>t, NoneAssumption DEF TypeOK
    <2>2. QED
      BY <2>1, <1>t
         DEF Local, ProgressInv, AnchorInv, EngineInv, BundleInv, PublicInv, Lags, IsSource
  <1>5. QED
    BY <1>1, <1>2, <1>3, <1>4, Combine

\* An anchor equal to the row's shows that the row exists.
LEMMA AnchoredIsKnown ==
    ASSUME IInv, NEW p \in Procs, ready[p] = AnchorOf(row)
    PROVE  row.known /\ ready[p] # None /\ ready[p].through = row.through
  <1>1. ready[p] # None /\ ready[p].through = row.through
    BY NoneAssumption DEF IInv, TypeOK, Row, AnchorOf
  <1>2. QED
    BY <1>1 DEF IInv, Local, AnchorInv, Lags

\* The insert of append_source makes one pending source fact of the log's end.
LEMMA AdmitFacts ==
    ASSUME IInv, NEW p \in Procs, pc[p] = "appending", AdmitSource(p)
    PROVE  /\ job[p] \in Facts /\ log' \in Seq(Record) /\ row' \in Row
           /\ Shape' /\ Grows
           /\ row.through = Len(log) /\ row'.through = Len(log) /\ row'.pending = Len(log) + 1
           /\ row'.source = row.source /\ row'.known /\ row.known
           /\ Len(log') = Len(log) + 1 /\ log'[Len(log) + 1] = Source(job[p])
           /\ ready[p] # None /\ ready[p].through = Len(log)
  <1>t. TypeOK /\ Shape /\ Local(p)
    BY DEF IInv, Shape
  <1>1. /\ job[p] \in Facts /\ row.known /\ ready[p] # None
        /\ row.through = Len(log) /\ ready[p].through = Len(log) /\ row.pending = 0
        /\ log' = Append(log, Source(job[p]))
        /\ row' = [row EXCEPT !.pending = Len(log) + 1]
        /\ Source(job[p]) \in Record
    BY <1>t, AnchoredIsKnown, RecordTypes
       DEF AdmitSource, MayAppend, Local, BundleInv, TypeOK
  <1>2. /\ Continues(log', log) /\ log' \in Seq(Record)
        /\ Len(log') = Len(log) + 1 /\ log'[Len(log) + 1] = Source(job[p])
    BY <1>1, <1>t, AppendContinues DEF TypeOK
  <1>3. /\ row' \in Row /\ row'.through = row.through /\ row'.pending = Len(log) + 1
        /\ row'.source = row.source /\ row'.known
    <2>1. row \in Row /\ Len(log) + 1 \in Nat
      BY <1>t DEF TypeOK
    <2>2. row' \in Row
      BY <2>1, <1>1 DEF Row
    <2>3. row'.known = row.known
      BY <2>1, <1>1 DEF Row
    <2>4. row'.through = row.through /\ row'.source = row.source /\ row'.pending = Len(log) + 1
      BY <2>1, <1>1 DEF Row
    <2>5. QED
      BY <2>2, <2>3, <2>4, <1>1
  <1>4. Shape'
    <2>1. row'.pending # 0 /\ row'.pending = row'.through + 1 /\ row'.pending = Len(log')
      BY <1>1, <1>2, <1>3, <1>t DEF TypeOK
    <2>2. log'[row'.pending].kind = "source"
      BY <1>2, <1>3 DEF Source
    <2>3. QED
      BY <2>1, <2>2, <1>3 DEF Shape, UnknownRowIsEmpty, RowAccountsForLog, FailureIsPending
  <1>5. Grows
    BY <1>1, <1>2, <1>3, <1>t DEF Grows, TypeOK, Row
  <1>6. QED
    BY <1>1, <1>2, <1>3, <1>4, <1>5

\* The admitted fact is the pending one, right behind the private prefix.
LEMMA AppendNewKeeps ==
    ASSUME IInv, NEW p \in Procs, AppendNew(p)
    PROVE  IInv'
  <1> USE DEF AppendNew, Goto, lease, memory
  <1>t. TypeOK /\ Shape /\ Local(p)
    BY DEF IInv, Shape
  <1>a. /\ job[p] \in Facts /\ log' \in Seq(Record) /\ row' \in Row
        /\ Shape' /\ Grows
        /\ row.through = Len(log) /\ row'.through = Len(log) /\ row'.pending = Len(log) + 1
        /\ row'.source = row.source /\ row'.known
        /\ Len(log') = Len(log) + 1 /\ log'[Len(log) + 1] = Source(job[p])
        /\ ready[p] # None /\ ready[p].through = Len(log)
    BY AdmitFacts
  <1>1. TypeOK'
    BY <1>t, <1>a DEF TypeOK, Labels
  <1>3. \A q \in Procs \ {p} : Same(q)
    BY <1>t DEF TypeOK, Same
  <1>4. Local(p)'
    <2>1. pc[p] = "appending" /\ pc'[p] = "reducing" /\ target'[p] = Len(log) + 1
      BY <1>t DEF TypeOK
    <2>2. IsSource(target[p])' /\ log'[target'[p]] = Source(job'[p])
      BY <2>1, <1>a, <1>t DEF IsSource, Source, TypeOK
    <2>3. AnchorInv(p)'
      <3>1. Lags(ready[p])'
        BY <1>a, <1>t, <1>1, LagsKeeps DEF Local, AnchorInv, Lags, TypeOK
      <3>2. QED
        BY <3>1, <2>1, <1>a DEF AnchorInv, Lags
    <2>4. EngineInv(p)'
      <3>1. working[p] = Prefix(log, ready[p].through)
        BY <2>1, <1>t DEF Local, EngineInv
      <3>2. Prefix(log', Len(log)) = Prefix(log, Len(log))
        BY <1>a, <1>t DEF Grows, Continues, TypeOK
      <3>3. QED
        BY <3>1, <3>2, <2>1, <1>a DEF EngineInv
    <2>5. BundleInv(p)'
      BY <2>1, <2>2, <1>a DEF BundleInv
    <2>6. PublicInv(p)'
      <3>1. Len(public[p]) \in 0 .. Len(log) /\ public[p] = Prefix(log, Len(public[p]))
        BY <1>t, <1>a DEF Local, PublicInv, TypeOK
      <3>2. QED
        BY <3>1, <1>a DEF PublicInv, Grows, Continues
    <2>7. ProgressInv(p)'
      BY <2>1 DEF ProgressInv
    <2>8. QED
      BY <2>3, <2>4, <2>5, <2>6, <2>7 DEF Local
  <1>5. QED
    BY <1>1, <1>a, <1>3, <1>4, Combine

\* The same insert without its caller: the fact stays pending.
LEMMA AppendLostKeeps ==
    ASSUME IInv, NEW p \in Procs, AppendLost(p)
    PROVE  IInv'
  <1> USE DEF AppendLost, lease, memory
  <1>t. TypeOK
    BY DEF IInv
  <1>a. /\ log' \in Seq(Record) /\ row' \in Row /\ Shape' /\ Grows /\ row'.through = row.through
    BY AdmitFacts
  <1>1. TypeOK'
    BY <1>t, <1>a, ForgetType, MaxFaultsAssumption DEF TypeOK, Labels, Leave, Fault
  <1>3. \A q \in Procs \ {p} : Same(q)
    BY <1>t, ForgetType DEF Same, Leave, Labels
  <1>4. Local(p)'
    BY <1>1, <1>a, LeaveLocal
  <1>5. QED
    BY <1>1, <1>a, <1>3, <1>4, Combine

\* A fact that is found while nothing is pending is a completed one.
LEMMA AppendExistingKeeps ==
    ASSUME IInv, NEW p \in Procs, AppendExisting(p)
    PROVE  IInv'
  <1> USE DEF AppendExisting, Goto, durable, lease, memory, locals
  <1>t. TypeOK /\ Shape /\ Local(p)
    BY DEF IInv, Shape
  <1>1. TypeOK'
    BY <1>t DEF TypeOK, Labels
  <1>2. Shape' /\ Grows
    BY <1>t, Frozen
  <1>3. \A q \in Procs \ {p} : Same(q)
    BY <1>t DEF TypeOK, Same
  <1>4. Local(p)'
    <2>1. pc[p] = "appending" /\ pc'[p] = "marking" /\ target[p] = 0 /\ job[p] # None
      BY <1>t DEF TypeOK, Local, BundleInv
    <2>2. Completed(job[p])
      <3>1. row.known /\ row.through = Len(log)
        BY <1>t, AnchoredIsKnown DEF MayAppend, Shape, RowAccountsForLog
      <3>2. PICK i \in 1 .. Len(log) : log[i].kind = "source" /\ log[i].fact = job[p]
        BY <1>t DEF FactsIn, TypeOK
      <3>3. QED
        BY <3>1, <3>2 DEF Completed
    <2>3. QED
      BY <2>1, <2>2, <1>t
         DEF Local, ProgressInv, AnchorInv, EngineInv, BundleInv, PublicInv, Lags, IsSource, Completed
  <1>5. QED
    BY <1>1, <1>2, <1>3, <1>4, Combine

\* commit_projection makes the staged bundle the end of the completed prefix,
\* and the log it leaves is what the private engine already holds.
LEMMA CompleteFacts ==
    ASSUME IInv, NEW p \in Procs, pc[p] = "committing", CompleteSource(p)
    PROVE  /\ log' \in Seq(Record) /\ row' \in Row /\ Shape' /\ Grows
           /\ row'.known /\ row'.source = target[p] /\ row'.pending = 0
           /\ row'.through = target[p] + Len(staged[p]) /\ row'.through = Len(log')
           /\ target[p] = Len(log) /\ target[p] = row.through + 1
           /\ working[p] = log'
  <1>t. TypeOK /\ Shape /\ Local(p)
    BY DEF IInv, Shape
  <1>1. /\ row.known /\ ready[p].through = row.through
        /\ target[p] = Len(log) /\ target[p] = row.through + 1
        /\ working[p] = Prefix(log, Len(log)) \o staged[p]
        /\ log' = log \o staged[p]
        /\ row' = [row EXCEPT !.source = target[p],
                              !.through = target[p] + Len(staged[p]),
                              !.pending = 0, !.failed = FALSE]
    BY <1>t, AnchoredIsKnown
       DEF CompleteSource, MayCommit, Local, BundleInv, EngineInv
  <1>2. /\ log \in Seq(Record) /\ staged[p] \in Seq(Record) /\ row \in Row
        /\ target[p] \in Nat /\ target[p] + Len(staged[p]) \in Nat /\ row.through \in Nat
    BY <1>t DEF TypeOK, Row
  <1>3. /\ log' \in Seq(Record) /\ Continues(log', log)
        /\ Len(log') = target[p] + Len(staged[p])
    <2>1. /\ log \o staged[p] \in Seq(Record) /\ Continues(log \o staged[p], log)
          /\ Len(log \o staged[p]) = Len(log) + Len(staged[p])
      BY <1>2, ConcatContinues, ConcatProperties
    <2>2. QED
      BY <2>1, <1>1
  <1>4. working[p] = log'
    BY <1>1, <1>2, PrefixFull
  <1>5. row' \in Row
    BY <1>1, <1>2 DEF Row
  <1>6. row'.known = row.known
    BY <1>1, <1>2 DEF Row
  <1>7. /\ row'.source = target[p] /\ row'.through = target[p] + Len(staged[p])
        /\ row'.pending = 0 /\ ~row'.failed
    BY <1>1, <1>2 DEF Row
  <1>8. Shape'
    BY <1>1, <1>3, <1>6, <1>7
       DEF Shape, UnknownRowIsEmpty, RowAccountsForLog, FailureIsPending
  <1>9. Grows
    BY <1>1, <1>2, <1>3, <1>6, <1>7 DEF Grows
  <1>10. QED
    BY <1>1, <1>3, <1>4, <1>5, <1>6, <1>7, <1>8, <1>9

\* After the commit the private engine holds the completed log.
LEMMA CommitKeeps ==
    ASSUME IInv, NEW p \in Procs, Commit(p)
    PROVE  IInv'
  <1> USE DEF Commit, Goto, lease, memory, locals
  <1>t. TypeOK /\ Shape /\ Local(p)
    BY DEF IInv, Shape
  <1>a. /\ log' \in Seq(Record) /\ row' \in Row /\ Shape' /\ Grows
        /\ row'.known /\ row'.source = target[p]
        /\ row'.through = target[p] + Len(staged[p]) /\ row'.through = Len(log')
        /\ target[p] = Len(log) /\ target[p] = row.through + 1
        /\ working[p] = log'
    BY CompleteFacts
  <1>1. TypeOK'
    BY <1>t, <1>a DEF TypeOK, Labels
  <1>3. \A q \in Procs \ {p} : Same(q)
    BY <1>t DEF TypeOK, Same
  <1>4. Local(p)'
    <2>1. /\ pc[p] = "committing" /\ pc'[p] = "installing"
          /\ target[p] \in Nat /\ staged[p] \in Seq(Record)
          /\ IsSource(target[p]) /\ target[p] # 0
      BY <1>t DEF TypeOK, Local, BundleInv, IsSource
    <2>2. AnchorInv(p)'
      <3>1. ready[p] # None /\ ready[p] \in Anchor /\ Lags(ready[p])
        BY <2>1, <1>t DEF Local, AnchorInv, TypeOK
      <3>2. Lags(ready[p])'
        BY <3>1, <1>a, <1>t, <1>1, LagsKeeps
      <3>3. QED
        BY <3>1, <3>2, <2>1 DEF AnchorInv, Lags
    <2>3. EngineInv(p)'
      <3>1. working'[p] = Prefix(log', target'[p] + Len(staged'[p]))
        BY <1>a, PrefixFull
      <3>2. QED
        BY <3>1, <2>1 DEF EngineInv
    <2>4. BundleInv(p)'
      <3>1. IsSource(target[p])' /\ log'[target[p]] = log[target[p]]
        BY <2>1, <1>t, <1>1, <1>a, SourceKeeps DEF IsSource
      <3>2. Lags([source |-> target[p], through |-> target[p] + Len(staged[p])])'
        BY <1>a DEF Lags
      <3>3. target'[p] <= row'.through
        BY <2>1, <1>a
      <3>4. QED
        BY <3>1, <3>2, <3>3, <2>1, <1>t DEF Local, BundleInv, Lags, IsSource
    <2>5. PublicInv(p)'
      <3>1. Len(public[p]) \in 0 .. Len(log) /\ public[p] = Prefix(log, Len(public[p]))
        BY <1>t, <1>a DEF Local, PublicInv, TypeOK, Row
      <3>2. Len(public[p]) <= row'.through
        BY <3>1, <1>a, <2>1
      <3>3. QED
        BY <3>1, <3>2, <1>a DEF PublicInv, Grows, Continues
    <2>6. ProgressInv(p)'
      BY <2>1 DEF ProgressInv
    <2>7. QED
      BY <2>2, <2>3, <2>4, <2>5, <2>6 DEF Local
  <1>5. QED
    BY <1>1, <1>a, <1>3, <1>4, Combine

\* What is known of a process whose _project raised: it has no anchor.
LEMMA FailingLocal ==
    ASSUME IInv, NEW p \in Procs, TypeOK', Shape', Grows,
           pc[p] \in {"reducing", "committing", "installing"},
           pc'[p] = "failing", ready'[p] = None, public'[p] = public[p],
           target'[p] = target[p], job'[p] = job[p]
    PROVE  Local(p)'
  <1>t. TypeOK /\ Shape /\ Local(p) /\ row.through \in 0 .. Len(log)
    BY ThroughInLog DEF IInv, Shape
  <1>1. ProgressInv(p)' /\ AnchorInv(p)' /\ EngineInv(p)'
    BY DEF ProgressInv, AnchorInv, EngineInv
  <1>2. BundleInv(p)'
    <2>1. target[p] # 0 /\ job[p] # None =>
             IsSource(target[p]) /\ log[target[p]] = Source(job[p]) /\ target[p] \in Nat
      BY <1>t DEF Local, BundleInv, TypeOK
    <2>2. target[p] # 0 /\ job[p] # None => IsSource(target[p])' /\ log'[target[p]] = log[target[p]]
      BY <2>1, <1>t, SourceKeeps DEF IsSource
    <2>3. target[p] # 0
      BY <1>t DEF Local, BundleInv, IsSource
    <2>4. QED
      BY <2>1, <2>2, <2>3 DEF BundleInv, IsSource
  <1>3. PublicInv(p)'
    <2>0. public[p] \in Seq(Record) /\ Len(public[p]) \in Nat
      BY <1>t DEF TypeOK
    <2>1. Len(public[p]) \in 0 .. Len(log) /\ public[p] = Prefix(log, Len(public[p]))
      BY <2>0, <1>t DEF Local, PublicInv
    <2>2. Len(public[p]) <= row'.through
      BY <2>1, <1>t DEF Local, PublicInv, Grows, TypeOK, Row
    <2>3. QED
      BY <2>1, <2>2, <1>t DEF Local, PublicInv, Grows, Continues
  <1>4. QED
    BY <1>1, <1>2, <1>3 DEF Local

\* The same commit without its caller: the engine is given up.
LEMMA CommitLostKeeps ==
    ASSUME IInv, NEW p \in Procs, CommitLost(p)
    PROVE  IInv'
  <1> USE DEF CommitLost, Distrust, Goto, lease, locals
  <1>t. TypeOK
    BY DEF IInv
  <1>a. log' \in Seq(Record) /\ row' \in Row /\ Shape' /\ Grows
    BY CompleteFacts
  <1>1. TypeOK'
    <2>1. pc' \in [Procs -> Labels] /\ ready' \in [Procs -> Anchor \cup {None}]
      BY <1>t DEF TypeOK, Labels
    <2>2. faults' \in 0 .. MaxFaults
      BY <1>t, MaxFaultsAssumption DEF TypeOK, Fault
    <2>3. QED
      BY <1>t, <1>a, <2>1, <2>2 DEF TypeOK
  <1>3. \A q \in Procs \ {p} : Same(q)
    BY <1>t DEF TypeOK, Same
  <1>4. Local(p)'
    BY <1>1, <1>a, <1>t, FailingLocal DEF TypeOK
  <1>5. QED
    BY <1>1, <1>a, <1>3, <1>4, Combine

\* A refused commit changes nothing durable and gives the engine up.
LEMMA CommitRefusedKeeps ==
    ASSUME IInv, NEW p \in Procs, CommitRefused(p)
    PROVE  IInv'
  <1> USE DEF CommitRefused, Distrust, Goto, durable, lease, locals
  <1>t. TypeOK /\ Shape
    BY DEF IInv, Shape
  <1>1. TypeOK'
    BY <1>t DEF TypeOK, Labels
  <1>2. Shape' /\ Grows
    BY <1>t, Frozen
  <1>3. \A q \in Procs \ {p} : Same(q)
    BY <1>t DEF TypeOK, Same
  <1>4. Local(p)'
    BY <1>1, <1>2, <1>t, FailingLocal DEF TypeOK
  <1>5. QED
    BY <1>1, <1>2, <1>3, <1>4, Combine

\* Reduction moves the private engine over the source and its bundle at once.
LEMMA ReduceKeeps ==
    ASSUME IInv, NEW p \in Procs, Reduce(p)
    PROVE  IInv'
  <1> USE DEF Reduce, Goto, durable, lease
  <1>t. TypeOK /\ Shape /\ Local(p)
    BY DEF IInv, Shape
  <1>0. /\ pc[p] = "reducing" /\ ready[p] # None /\ ready[p] \in Anchor
        /\ working[p] = Prefix(log, ready[p].through)
        /\ target[p] = ready[p].through + 1 /\ IsSource(target[p])
        /\ log \in Seq(Record) /\ working[p] \in Seq(Record)
    BY <1>t DEF Local, EngineInv, BundleInv, TypeOK
  <1>a. /\ target[p] \in 1 .. Len(log) /\ target[p] - 1 = ready[p].through
        /\ ready[p].through \in Nat /\ ready[p].through < Len(log)
        /\ log[target[p]] \in Record
    BY <1>0 DEF IsSource, Anchor
  <1>b. /\ staged' = [staged EXCEPT ![p] = Effects(working[p], log[target[p]].fact)]
        /\ working' = [working EXCEPT ![p] = Append(working[p], log[target[p]]) \o staged'[p]]
    OBVIOUS
  <1>c. Effects(working[p], log[target[p]].fact) \in Seq(Record)
    BY <1>0, <1>a, EffectsType DEF Record
  <1>d. /\ staged'[p] = Effects(Prefix(log, target[p] - 1), log[target[p]].fact)
        /\ staged'[p] \in Seq(Record)
    BY <1>b, <1>c, <1>t, <1>0, <1>a DEF TypeOK
  <1>e. Append(working[p], log[target[p]]) = Prefix(log, target[p])
    BY <1>0, <1>a, PrefixNext
  <1>f. /\ working'[p] = Prefix(log, target[p]) \o staged'[p]
        /\ working'[p] \in Seq(Record)
    <2>1. working'[p] = Append(working[p], log[target[p]]) \o staged'[p]
      BY <1>b, <1>t DEF TypeOK
    <2>2. Prefix(log, target[p]) \in Seq(Record)
      BY <1>0, <1>a, PrefixType
    <2>3. Prefix(log, target[p]) \o staged'[p] \in Seq(Record)
      BY <2>2, <1>d, ConcatProperties
    <2>4. working'[p] = Prefix(log, target[p]) \o staged'[p]
      BY <2>1, <1>e
    <2>5. QED
      BY <2>3, <2>4
  <1>1. TypeOK'
    <2>1. staged' \in [Procs -> Seq(Record)]
      BY <1>b, <1>c, <1>t DEF TypeOK
    <2>2. working' \in [Procs -> Seq(Record)]
      BY <1>b, <1>f, <1>t DEF TypeOK
    <2>3. pc' \in [Procs -> Labels]
      BY <1>t DEF TypeOK, Labels
    <2>4. QED
      BY <2>1, <2>2, <2>3, <1>t DEF TypeOK
  <1>2. Shape' /\ Grows
    BY <1>t, Frozen
  <1>3. \A q \in Procs \ {p} : Same(q)
    BY <1>b, <1>t DEF TypeOK, Same
  <1>4. Local(p)'
    <2>1. /\ pc'[p] = "committing" /\ target' = target /\ ready' = ready /\ job' = job
      BY <1>t DEF TypeOK
    <2>2. AnchorInv(p)'
      BY <2>1, <1>0, <1>t DEF Local, AnchorInv, Lags
    <2>3. EngineInv(p)'
      BY <2>1, <1>f DEF EngineInv
    <2>4. BundleInv(p)'
      BY <2>1, <1>0, <1>d, <1>t DEF Local, BundleInv, IsSource
    <2>5. PublicInv(p)' /\ ProgressInv(p)'
      BY <2>1, <1>t DEF Local, PublicInv, ProgressInv
    <2>6. QED
      BY <2>2, <2>3, <2>4, <2>5 DEF Local
  <1>5. QED
    BY <1>1, <1>2, <1>3, <1>4, Combine

\* What Install exposes is the durable log up to the end of the bundle.
LEMMA InstallKeeps ==
    ASSUME IInv, NEW p \in Procs, Install(p)
    PROVE  IInv'
  <1> USE DEF Install, Goto, durable, lease, locals
  <1> DEFINE anchor == [source |-> target[p], through |-> target[p] + Len(staged[p])]
  <1>t. TypeOK /\ Shape /\ Local(p) /\ row.through \in 0 .. Len(log)
    BY ThroughInLog DEF IInv, Shape
  <1>0. /\ pc[p] = "installing" /\ Lags(anchor) /\ target[p] # 0 /\ target[p] <= row.through
        /\ working[p] = Prefix(log, target[p] + Len(staged[p]))
        /\ target[p] \in Nat /\ staged[p] \in Seq(Record)
    BY <1>t DEF Local, EngineInv, BundleInv, TypeOK
  <1>a. anchor \in Anchor /\ anchor # None /\ anchor.through \in 0 .. row.through /\ row.known
    BY <1>0, <1>t, NoneAssumption DEF Anchor, Lags
  <1>b. public'[p] = working[p] /\ ready'[p] = anchor
    BY <1>t DEF TypeOK
  <1>c. /\ pc'[p] = (IF job[p] = None THEN "choosing" ELSE "notifying")
        /\ job[p] = None => job'[p] = None /\ target'[p] = 0
        /\ job[p] # None => job' = job /\ target' = target /\ staged' = staged
    BY <1>t DEF TypeOK, Forget
  <1>1. TypeOK'
    <2>1. public' \in [Procs -> Seq(Record)] /\ ready' \in [Procs -> Anchor \cup {None}]
      BY <1>t, <1>a DEF TypeOK
    <2>2. CASE job[p] = None
      BY <2>1, <2>2, <1>t, ForgetType DEF TypeOK, Labels
    <2>3. CASE job[p] # None
      BY <2>1, <2>3, <1>t DEF TypeOK, Labels
    <2>4. QED
      BY <2>2, <2>3
  <1>2. Shape' /\ Grows
    BY <1>t, Frozen
  <1>3. \A q \in Procs \ {p} : Same(q)
    <2>1. \A q \in Procs \ {p} : ready'[q] = ready[q] /\ public'[q] = public[q]
      BY <1>t DEF TypeOK
    <2>2. CASE job[p] = None
      BY <2>1, <2>2, <1>t, ForgetType DEF Same, Labels
    <2>3. CASE job[p] # None
      BY <2>1, <2>3, <1>t DEF Same, TypeOK
    <2>4. QED
      BY <2>2, <2>3
  <1>4. Local(p)'
    <2>1. AnchorInv(p)'
      BY <1>0, <1>a, <1>b, <1>c DEF AnchorInv, Lags
    <2>2. EngineInv(p)'
      <3>1. working'[p] = Prefix(log', ready'[p].through) /\ ready'[p] # None
        BY <1>0, <1>a, <1>b
      <3>2. CASE pc'[p] = "choosing"
        BY <3>1, <3>2 DEF EngineInv
      <3>3. CASE pc'[p] = "notifying"
        BY <3>1, <3>3 DEF EngineInv
      <3>4. QED
        BY <3>2, <3>3, <1>c
    <2>3. BundleInv(p)'
      <3>1. CASE job[p] = None
        BY <3>1, <1>c DEF BundleInv
      <3>2. CASE job[p] # None
        BY <3>2, <1>c, <1>0, <1>t DEF Local, BundleInv, IsSource
      <3>3. QED
        BY <3>1, <3>2
    <2>4. PublicInv(p)'
      <3>1. Len(working[p]) = anchor.through
        BY <1>0, <1>a, <1>t, PrefixType DEF TypeOK
      <3>2. QED
        BY <3>1, <1>0, <1>a, <1>b, <1>t DEF PublicInv
    <2>5. ProgressInv(p)'
      BY <1>c DEF ProgressInv
    <2>6. QED
      BY <2>1, <2>2, <2>3, <2>4, <2>5 DEF Local
  <1>5. QED
    BY <1>1, <1>2, <1>3, <1>4, Combine

\* record_failure touches nothing but the failure code of a pending source.
LEMMA RecordFailureKeeps ==
    ASSUME IInv, NEW p \in Procs, RecordFailure(p)
    PROVE  IInv'
  <1> USE DEF RecordFailure, lease, memory
  <1>t. TypeOK /\ Shape /\ Local(p) /\ row \in Row
    BY DEF IInv, Shape, TypeOK
  <1>0. pc[p] = "failing" /\ ready[p] = None /\ target[p] # 0
    BY <1>t DEF Local, AnchorInv, BundleInv
  <1>1. /\ row' \in Row /\ row'.known = row.known /\ row'.source = row.source
        /\ row'.through = row.through /\ row'.pending = row.pending
        /\ row' = row \/ row.pending # 0
    <2>1. CASE row' = row
      BY <2>1, <1>t
    <2>2. CASE row' = [row EXCEPT !.failed = TRUE] /\ row.pending = target[p]
      BY <2>2, <1>t, <1>0 DEF Row
    <2>3. QED
      BY <2>1, <2>2
  <1>2. TypeOK'
    BY <1>t, <1>1, ForgetType DEF TypeOK, Labels, Leave
  <1>3. Shape'
    <2>1. ~row.known => row.pending = 0
      BY <1>t DEF Shape, UnknownRowIsEmpty, NoRow
    <2>2. UnknownRowIsEmpty'
      BY <2>1, <1>1, <1>t DEF Shape, UnknownRowIsEmpty
    <2>3. RowAccountsForLog'
      BY <1>1, <1>t DEF Shape, RowAccountsForLog
    <2>4. FailureIsPending'
      BY <1>1, <1>t DEF Shape, FailureIsPending
    <2>5. QED
      BY <2>2, <2>3, <2>4 DEF Shape
  <1>4. Grows
    BY <1>t, <1>1, SelfContinues DEF Grows, TypeOK, Row
  <1>5. \A q \in Procs \ {p} : Same(q)
    BY <1>t, ForgetType DEF Same, Leave, Labels
  <1>6. Local(p)'
    BY <1>0, <1>1, <1>2, <1>3, <1>4, LeaveLocal
  <1>7. QED
    BY <1>2, <1>3, <1>4, <1>5, <1>6, Combine

\* Announcing an event of the exposed bundle changes no knowledge.
LEMMA NotifyKeeps ==
    ASSUME IInv, NEW p \in Procs, Notify(p)
    PROVE  IInv'
  <1> USE DEF Notify, Goto, durable, lease, memory
  <1>t. TypeOK /\ Shape /\ Local(p)
    BY DEF IInv, Shape
  <1>1. TypeOK'
    <2>1. notified' \in Seq([by : Procs, at : Nat])
      BY <1>t DEF TypeOK
    <2>2. sent' \in [Procs -> Nat] /\ pc' \in [Procs -> Labels]
      BY <1>t DEF TypeOK, Labels
    <2>3. QED
      BY <2>1, <2>2, <1>t DEF TypeOK
  <1>2. Shape' /\ Grows
    BY <1>t, Frozen
  <1>3. \A q \in Procs \ {p} : Same(q)
    BY <1>t DEF TypeOK, Same
  <1>4. Local(p)'
    <2>1. /\ pc[p] = "notifying" /\ pc'[p] \in {"notifying", "marking"}
          /\ target[p] # 0 /\ target[p] <= row.through
          /\ working[p] = Prefix(log, ready[p].through) /\ ready[p] # None
      BY <1>t DEF TypeOK, Local, BundleInv, EngineInv
    <2>2. AnchorInv(p)' /\ ProgressInv(p)' /\ PublicInv(p)'
      BY <2>1, <1>t DEF Local, AnchorInv, ProgressInv, PublicInv, Lags
    <2>3. EngineInv(p)'
      BY <2>1 DEF EngineInv
    <2>4. job[p] # None
      BY <2>1, <1>t DEF Local, BundleInv
    <2>5. BundleInv(p)'
      BY <2>1, <2>4, <1>t DEF Local, BundleInv, IsSource
    <2>6. QED
      BY <2>2, <2>3, <2>5 DEF Local
  <1>5. QED
    BY <1>1, <1>2, <1>3, <1>4, Combine

\* After its raw row is marked the process is ready for the next fact.
LEMMA MarkKeeps ==
    ASSUME IInv, NEW p \in Procs, Mark(p)
    PROVE  IInv'
  <1> USE DEF Mark, lease, memory
  <1>t. TypeOK /\ Shape /\ Local(p)
    BY DEF IInv, Shape
  <1>1. TypeOK'
    <2>1. raw' \in [Facts -> {"pending", "normalized", "duplicate"}]
      BY <1>t DEF TypeOK
    <2>2. QED
      BY <2>1, <1>t, ForgetType DEF TypeOK, Labels
  <1>2. Shape' /\ Grows
    BY <1>t, Frozen
  <1>3. \A q \in Procs \ {p} : Same(q)
    BY <1>t, ForgetType DEF Same, Labels
  <1>4. Local(p)'
    <2>1. /\ pc'[p] = "choosing" /\ job'[p] = None /\ target'[p] = 0
          /\ pc[p] = "marking"
          /\ ready[p] # None /\ working[p] = Prefix(log, ready[p].through)
      BY <1>t DEF Forget, Goto, TypeOK, Local, EngineInv
    <2>2. AnchorInv(p)' /\ PublicInv(p)'
      BY <2>1, <1>t DEF Local, AnchorInv, PublicInv, Lags
    <2>3. EngineInv(p)'
      BY <2>1 DEF EngineInv
    <2>4. ProgressInv(p)' /\ BundleInv(p)'
      BY <2>1 DEF ProgressInv, BundleInv
    <2>5. QED
      BY <2>2, <2>3, <2>4 DEF Local
  <1>5. QED
    BY <1>1, <1>2, <1>3, <1>4, Combine

\* Leases come and go behind the back of the flows.
LEMMA LeaseKeeps ==
    ASSUME IInv, NEW p \in Procs, AcquireLease(p) \/ LoseSocket(p)
    PROVE  IInv'
  <1>t. TypeOK /\ Shape
    BY DEF IInv, Shape
  <1>0. UNCHANGED <<log, row, raw, ready, working, public, pc, progress, job,
                    target, staged, sent, notified>>
    BY DEF AcquireLease, LoseSocket, durable, memory, locals
  <1>1. TypeOK'
    <2>1. CASE AcquireLease(p)
      BY <2>1, <1>0, <1>t DEF TypeOK, AcquireLease
    <2>2. CASE LoseSocket(p)
      <3>1. faults' \in 0 .. MaxFaults
        BY <2>2, <1>t, MaxFaultsAssumption DEF TypeOK, LoseSocket, Fault
      <3>2. QED
        BY <2>2, <3>1, <1>0, <1>t DEF TypeOK, LoseSocket
    <2>3. QED
      BY <2>1, <2>2
  <1>2. Shape' /\ Grows
    BY <1>0, <1>t, Frozen
  <1>3. \A q \in Procs : Same(q)
    BY <1>0 DEF Same
  <1>4. \A q \in Procs : Local(q)'
    BY <1>1, <1>2, <1>3, <1>t, OthersKeep DEF IInv
  <1>5. QED
    BY <1>1, <1>2, <1>4 DEF IInv, Shape

\* An evicted engine is forgotten together with its anchor.
LEMMA EvictKeeps ==
    ASSUME IInv, NEW p \in Procs, Evict(p)
    PROVE  IInv'
  <1> USE DEF Evict, Distrust, durable, lease, locals
  <1>t. TypeOK /\ Shape /\ Local(p)
    BY DEF IInv, Shape
  <1>1. TypeOK'
    BY <1>t DEF TypeOK
  <1>2. Shape' /\ Grows
    BY <1>t, Frozen
  <1>3. \A q \in Procs \ {p} : Same(q)
    BY <1>t DEF TypeOK, Same
  <1>4. Local(p)'
    <2>1. pc[p] = "idle" /\ ready'[p] = None
      BY <1>t DEF TypeOK
    <2>2. QED
      BY <2>1, <1>t DEF Local, ProgressInv, AnchorInv, EngineInv, BundleInv, PublicInv
  <1>5. QED
    BY <1>1, <1>2, <1>3, <1>4, Combine

\* An exception outside _project ends the flow like a return does.
LEMMA InterruptKeeps ==
    ASSUME IInv, NEW p \in Procs, Interrupt(p)
    PROVE  IInv'
  <1> USE DEF Interrupt, durable, lease
  <1>t. TypeOK /\ Shape /\ Local(p)
    BY DEF IInv, Shape
  <1>1. TypeOK'
    <2>1. faults' \in 0 .. MaxFaults
      BY <1>t, MaxFaultsAssumption DEF TypeOK, Fault
    <2>2. working' \in [Procs -> Seq(Record)]
      BY <1>t DEF TypeOK
    <2>3. QED
      BY <2>1, <2>2, <1>t, ForgetType DEF TypeOK, Labels, Leave
  <1>2. Shape' /\ Grows
    BY <1>t, Frozen
  <1>3. \A q \in Procs \ {p} : Same(q)
    BY <1>t, ForgetType DEF Same, Leave, Labels, TypeOK
  <1>4. Local(p)'
    BY <1>1, <1>2, LeaveLocal
  <1>5. QED
    BY <1>1, <1>2, <1>3, <1>4, Combine

\* An exception inside _project distrusts the engine, whatever is left in it.
LEMMA InterruptProjectionKeeps ==
    ASSUME IInv, NEW p \in Procs, InterruptProjection(p)
    PROVE  IInv'
  <1> USE DEF InterruptProjection, durable, lease
  <1>t. TypeOK /\ Shape /\ Local(p)
    BY DEF IInv, Shape
  <1>a. ready'[p] = None /\ ready' \in [Procs -> Anchor \cup {None}]
        /\ \A q \in Procs \ {p} : ready'[q] = ready[q]
    BY <1>t DEF TypeOK, Distrust
  <1>b. working' \in [Procs -> Seq(Record)] /\ \A q \in Procs \ {p} : working'[q] = working[q]
    <2>1. CASE working' = working
      BY <2>1, <1>t DEF TypeOK
    <2>2. CASE /\ pc[p] = "reducing"
               /\ working' = [working EXCEPT ![p] = Append(working[p], log[target[p]])]
      <3>1. log[target[p]] \in Record
        BY <2>2, <1>t DEF Local, BundleInv, IsSource, TypeOK
      <3>2. Append(working[p], log[target[p]]) \in Seq(Record)
        BY <3>1, <1>t DEF TypeOK
      <3>3. QED
        BY <2>2, <3>2, <1>t DEF TypeOK
    <2>3. QED
      BY <2>1, <2>2
  <1>c. faults' \in 0 .. MaxFaults
    BY <1>t, MaxFaultsAssumption DEF TypeOK, Fault
  <1>2. Shape' /\ Grows
    BY <1>t, Frozen
  <1>3. CASE Leave(p)
    <2>1. TypeOK'
      BY <1>3, <1>a, <1>b, <1>c, <1>t, ForgetType DEF TypeOK, Labels, Leave
    <2>2. \A q \in Procs \ {p} : Same(q)
      BY <1>3, <1>a, <1>b, <1>t, ForgetType DEF Same, Leave, Labels
    <2>3. Local(p)'
      BY <1>3, <1>2, <1>a, <2>1, LeaveLocal
    <2>4. QED
      BY <2>1, <2>2, <2>3, <1>2, Combine
  <1>4. CASE Goto(p, "failing") /\ UNCHANGED locals
    <2>1. TypeOK'
      BY <1>4, <1>a, <1>b, <1>c, <1>t DEF TypeOK, Labels, Goto, locals
    <2>2. \A q \in Procs \ {p} : Same(q)
      BY <1>4, <1>a, <1>b, <1>t DEF Same, Goto, locals, TypeOK
    <2>3. Local(p)'
      BY <1>4, <1>2, <1>a, <2>1, <1>t, FailingLocal DEF Goto, locals, TypeOK
    <2>4. QED
      BY <2>1, <2>2, <2>3, <1>2, Combine
  <1>5. QED
    BY <1>3, <1>4

\* A dead process knows nothing; the durable state does not notice.
LEMMA CrashKeeps ==
    ASSUME IInv, NEW p \in Procs, Crash(p)
    PROVE  IInv'
  <1> USE DEF Crash, durable
  <1>t. TypeOK /\ Shape /\ Local(p)
    BY DEF IInv, Shape
  <1>1. TypeOK'
    <2>1. faults' \in 0 .. MaxFaults
      BY <1>t, MaxFaultsAssumption DEF TypeOK, Fault
    <2>2. /\ working' \in [Procs -> Seq(Record)] /\ public' \in [Procs -> Seq(Record)]
          /\ ready' \in [Procs -> Anchor \cup {None}]
      BY <1>t DEF TypeOK, Distrust
    <2>3. leased' \in [Procs -> BOOLEAN] /\ owner' \in Workers \cup {None}
      BY <1>t DEF TypeOK
    <2>4. QED
      BY <2>1, <2>2, <2>3, <1>t, ForgetType DEF TypeOK, Labels, Leave
  <1>2. Shape' /\ Grows
    BY <1>t, Frozen
  <1>3. \A q \in Procs \ {p} : Same(q)
    BY <1>t, ForgetType DEF Same, Leave, Labels, TypeOK, Distrust
  <1>4. Local(p)'
    <2>1. public'[p] = <<>> /\ ready'[p] = None
      BY <1>t DEF TypeOK, Distrust
    <2>2. QED
      BY <2>1, <1>1, <1>2, LeaveLocal
  <1>5. QED
    BY <1>1, <1>2, <1>3, <1>4, Combine

\* A stuttering step changes nothing that IInv speaks of.
LEMMA StutterKeeps ==
    ASSUME IInv, UNCHANGED vars
    PROVE  IInv'
  <1>1. TypeOK /\ Shape
    BY DEF IInv, Shape
  <1>2. TypeOK'
    BY <1>1 DEF vars, TypeOK
  <1>3. Shape' /\ Grows
    BY <1>1, Frozen DEF vars
  <1>4. \A q \in Procs : Same(q)
    BY DEF vars, Same
  <1>5. \A q \in Procs : Local(q)'
    BY <1>1, <1>2, <1>3, <1>4, OthersKeep DEF IInv
  <1>6. QED
    BY <1>2, <1>3, <1>5 DEF IInv, Shape

\* IInv is inductive.
LEMMA NextIInv ==
    ASSUME IInv, [Next]_vars
    PROVE  IInv'
  <1>1. CASE UNCHANGED vars
    BY <1>1, StutterKeeps
  <1>2. ASSUME NEW p \in Procs, Begin(p)
        PROVE  IInv'
    BY <1>2, BeginKeeps
  <1>3. ASSUME NEW p \in Procs, Step(p)
        PROVE  IInv'
    BY <1>3, LoadKeeps, LoadRefusedKeeps, RestoreKeeps, ExposeKeeps, CheckPendingKeeps,
       TakeKeeps, AppendNewKeeps, AppendExistingKeeps, ReduceKeeps, CommitKeeps,
       CommitRefusedKeeps, InstallKeeps, RecordFailureKeeps, NotifyKeeps, MarkKeeps
       DEF Step
  <1>4. ASSUME NEW p \in Procs, Environment(p)
        PROVE  IInv'
    BY <1>4, LeaseKeeps, EvictKeeps, AppendLostKeeps, CommitLostKeeps, InterruptKeeps,
       InterruptProjectionKeeps, CrashKeeps
       DEF Environment
  <1>5. QED
    BY <1>1, <1>2, <1>3, <1>4 DEF Next

\* Every reachable state satisfies the inductive invariant.
THEOREM SpecIInv == Spec => []IInv
  <1>1. Init => IInv
    BY InitIInv
  <1>2. IInv /\ [Next]_vars => IInv'
    BY NextIInv
  <1>3. QED
    BY <1>1, <1>2, PTL DEF Spec

-----------------------------------------------------------------------------
(****************************************************************************)
(* The safety properties.  A step changes the durable log in two ways only *)
(* (DurableStep): the insert of append_source and the commit of            *)
(* commit_projection; everything said of the log is shown for these two,   *)
(* and so is the refinement of ProjectionLog.                              *)
(****************************************************************************)

\* The log stands still; at most the row is inserted or its failure code set.
Quiet ==
    /\ log' = log /\ row'.pending = row.pending
    /\ row.known => row'.known /\ row'.through = row.through /\ row'.source = row.source
    /\ ~row.known /\ row'.known => row'.through = Len(log)

Admits(p) == pc[p] = "appending" /\ AdmitSource(p)
Completes(p) == pc[p] = "committing" /\ CompleteSource(p)

\* Recording a failure leaves what the row says about the log alone.
LEMMA RecordFailureQuiet ==
    ASSUME IInv, NEW p \in Procs, RecordFailure(p)
    PROVE  Quiet
  <1>1. row \in Row
    BY DEF IInv, TypeOK
  <1>2. CASE row' = row
    <2>1. log' = log
      BY DEF RecordFailure
    <2>2. QED
      BY <1>2, <2>1 DEF Quiet
  <1>3. CASE row' = [row EXCEPT !.failed = TRUE]
    <2>1. log' = log
      BY DEF RecordFailure
    <2>2. /\ row'.pending = row.pending /\ row'.through = row.through
          /\ row'.source = row.source /\ row'.known = row.known
      BY <1>1, <1>3 DEF Row
    <2>3. QED
      BY <2>1, <2>2 DEF Quiet
  <1>4. QED
    BY <1>2, <1>3 DEF RecordFailure

\* Inserting the row on first contact describes the log there already is.
LEMMA LoadQuiet ==
    ASSUME IInv, NEW p \in Procs, Load(p)
    PROVE  Quiet
  <1>1. log' = log
    BY DEF Load
  <1>2. CASE row.known
    BY <1>1, <1>2 DEF Load, Quiet
  <1>3. CASE ~row.known
    <2>1. row = NoRow
      BY <1>3 DEF IInv, UnknownRowIsEmpty
    <2>2. row' = Baseline
      BY <1>3 DEF Load
    <2>3. row'.pending = 0 /\ row.pending = 0 /\ row'.through = Len(log)
      BY <2>1, <2>2 DEF Baseline, NoRow
    <2>4. QED
      BY <1>1, <1>3, <2>3 DEF Quiet
  <1>4. QED
    BY <1>2, <1>3

\* Only the two writing transactions change the log.
LEMMA DurableStep ==
    ASSUME IInv, [Next]_vars
    PROVE  Quiet \/ \E p \in Procs : Admits(p) \/ Completes(p)
  <1>0. UNCHANGED <<log, row>> => Quiet
    BY DEF Quiet
  <1>1. CASE UNCHANGED vars
    BY <1>0, <1>1 DEF vars
  <1>2. ASSUME NEW p \in Procs, Begin(p)
        PROVE  Quiet
    BY <1>0, <1>2 DEF Begin, durable
  <1>3. ASSUME NEW p \in Procs, Step(p)
        PROVE  Quiet \/ Admits(p) \/ Completes(p)
    <2>1. CASE Load(p) \/ RecordFailure(p)
      BY <2>1, LoadQuiet, RecordFailureQuiet
    <2>2. CASE AppendNew(p)
      BY <2>2 DEF AppendNew, Admits
    <2>3. CASE Commit(p)
      BY <2>3 DEF Commit, Completes
    <2>4. CASE ~(Load(p) \/ RecordFailure(p) \/ AppendNew(p) \/ Commit(p))
      BY <1>0, <1>3, <2>4
         DEF Step, LoadRefused, Restore, Expose, CheckPending, Take, Finish, AppendExisting,
             AppendRefused, Reduce, CommitRefused, Install, Notify, Mark, durable
    <2>5. QED
      BY <2>1, <2>2, <2>3, <2>4
  <1>4. ASSUME NEW p \in Procs, Environment(p)
        PROVE  Quiet \/ Admits(p) \/ Completes(p)
    <2>1. CASE AppendLost(p)
      BY <2>1 DEF AppendLost, Admits
    <2>2. CASE CommitLost(p)
      BY <2>2 DEF CommitLost, Completes
    <2>3. CASE ~(AppendLost(p) \/ CommitLost(p))
      BY <1>0, <1>4, <2>3
         DEF Environment, AcquireLease, LoseSocket, Evict, Interrupt, InterruptProjection,
             Crash, durable
    <2>4. QED
      BY <2>1, <2>2, <2>3
  <1>5. QED
    BY <1>1, <1>2, <1>3, <1>4 DEF Next

\* The log is append-only and the progress row moves forward only.
LEMMA DurableGrows ==
    ASSUME IInv, [Next]_vars
    PROVE  Grows
  <1>0. TypeOK /\ TypeOK' /\ Shape
    BY NextIInv DEF IInv, Shape
  <1>1. CASE Quiet
    <2>1. Continues(log', log)
      BY <1>0, <1>1, SelfContinues DEF Quiet, TypeOK
    <2>2. row.through <= row'.through
      <3>1. row.through \in Nat /\ row'.through \in Nat
        BY <1>0 DEF TypeOK, Row
      <3>2. ~row.known => row.through = 0
        BY <1>0 DEF Shape, UnknownRowIsEmpty, NoRow
      <3>3. QED
        BY <1>1, <3>1, <3>2 DEF Quiet
    <2>3. QED
      BY <1>1, <2>1, <2>2 DEF Quiet, Grows
  <1>2. ASSUME NEW p \in Procs, Admits(p)
        PROVE  Grows
    BY <1>2, AdmitFacts DEF Admits
  <1>3. ASSUME NEW p \in Procs, Completes(p)
        PROVE  Grows
    BY <1>3, CompleteFacts DEF Completes
  <1>4. QED
    BY <1>1, <1>2, <1>3, DurableStep

\* Every variable keeps its type: in particular a raw row never reaches a
\* status the raw table does not know, and no await is left without a flow.
THEOREM TypeCorrect == Spec => []TypeOK
  <1>1. IInv => TypeOK
    BY DEF IInv
  <1>2. QED
    BY <1>1, SpecIInv, PTL

\* The progress row always accounts for the whole log (append_source and
\* commit_projection leave no gap, whatever fails between them).
THEOREM RowAccounts == Spec => []RowAccountsForLog
  <1>1. IInv => RowAccountsForLog
    BY DEF IInv
  <1>2. QED
    BY <1>1, SpecIInv, PTL

\* "Staged privately, acknowledged durably, then exposed": no process shows an
\* event that the durable completed prefix does not contain.
THEOREM PublicDurable == Spec => []PublicIsDurable
  <1>1. IInv => PublicIsDurable
    BY DEF IInv, Local, PublicInv, PublicIsDurable
  <1>2. QED
    BY <1>1, SpecIInv, PTL

\* A failure code is shown for a pending source only (record_failure).
THEOREM FailurePending == Spec => []FailureIsPending
  <1>1. IInv => FailureIsPending
    BY DEF IInv
  <1>2. QED
    BY <1>1, SpecIInv, PTL

\* An anchor that equals the row's means that the private engine holds the
\* completed prefix, which is what lets initialize_session skip the restore.
THEOREM PrivateExact == Spec => []PrivateIsExact
  <1>1. ASSUME IInv
        PROVE  PrivateIsExact
    <2>1. SUFFICES ASSUME NEW p \in Procs, row.known, ready[p] = AnchorOf(row),
                          pc[p] \notin {"committing", "installing"}
                   PROVE  working[p] = Prefix(log, row.through)
      BY DEF PrivateIsExact
    <2>2. ready[p] # None /\ ready[p].through = row.through
      BY <1>1, <2>1, AnchoredIsKnown
    <2>3. ProgressInv(p) /\ AnchorInv(p) /\ EngineInv(p) /\ TypeOK
      BY <1>1 DEF IInv, Local
    <2>4. pc[p] \notin {"restoring", "exposing", "failing"}
      <3>1. row.through \in Nat /\ progress[p].through \in Nat
        BY <2>3 DEF TypeOK, Row
      <3>2. pc[p] \in {"restoring", "exposing"} =>
              progress[p].through <= row.through /\ ready[p].through < progress[p].through
        BY <2>2, <2>3 DEF ProgressInv, AnchorInv, Lags, AnchorOf
      <3>3. QED
        BY <2>2, <2>3, <3>1, <3>2 DEF AnchorInv
    <2>5. QED
      BY <2>1, <2>2, <2>3, <2>4 DEF EngineInv, TypeOK, Labels
  <1>2. QED
    BY <1>1, SpecIInv, PTL

\* The new records a commit appends are derived facts, at known positions.
LEMMA BundleRecords ==
    ASSUME IInv, NEW p \in Procs, Completes(p)
    PROVE  /\ log' = log \o staged[p] /\ staged[p] \in Seq(Record) /\ log \in Seq(Record)
           /\ staged[p] = Effects(Prefix(log, Len(log) - 1), log[Len(log)].fact)
           /\ target[p] = Len(log) /\ target[p] = row.through + 1 /\ row.pending = Len(log)
           /\ log[Len(log)].kind = "source" /\ log[Len(log)] \in Record /\ Len(log) \in Nat \ {0}
           /\ \A i \in 1 .. Len(staged[p]) : staged[p][i].kind = "derived"
           /\ Len(log') = Len(log) + Len(staged[p])
           /\ \A i \in 1 .. Len(log) : log'[i] = log[i]
           /\ \A i \in Len(log) + 1 .. Len(log') : log'[i] = staged[p][i - Len(log)]
  <1>1. /\ target[p] = Len(log) /\ target[p] = row.through + 1
        /\ row.pending = target[p] /\ log' = log \o staged[p]
    BY CompleteFacts DEF Completes, CompleteSource, MayCommit
  <1>2. /\ IsSource(target[p])
        /\ staged[p] = Effects(Prefix(log, target[p] - 1), log[target[p]].fact)
        /\ log \in Seq(Record) /\ staged[p] \in Seq(Record)
    BY DEF Completes, IInv, Local, BundleInv, TypeOK
  <1>3. Len(log) \in Nat \ {0} /\ log[Len(log)].kind = "source" /\ log[Len(log)] \in Record
    <2>1. target[p] \in 1 .. Len(log) /\ log[target[p]].kind = "source"
      BY <1>2 DEF IsSource
    <2>2. log[target[p]] \in Record /\ Len(log) \in Nat
      BY <1>2, <2>1
    <2>3. QED
      BY <1>1, <2>1, <2>2
  <1>4. Prefix(log, Len(log) - 1) \in Seq(Record) /\ log[Len(log)].fact \in Facts
    <2>1. Len(log) - 1 \in 0 .. Len(log)
      BY <1>3
    <2>2. Prefix(log, Len(log) - 1) \in Seq(Record)
      BY <1>2, <2>1, PrefixType
    <2>3. QED
      BY <1>3, <2>2 DEF Record
  <1>5. \A i \in 1 .. Len(staged[p]) : staged[p][i].kind = "derived"
    BY <1>1, <1>2, <1>4, EffectsType
  <1>6. /\ Len(log \o staged[p]) = Len(log) + Len(staged[p])
        /\ \A i \in 1 .. Len(log) : (log \o staged[p])[i] = log[i]
        /\ \A i \in Len(log) + 1 .. Len(log) + Len(staged[p]) :
             (log \o staged[p])[i] = staged[p][i - Len(log)]
    BY <1>2, ConcatProperties
  <1>7. QED
    BY <1>1, <1>2, <1>3, <1>5, <1>6

\* No step writes a deduplication key twice.
LEMMA FactOnceKeeps ==
    ASSUME IInv, FactOnce, [Next]_vars
    PROVE  FactOnce'
  <1>1. CASE Quiet
    BY <1>1 DEF Quiet, FactOnce
  <1>2. ASSUME NEW p \in Procs, Admits(p)
        PROVE  FactOnce'
    <2>1. /\ log \in Seq(Record) /\ log' = Append(log, Source(job[p]))
          /\ job[p] \notin FactsIn(log) /\ Source(job[p]) \in Record
      BY <1>2, AdmitFacts, RecordTypes DEF Admits, AdmitSource, IInv, TypeOK
    <2>2. /\ Len(log') = Len(log) + 1 /\ log'[Len(log) + 1].fact = job[p]
          /\ \A i \in 1 .. Len(log) : log'[i] = log[i]
          /\ DOMAIN log' = 1 .. Len(log) + 1 /\ DOMAIN log = 1 .. Len(log)
      BY <2>1 DEF Source
    <2>3. \A i \in 1 .. Len(log) : log[i].kind = "source" => log[i].fact # job[p]
      BY <2>1, <2>2 DEF FactsIn
    <2>4. ASSUME NEW i \in DOMAIN log', NEW j \in DOMAIN log',
                 log'[i].kind = "source", log'[j].kind = "source", log'[i].fact = log'[j].fact
          PROVE  i = j
      <3>1. CASE i \in 1 .. Len(log) /\ j \in 1 .. Len(log)
        BY <3>1, <2>2, <2>4 DEF FactOnce
      <3>2. CASE i = Len(log) + 1 \/ j = Len(log) + 1
        BY <3>2, <2>1, <2>2, <2>3, <2>4
      <3>3. QED
        BY <3>1, <3>2, <2>1, <2>2, <2>4
    <2>5. QED
      BY <2>4 DEF FactOnce
  <1>3. ASSUME NEW p \in Procs, Completes(p)
        PROVE  FactOnce'
    <2>1. ASSUME NEW i \in DOMAIN log', log'[i].kind = "source"
          PROVE  i \in DOMAIN log /\ log'[i] = log[i]
      <3>1. i \in 1 .. Len(log')
        BY <1>3, BundleRecords, ConcatProperties
      <3>2. ~(i \in Len(log) + 1 .. Len(log'))
        <4>1. SUFFICES ASSUME i \in Len(log) + 1 .. Len(log')
                       PROVE  FALSE
          OBVIOUS
        <4>2. i - Len(log) \in 1 .. Len(staged[p]) /\ log'[i] = staged[p][i - Len(log)]
          BY <4>1, <1>3, BundleRecords
        <4>3. log'[i].kind = "derived"
          BY <4>2, <1>3, BundleRecords
        <4>4. QED
          BY <4>3, <2>1
      <3>3. QED
        BY <3>1, <3>2, <1>3, BundleRecords
    <2>2. QED
      BY <2>1 DEF FactOnce
  <1>4. QED
    BY <1>1, <1>2, <1>3, DurableStep

\* However often a fact is delivered, and to however many processes, its
\* deduplication key is in the log once (append_source).
THEOREM FactsOnce == Spec => []FactOnce
  <1>1. Init => FactOnce
    BY LegacyFactsAssumption DEF Init, FactOnce
  <1>2. IInv /\ FactOnce /\ [Next]_vars => FactOnce'
    BY FactOnceKeeps
  <1>3. QED
    BY <1>1, <1>2, SpecIInv, PTL DEF Spec

\* A completed fact stays completed.
LEMMA CompletedKeeps ==
    ASSUME IInv, [Next]_vars, NEW f, Completed(f)
    PROVE  Completed(f)'
  <1>1. PICK i \in 1 .. row.through : log[i].kind = "source" /\ log[i].fact = f
    BY DEF Completed
  <1>2. Grows /\ row.through \in 0 .. Len(log) /\ row'.through \in Nat
    BY DurableGrows, ThroughInLog, NextIInv DEF IInv, Shape, TypeOK, Row
  <1>3. row.through <= row'.through /\ \A j \in 1 .. Len(log) : log'[j] = log[j]
    BY <1>2 DEF Grows, Continues
  <1>4. i \in 1 .. row'.through /\ i \in 1 .. Len(log)
    BY <1>1, <1>2, <1>3
  <1>5. QED
    BY <1>1, <1>3, <1>4 DEF Completed

\* mark_status comes after the commit, in every order of the other steps.
LEMMA RawRetiredKeeps ==
    ASSUME IInv, RawRetired, [Next]_vars
    PROVE  RawRetired'
  <1>1. CASE raw' = raw
    BY <1>1, CompletedKeeps DEF RawRetired
  <1>2. ASSUME NEW p \in Procs, Mark(p)
        PROVE  RawRetired'
    <2>1. /\ pc[p] = "marking" /\ job[p] # None /\ BundleInv(p) /\ TypeOK
      BY <1>2 DEF Mark, IInv, Local, BundleInv
    <2>2. Completed(job[p])
      <3>1. CASE target[p] = 0
        BY <2>1, <3>1 DEF BundleInv
      <3>2. CASE target[p] # 0
        <4>1. /\ IsSource(target[p]) /\ log[target[p]] = Source(job[p])
              /\ target[p] <= row.through /\ target[p] \in Nat /\ row.through \in Nat
          BY <2>1, <3>2 DEF BundleInv, TypeOK, Row
        <4>2. target[p] \in 1 .. row.through /\ log[target[p]].fact = job[p]
          BY <4>1 DEF IsSource, Source
        <4>3. QED
          BY <4>1, <4>2 DEF Completed, IsSource
      <3>3. QED
        BY <3>1, <3>2
    <2>3. \A f \in Facts : raw'[f] # "pending" => f = job[p] \/ raw[f] # "pending"
      BY <1>2, <2>1 DEF Mark, TypeOK
    <2>4. \A f \in Facts : raw'[f] # "pending" => Completed(f)'
      BY <2>2, <2>3, CompletedKeeps DEF RawRetired
    <2>5. QED
      BY <2>4 DEF RawRetired
  <1>3. raw' = raw \/ \E p \in Procs : Mark(p)
    BY DEF Next, vars, Begin, Step, Environment, Load, LoadRefused, Restore, Expose,
           CheckPending, Take, Finish, AppendNew, AppendExisting, AppendRefused, AppendLost,
           Reduce, Commit, CommitRefused, CommitLost, Install, RecordFailure, Notify,
           AcquireLease, LoseSocket, Evict, Interrupt, InterruptProjection, Crash, durable
  <1>4. QED
    BY <1>1, <1>2, <1>3

\* A raw row is retired only when its whole bundle is durable (mark_status).
THEOREM RawRetiredLate == Spec => []RawRetired
  <1>1. Init => RawRetired
    BY DEF Init, RawRetired
  <1>2. IInv /\ RawRetired /\ [Next]_vars => RawRetired'
    BY RawRetiredKeeps
  <1>3. QED
    BY <1>1, <1>2, SpecIInv, PTL DEF Spec

\* Every step but a commit, its exposure and an announcement leaves the pending
\* announcements of every process as they are, or drops those of its own.
Silent(q) ==
    /\ Announces(q)' => /\ Announces(q)
                        /\ target'[q] = target[q] /\ sent'[q] = sent[q] /\ staged'[q] = staged[q]
    /\ (pc[q] \notin {"notifying", "marking"} => sent[q] = 0)
         => (pc'[q] \notin {"notifying", "marking"} => sent'[q] = 0)

Speaks(p) == Commit(p) \/ Install(p) \/ Notify(p)

\* A flow that ends has nothing left to announce.
LEMMA ForgetIsSilent ==
    ASSUME TypeOK, NEW p \in Procs, NEW label \in {"idle", "choosing"}, Forget(p, label)
    PROVE  \A q \in Procs : Silent(q)
  BY DEF Forget, Goto, TypeOK, Silent, Announces

\* A flow that goes on to a label without announcements announces nothing.
LEMMA GotoIsSilent ==
    ASSUME TypeOK, NEW p \in Procs, NEW label \in Labels \ {"installing", "notifying"},
           Goto(p, label), sent' = sent, pc[p] \notin {"notifying", "marking"},
           \A q \in Procs \ {p} : /\ target'[q] = target[q] /\ staged'[q] = staged[q]
                                  /\ job'[q] = job[q]
    PROVE  \A q \in Procs : Silent(q)
  BY DEF Goto, TypeOK, Silent, Announces

\* A step that leaves the flows alone leaves their announcements alone.
LEMMA IdleIsSilent ==
    ASSUME UNCHANGED <<pc, job, target, staged, sent>>
    PROVE  \A q \in Procs : Silent(q)
  BY DEF Silent, Announces

LEMMA SilentSteps ==
    ASSUME IInv, NEW p \in Procs, Begin(p) \/ Step(p) \/ Environment(p), ~Speaks(p)
    PROVE  notified' = notified /\ \A q \in Procs : Silent(q)
  <1>t. TypeOK
    BY DEF IInv
  <1>1. notified' = notified
    BY DEF Speaks, Begin, Step, Environment, Load, LoadRefused, Restore, Expose, CheckPending,
           Take, Finish, AppendNew, AppendExisting, AppendRefused, AppendLost, Reduce,
           CommitRefused, CommitLost, RecordFailure, Mark, AcquireLease, LoseSocket, Evict,
           Interrupt, InterruptProjection, Crash
  <1>2. CASE LoadRefused(p) \/ Finish(p) \/ AppendRefused(p) \/ AppendLost(p)
             \/ RecordFailure(p) \/ Mark(p) \/ Interrupt(p) \/ Crash(p)
    <2>1. Forget(p, "idle") \/ Forget(p, "choosing")
      BY <1>2 DEF LoadRefused, Finish, AppendRefused, AppendLost, RecordFailure, Mark,
                  Interrupt, Crash, Leave
    <2>2. QED
      BY <1>1, <1>t, <2>1, ForgetIsSilent
  <1>3. CASE AcquireLease(p) \/ LoseSocket(p) \/ Evict(p)
    BY <1>1, <1>3, IdleIsSilent DEF AcquireLease, LoseSocket, Evict, locals
  <1>4. CASE Begin(p) \/ Load(p) \/ Restore(p) \/ Expose(p)
    <2>1. /\ UNCHANGED <<job, target, staged, sent>> /\ pc[p] \notin {"notifying", "marking"}
          /\ Goto(p, "loading") \/ Goto(p, "checking") \/ Goto(p, "restoring")
             \/ Goto(p, "exposing")
      BY <1>4 DEF Begin, Load, Restore, Expose, locals
    <2>2. QED
      BY <1>1, <1>t, <2>1, GotoIsSilent DEF Labels
  <1>5. CASE CheckPending(p)
    <2>1. /\ sent' = sent /\ staged' = staged /\ job' = job /\ pc[p] = "checking"
          /\ target' = [target EXCEPT ![p] = progress[p].pending]
          /\ Goto(p, "choosing") \/ Goto(p, "reducing")
      BY <1>5 DEF CheckPending, memory
    <2>2. \A q \in Procs \ {p} : target'[q] = target[q]
      BY <2>1, <1>t DEF TypeOK
    <2>3. QED
      BY <1>1, <1>t, <2>1, <2>2, GotoIsSilent DEF Labels
  <1>6. ASSUME NEW f \in Facts, Take(p, f)
        PROVE  \A q \in Procs : Silent(q)
    <2>1. /\ sent' = sent /\ staged' = staged /\ target' = target /\ pc[p] = "choosing"
          /\ job' = [job EXCEPT ![p] = f] /\ Goto(p, "appending")
      BY <1>6 DEF Take
    <2>2. \A q \in Procs \ {p} : job'[q] = job[q]
      BY <2>1, <1>t DEF TypeOK
    <2>3. QED
      BY <1>t, <2>1, <2>2, GotoIsSilent DEF Labels
  <1>7. CASE AppendNew(p)
    <2>1. /\ sent' = sent /\ staged' = staged /\ job' = job /\ pc[p] = "appending"
          /\ target' = [target EXCEPT ![p] = Len(log) + 1] /\ Goto(p, "reducing")
      BY <1>7 DEF AppendNew
    <2>2. \A q \in Procs \ {p} : target'[q] = target[q]
      BY <2>1, <1>t DEF TypeOK
    <2>3. QED
      BY <1>1, <1>t, <2>1, <2>2, GotoIsSilent DEF Labels
  <1>8. CASE AppendExisting(p) \/ CommitRefused(p) \/ CommitLost(p)
    <2>1. /\ UNCHANGED <<job, target, staged, sent>> /\ pc[p] \in {"appending", "committing"}
          /\ Goto(p, "marking") \/ Goto(p, "failing")
      BY <1>8 DEF AppendExisting, CommitRefused, CommitLost, locals
    <2>2. QED
      BY <1>1, <1>t, <2>1, GotoIsSilent DEF Labels
  <1>9. CASE Reduce(p)
    <2>1. /\ sent' = sent /\ target' = target /\ job' = job /\ pc[p] = "reducing"
          /\ staged' = [staged EXCEPT ![p] = Effects(working[p], log[target[p]].fact)]
          /\ Goto(p, "committing")
      BY <1>9 DEF Reduce
    <2>2. \A q \in Procs \ {p} : staged'[q] = staged[q]
      BY <2>1, <1>t DEF TypeOK
    <2>3. QED
      BY <1>1, <1>t, <2>1, <2>2, GotoIsSilent DEF Labels
  <1>10. CASE InterruptProjection(p)
    <2>1. CASE Forget(p, "idle")
      BY <1>1, <1>t, <2>1, ForgetIsSilent
    <2>2. CASE ~Forget(p, "idle")
      <3>1. /\ UNCHANGED <<job, target, staged, sent>> /\ Goto(p, "failing")
            /\ pc[p] \in {"reducing", "committing", "installing"}
        BY <1>10, <2>2 DEF InterruptProjection, Leave, locals
      <3>2. QED
        BY <1>1, <1>t, <3>1, GotoIsSilent DEF Labels
    <2>3. QED
      BY <2>1, <2>2
  <1>11. QED
    BY <1>1, <1>2, <1>3, <1>4, <1>5, <1>6, <1>7, <1>8, <1>9, <1>10 DEF Step, Environment, Speaks

LEMMA NotifiedType ==
    ASSUME IInv
    PROVE  \A i \in DOMAIN notified : notified[i].at \in Nat /\ notified[i].by \in Procs
  <1> DEFINE Note == [by : Procs, at : Nat]
  <1>1. notified \in Seq(Note)
    BY DEF IInv, TypeOK
  <1>2. \A i \in DOMAIN notified : notified[i] \in Note
    <2> HIDE DEF Note
    <2>1. QED
      BY <1>1
  <1>3. QED
    BY <1>2

\* A silent step keeps what is known of the announcements.
LEMMA SilentKeeps ==
    ASSUME IInv, NotifyInv, notified' = notified, \A q \in Procs : Silent(q),
           row.through <= row'.through, row.through \in Nat, row'.through \in Nat
    PROVE  NotifyInv'
  <1>1. NotifiedOnce'
    <2>1. \A i \in DOMAIN notified : notified[i].at \in Nat
      BY NotifiedType
    <2>2. QED
      BY <2>1 DEF NotifyInv, NotifiedOnce
  <1>2. ASSUME NEW p \in Procs
        PROVE  AnnounceInv(p)'
    <2>1. AnnounceInv(p) /\ Silent(p)
      BY DEF NotifyInv
    <2>2. pc'[p] \notin {"notifying", "marking"} => sent'[p] = 0
      BY <2>1 DEF AnnounceInv, Silent
    <2>3. SUFFICES ASSUME Announces(p)'
                   PROVE  /\ target'[p] + Len(staged'[p]) <= row'.through
                          /\ \A i \in DOMAIN notified' :
                               /\ notified'[i].at \notin Unannounced(p)'
                               /\ notified'[i].by = p => notified'[i].at < target'[p] + sent'[p]
                          /\ \A q \in Procs \ {p} : Announces(q)'
                               => Unannounced(p)' \cap Unannounced(q)' = {}
      BY <2>2 DEF AnnounceInv
    <2>4. /\ Announces(p) /\ Unannounced(p)' = Unannounced(p)
          /\ target'[p] = target[p] /\ sent'[p] = sent[p] /\ staged'[p] = staged[p]
      BY <2>1, <2>3 DEF Silent, Unannounced
    <2>5. target'[p] + Len(staged'[p]) <= row'.through
      <3>1. target[p] \in Nat /\ Len(staged[p]) \in Nat
        BY DEF IInv, TypeOK
      <3>2. target[p] + Len(staged[p]) <= row.through
        BY <2>1, <2>4 DEF AnnounceInv
      <3>3. QED
        BY <2>4, <3>1, <3>2
    <2>6. \A q \in Procs : Announces(q)' => Announces(q) /\ Unannounced(q)' = Unannounced(q)
      BY DEF Silent, Unannounced
    <2>7. QED
      BY <2>1, <2>4, <2>5, <2>6 DEF AnnounceInv
  <1>3. QED
    BY <1>1, <1>2 DEF NotifyInv

\* A commit appends its bundle behind everything that was ever announced.
LEMMA CommitAnnounces ==
    ASSUME IInv, NotifyInv, NEW p \in Procs, Commit(p)
    PROVE  NotifyInv'
  <1>1. /\ row.through \in Nat /\ target[p] = row.through + 1
        /\ row'.through = target[p] + Len(staged[p]) /\ Len(staged[p]) \in Nat
        /\ notified' = notified /\ UNCHANGED <<target, staged, sent, job>>
        /\ pc' = [pc EXCEPT ![p] = "installing"] /\ pc[p] = "committing"
    <2>1. row \in Row /\ staged[p] \in Seq(Record)
      BY DEF IInv, TypeOK
    <2>2. target[p] = row.through + 1
      BY BundleRecords DEF Commit, Completes
    <2>3. row'.through = target[p] + Len(staged[p])
      BY <2>1 DEF Commit, CompleteSource, Row
    <2>4. QED
      BY <2>1, <2>2, <2>3 DEF Commit, Goto, locals, Row
  <1>2. \A q \in Procs \ {p} : pc'[q] = pc[q]
    BY <1>1 DEF IInv, TypeOK
  <1>3. pc'[p] = "installing" /\ sent[p] = 0
    <2>1. pc'[p] = "installing"
      BY <1>1 DEF IInv, TypeOK
    <2>2. AnnounceInv(p)
      BY DEF NotifyInv
    <2>3. QED
      BY <1>1, <2>1, <2>2 DEF AnnounceInv
  <1>4. \A i \in DOMAIN notified : notified[i].at \in Nat /\ notified[i].at <= row.through
    BY NotifiedType DEF NotifyInv, NotifiedOnce
  <1>5. NotifiedOnce'
    <2>1. \A i \in DOMAIN notified : notified[i].at <= row'.through
      BY <1>1, <1>4
    <2>2. QED
      BY <1>1, <2>1 DEF NotifyInv, NotifiedOnce
  <1>6. /\ Unannounced(p)' = target[p] .. target[p] + Len(staged[p])
        /\ \A q \in Procs : Unannounced(q)' = Unannounced(q)
        /\ \A q \in Procs \ {p} : Announces(q)' => Announces(q)
    BY <1>1, <1>2, <1>3 DEF Unannounced, Announces
  <1>7. ASSUME NEW q \in Procs \ {p}, Announces(q)
        PROVE  Unannounced(q) \subseteq Int /\ \A n \in Unannounced(q) : n <= row.through
    <2>1. target[q] + Len(staged[q]) <= row.through
      BY <1>7 DEF NotifyInv, AnnounceInv
    <2>2. target[q] \in Nat /\ Len(staged[q]) \in Nat /\ sent[q] \in Nat
      BY DEF IInv, TypeOK
    <2>3. QED
      BY <1>1, <2>1, <2>2 DEF Unannounced
  <1>8. AnnounceInv(p)'
    <2>1. \A i \in DOMAIN notified : /\ notified[i].at \notin Unannounced(p)'
                                     /\ notified[i].at < target[p] + sent[p]
      BY <1>1, <1>3, <1>4, <1>6
    <2>2. \A q \in Procs \ {p} : Announces(q)' => Unannounced(p)' \cap Unannounced(q)' = {}
      BY <1>1, <1>6, <1>7
    <2>3. target[p] + Len(staged[p]) <= row'.through
      BY <1>1
    <2>4. QED
      BY <1>1, <1>3, <2>1, <2>2, <2>3 DEF AnnounceInv
  <1>9. ASSUME NEW q \in Procs \ {p}
        PROVE  AnnounceInv(q)'
    <2>1. AnnounceInv(q)
      BY DEF NotifyInv
    <2>2. CASE ~Announces(q)'
      BY <1>1, <1>2, <2>1, <2>2 DEF AnnounceInv
    <2>3. CASE Announces(q)'
      <3>1. Announces(q) /\ Unannounced(q)' = Unannounced(q)
        BY <1>6, <2>3
      <3>2. Unannounced(q)' \cap Unannounced(p)' = {}
        BY <1>1, <1>6, <1>7, <3>1
      <3>3. \A o \in Procs \ {q} : Announces(o)' => Unannounced(q)' \cap Unannounced(o)' = {}
        BY <1>6, <2>1, <3>1, <3>2 DEF AnnounceInv
      <3>4. target[q] + Len(staged[q]) <= row'.through
        <4>1. target[q] \in Nat /\ Len(staged[q]) \in Nat
          BY DEF IInv, TypeOK
        <4>2. QED
          BY <1>1, <2>1, <3>1, <4>1 DEF AnnounceInv
      <3>5. QED
        BY <1>1, <1>2, <2>1, <3>1, <3>3, <3>4 DEF AnnounceInv
    <2>4. QED
      BY <2>2, <2>3
  <1>10. QED
    BY <1>5, <1>8, <1>9 DEF NotifyInv

\* Exposing the bundle announces nothing yet.
LEMMA InstallAnnounces ==
    ASSUME IInv, NEW p \in Procs, Install(p)
    PROVE  notified' = notified /\ \A q \in Procs : Silent(q)
  <1>1. notified' = notified
    BY DEF Install
  <1>t. TypeOK
    BY DEF IInv
  <1>2. CASE job[p] = None
    BY <1>1, <1>2, <1>t, ForgetIsSilent DEF Install
  <1>3. CASE job[p] # None
    BY <1>1, <1>3, <1>t DEF Install, Goto, locals, TypeOK, Silent, Announces
  <1>4. QED
    BY <1>2, <1>3

\* An interval without its first element.
LEMMA IntervalTail ==
    ASSUME NEW a \in Nat, NEW b \in Nat
    PROVE  a + 1 .. b = (a .. b) \ {a}
  OBVIOUS

\* An announcement is the next position of the process's own bundle.
LEMMA NotifyAnnounces ==
    ASSUME IInv, NotifyInv, NEW p \in Procs, Notify(p)
    PROVE  NotifyInv'
  <1> DEFINE n == target[p] + sent[p]
  <1>1. /\ target[p] \in Nat /\ sent[p] \in Nat /\ Len(staged[p]) \in Nat
        /\ row.through \in Nat /\ notified \in Seq([by : Procs, at : Nat])
    BY DEF IInv, TypeOK, Row
  <1>2. /\ pc[p] = "notifying" /\ sent[p] <= Len(staged[p])
        /\ UNCHANGED <<row, target, staged, job>> /\ sent'[p] = sent[p] + 1
        /\ pc'[p] \in {"notifying", "marking"}
        /\ \A q \in Procs \ {p} : pc'[q] = pc[q] /\ sent'[q] = sent[q]
    BY DEF Notify, Goto, durable, IInv, TypeOK
  <1>3. Announces(p) /\ AnnounceInv(p)
    <2>1. job[p] # None
      BY <1>2 DEF IInv, Local, BundleInv
    <2>2. QED
      BY <1>2, <2>1 DEF Announces, NotifyInv
  <1>4. /\ n \in Unannounced(p) /\ n \in Nat /\ n <= row.through
        /\ Unannounced(p)' = Unannounced(p) \ {n}
    <2>1. target[p] + Len(staged[p]) <= row.through
      BY <1>3 DEF AnnounceInv
    <2>2. n \in Nat /\ n <= row.through /\ n <= target[p] + Len(staged[p])
      <3>1. sent[p] <= Len(staged[p])
        BY <1>2
      <3>2. QED
        BY <1>1, <2>1, <3>1
    <2>3. n \in Unannounced(p)
      BY <1>1, <2>2 DEF Unannounced
    <2>4. target'[p] = target[p] /\ staged'[p] = staged[p] /\ sent'[p] = sent[p] + 1
      BY <1>2
    <2>5. Unannounced(p)' = n + 1 .. target[p] + Len(staged[p])
      <3>1. target'[p] + sent'[p] = n + 1
        BY <1>1, <2>4
      <3>2. Unannounced(p)' = target'[p] + sent'[p] .. target'[p] + Len(staged'[p])
        BY DEF Unannounced
      <3>3. QED
        BY <2>4, <3>1, <3>2
    <2>6. Unannounced(p) = n .. target[p] + Len(staged[p])
      BY DEF Unannounced
    <2>7. target[p] + Len(staged[p]) \in Nat
      BY <1>1
    <2>8. Unannounced(p)' = Unannounced(p) \ {n}
      BY <2>2, <2>5, <2>6, <2>7, IntervalTail
    <2>9. QED
      BY <2>2, <2>3, <2>8
  <1>5. /\ Len(notified') = Len(notified) + 1 /\ Len(notified) \in Nat
        /\ notified'[Len(notified) + 1] = [by |-> p, at |-> n]
        /\ \A i \in 1 .. Len(notified) : notified'[i] = notified[i]
        /\ DOMAIN notified' = 1 .. Len(notified) + 1 /\ DOMAIN notified = 1 .. Len(notified)
    BY <1>1 DEF Notify
  <1>6. \A i \in 1 .. Len(notified) : /\ notified[i].at # n /\ notified[i].at <= row.through
                                      /\ notified[i].by = p => notified[i].at < n
    BY <1>3, <1>4, <1>5 DEF AnnounceInv, NotifyInv, NotifiedOnce
  <1>7. NotifiedOnce'
    <2>1. ASSUME NEW i \in 1 .. Len(notified) + 1
          PROVE  /\ notified'[i].at <= row.through
                 /\ \A j \in 1 .. i - 1 :
                      /\ notified'[j].at # notified'[i].at
                      /\ notified'[j].by = notified'[i].by => notified'[j].at < notified'[i].at
      <3>1. CASE i = Len(notified) + 1
        BY <1>4, <1>5, <1>6, <3>1
      <3>2. CASE i \in 1 .. Len(notified)
        <4>1. \A j \in 1 .. i - 1 : j \in 1 .. Len(notified)
          BY <1>5, <3>2
        <4>2. QED
          BY <1>5, <3>2, <4>1 DEF NotifyInv, NotifiedOnce
      <3>3. QED
        BY <1>5, <3>1, <3>2
    <2>2. QED
      BY <1>2, <1>5, <2>1 DEF NotifiedOnce
  <1>8. AnnounceInv(p)'
    <2>1. target[p] + Len(staged[p]) <= row.through
      BY <1>3 DEF AnnounceInv
    <2>2. \A i \in DOMAIN notified' : /\ notified'[i].at \notin Unannounced(p)'
                                      /\ notified'[i].by = p => notified'[i].at < n + 1
      <3>1. ASSUME NEW i \in 1 .. Len(notified)
            PROVE  /\ notified[i].at \notin Unannounced(p) \ {n}
                   /\ notified[i].by = p => notified[i].at < n + 1
        <4>1. notified[i].at \in Nat
          BY <1>5, NotifiedType
        <4>2. notified[i].at \notin Unannounced(p)
          BY <1>3, <1>5 DEF AnnounceInv
        <4>3. QED
          BY <1>4, <1>6, <4>1, <4>2
      <3>2. /\ n \notin Unannounced(p) \ {n} /\ n < n + 1
        BY <1>4
      <3>3. ASSUME NEW i \in 1 .. Len(notified) + 1
            PROVE  /\ notified'[i].at \notin Unannounced(p)'
                   /\ notified'[i].by = p => notified'[i].at < n + 1
        <4>1. CASE i = Len(notified) + 1
          BY <1>4, <1>5, <3>2, <4>1
        <4>2. CASE i \in 1 .. Len(notified)
          BY <1>4, <1>5, <3>1, <4>2
        <4>3. QED
          BY <1>5, <4>1, <4>2
      <3>4. QED
        BY <1>5, <3>3
    <2>3. \A q \in Procs \ {p} : Announces(q)' => Unannounced(p)' \cap Unannounced(q)' = {}
      BY <1>2, <1>3, <1>4 DEF AnnounceInv, Announces, Unannounced
    <2>4. target'[p] + sent'[p] = n + 1
      <3>1. target'[p] = target[p] /\ sent'[p] = sent[p] + 1
        BY <1>2
      <3>2. QED
        BY <1>1, <3>1
    <2>5. QED
      BY <1>2, <2>1, <2>2, <2>3, <2>4 DEF AnnounceInv
  <1>9. ASSUME NEW q \in Procs \ {p}
        PROVE  AnnounceInv(q)'
    <2>1. AnnounceInv(q)
      BY DEF NotifyInv
    <2>2. CASE ~Announces(q)'
      BY <1>2, <2>1, <2>2 DEF AnnounceInv
    <2>3. CASE Announces(q)'
      <3>1. Announces(q) /\ Unannounced(q)' = Unannounced(q) /\ sent'[q] = sent[q]
        BY <1>2, <2>3 DEF Announces, Unannounced
      <3>2. n \notin Unannounced(q)
        BY <1>3, <1>4, <3>1 DEF AnnounceInv
      <3>3. \A i \in DOMAIN notified' :
              /\ notified'[i].at \notin Unannounced(q)
              /\ notified'[i].by = q => notified'[i].at < target[q] + sent[q]
        <4>1. ASSUME NEW i \in 1 .. Len(notified) + 1
              PROVE  /\ notified'[i].at \notin Unannounced(q)
                     /\ notified'[i].by = q => notified'[i].at < target[q] + sent[q]
          <5>1. CASE i = Len(notified) + 1
            BY <1>5, <3>2, <5>1
          <5>2. CASE i \in 1 .. Len(notified)
            BY <1>5, <2>1, <3>1, <5>2 DEF AnnounceInv
          <5>3. QED
            BY <1>5, <5>1, <5>2
        <4>2. QED
          BY <1>5, <4>1
      <3>4. \A o \in Procs \ {q} : Announces(o)' => Unannounced(q) \cap Unannounced(o)' = {}
        <4>1. ASSUME NEW o \in Procs \ {q}, Announces(o)'
              PROVE  Unannounced(o)' \subseteq Unannounced(o) /\ Announces(o)
          BY <1>2, <1>3, <1>4, <4>1 DEF Announces, Unannounced
        <4>2. QED
          BY <2>1, <3>1, <4>1 DEF AnnounceInv
      <3>5. target[q] + Len(staged[q]) <= row.through
        BY <2>1, <3>1 DEF AnnounceInv
      <3>6. pc'[q] \notin {"notifying", "marking"} => sent'[q] = 0
        BY <1>2, <2>1 DEF AnnounceInv
      <3>7. QED
        BY <1>2, <3>1, <3>3, <3>4, <3>5, <3>6 DEF AnnounceInv
    <2>4. QED
      BY <2>2, <2>3
  <1>10. QED
    BY <1>7, <1>8, <1>9 DEF NotifyInv

LEMMA NotifyInvKeeps ==
    ASSUME IInv, NotifyInv, [Next]_vars
    PROVE  NotifyInv'
  <1>1. row.through <= row'.through /\ row.through \in Nat /\ row'.through \in Nat
    BY DurableGrows, NextIInv DEF Grows, IInv, TypeOK, Row
  <1>2. CASE UNCHANGED vars
    BY <1>1, <1>2, SilentKeeps, IdleIsSilent DEF vars
  <1>3. ASSUME NEW p \in Procs, Begin(p) \/ Step(p) \/ Environment(p)
        PROVE  NotifyInv'
    <2>1. CASE Commit(p)
      BY <2>1, CommitAnnounces
    <2>2. CASE Install(p)
      BY <1>1, <2>2, InstallAnnounces, SilentKeeps
    <2>3. CASE Notify(p)
      BY <2>3, NotifyAnnounces
    <2>4. CASE ~Speaks(p)
      BY <1>1, <1>3, <2>4, SilentSteps, SilentKeeps
    <2>5. QED
      BY <2>1, <2>2, <2>3, <2>4 DEF Speaks
  <1>4. QED
    BY <1>2, <1>3 DEF Next

\* Consumers are told of committed events, of each at most once, and in the order of
\* the log by any one process (_persist_ordered after append).
THEOREM NotifiedOnceEach == Spec => []NotifiedOnce
  <1>1. Init => NotifyInv
    BY DEF Init, NotifyInv, NotifiedOnce, AnnounceInv, Announces
  <1>2. IInv /\ NotifyInv /\ [Next]_vars => NotifyInv'
    BY NotifyInvKeeps
  <1>3. NotifyInv => NotifiedOnce
    BY DEF NotifyInv
  <1>4. QED
    BY <1>1, <1>2, <1>3, SpecIInv, PTL DEF Spec

Bundle(i) == Effects(Prefix(log, i - 1), log[i].fact)

\* The event at i is followed by its bundle and then by a source fact.
BundleAt(i) ==
    /\ i + Len(Bundle(i)) <= Len(log)
    /\ SubSeq(log, i + 1, i + Len(Bundle(i))) = Bundle(i)
    /\ i + Len(Bundle(i)) < Len(log) => log[i + Len(Bundle(i)) + 1].kind = "source"

\* A slice of a log equals a sequence when their elements are equal.
LEMMA Slice ==
    ASSUME NEW w \in Seq(Record), NEW i \in 1 .. Len(w), NEW d \in Seq(Record),
           i + Len(d) <= Len(w)
    PROVE  SubSeq(w, i + 1, i + Len(d)) = d <=> \A k \in 1 .. Len(d) : w[i + k] = d[k]
  <1> DEFINE s == SubSeq(w, i + 1, i + Len(d))
  <1>1. Len(d) \in Nat /\ Len(w) \in Nat
    OBVIOUS
  <1>2. \A j \in i + 1 .. i + Len(d) : w[j] \in Record
    BY <1>1
  <1>3. /\ s \in Seq(Record) /\ Len(s) = Len(d)
        /\ \A k \in 1 .. Len(d) : s[k] = w[i + k]
    <2>1. /\ i + 1 \in Int /\ i + Len(d) \in Int
      BY <1>1
    <2>2. /\ s \in Seq(Record)
          /\ Len(s) = IF i + 1 <= i + Len(d) THEN i + Len(d) - (i + 1) + 1 ELSE 0
          /\ \A k \in 1 .. (i + Len(d) - (i + 1)) + 1 : s[k] = w[i + 1 + k - 1]
      BY <1>2, <2>1, SubSeqProperties
    <2>3. Len(s) = Len(d)
      BY <1>1, <2>2
    <2>4. ASSUME NEW k \in 1 .. Len(d)
          PROVE  s[k] = w[i + k]
      <3>1. k \in 1 .. (i + Len(d) - (i + 1)) + 1 /\ i + 1 + k - 1 = i + k
        BY <1>1
      <3>2. QED
        BY <2>2, <3>1
    <2>5. QED
      BY <2>2, <2>3, <2>4
  <1>4. s = d <=> \A k \in 1 .. Len(d) : s[k] = d[k]
    BY <1>3, SeqEqual
  <1>5. QED
    BY <1>3, <1>4

\* The derived facts of a position of the log are a log themselves.
LEMMA BundleType ==
    ASSUME log \in Seq(Record), NEW i \in 1 .. Len(log)
    PROVE  /\ Bundle(i) \in Seq(Record) /\ Len(Bundle(i)) \in Nat
           /\ \A k \in 1 .. Len(Bundle(i)) : Bundle(i)[k].kind = "derived"
  <1>1. log[i] \in Record /\ i - 1 \in 0 .. Len(log)
    OBVIOUS
  <1>2. log[i].fact \in Facts
    BY <1>1 DEF Record
  <1>3. Prefix(log, i - 1) \in Seq(Record)
    BY <1>1, PrefixType
  <1>4. QED
    BY <1>2, <1>3, EffectsType DEF Bundle

\* A bundle stays complete when the log grows behind it by a source fact.
LEMMA BundleStays ==
    ASSUME log \in Seq(Record), log' \in Seq(Record), Continues(log', log),
           NEW i \in 1 .. Len(log), BundleAt(i),
           i + Len(Bundle(i)) < Len(log')
             => log'[i + Len(Bundle(i)) + 1].kind = "source"
    PROVE  BundleAt(i)'
  <1>1. Bundle(i)' = Bundle(i)
    <2>1. i - 1 \in 0 .. Len(log)
      OBVIOUS
    <2>2. Prefix(log', i - 1) = Prefix(log, i - 1) /\ log'[i] = log[i]
      BY <2>1 DEF Continues
    <2>3. QED
      BY <2>2 DEF Bundle
  <1>2. /\ i + Len(Bundle(i)) <= Len(log) /\ Len(log) <= Len(log')
        /\ Bundle(i) \in Seq(Record) /\ Len(Bundle(i)) \in Nat
        /\ Len(log) \in Nat /\ Len(log') \in Nat
    BY BundleType DEF BundleAt, Continues
  <1>3. \A k \in 1 .. Len(Bundle(i)) : log[i + k] = Bundle(i)[k]
    BY <1>2, Slice DEF BundleAt
  <1>4. \A k \in 1 .. Len(Bundle(i)) : log'[i + k] = Bundle(i)[k]
    <2>1. ASSUME NEW k \in 1 .. Len(Bundle(i))
          PROVE  log'[i + k] = Bundle(i)[k]
      <3>1. i + k \in 1 .. Len(log)
        BY <1>2
      <3>2. log'[i + k] = log[i + k]
        BY <3>1 DEF Continues
      <3>3. QED
        BY <1>3, <3>2
    <2>2. QED
      BY <2>1
  <1>5. i \in 1 .. Len(log') /\ i + Len(Bundle(i)) <= Len(log')
    BY <1>2
  <1>6. SubSeq(log', i + 1, i + Len(Bundle(i))) = Bundle(i)
    BY <1>2, <1>4, <1>5, Slice
  <1>7. QED
    BY <1>1, <1>5, <1>6 DEF BundleAt

\* A complete bundle that does not reach the end of the log stays complete
\* whatever is appended.
LEMMA BundleInside ==
    ASSUME log \in Seq(Record), log' \in Seq(Record), Continues(log', log),
           NEW i \in 1 .. Len(log), BundleAt(i), i + Len(Bundle(i)) < Len(log)
    PROVE  BundleAt(i)'
  <1>1. Len(Bundle(i)) \in Nat /\ Len(log) \in Nat
    BY BundleType
  <1>2. i + Len(Bundle(i)) + 1 \in 1 .. Len(log)
    BY <1>1
  <1>3. log'[i + Len(Bundle(i)) + 1] = log[i + Len(Bundle(i)) + 1]
    BY <1>2 DEF Continues
  <1>4. QED
    BY <1>3, BundleStays DEF BundleAt

\* Neither writing transaction breaks a bundle or leaves one incomplete.
LEMMA BundlesKeep ==
    ASSUME IInv, BundlesComplete, [Next]_vars
    PROVE  BundlesComplete'
  <1>t. log \in Seq(Record) /\ log' \in Seq(Record) /\ Continues(log', log)
    BY NextIInv, DurableGrows DEF IInv, TypeOK, Grows
  <1>b. \A i \in Len(Legacy) + 1 .. Len(log) :
           log[i].kind = "source" /\ i # row.pending => BundleAt(i)
    BY DEF BundlesComplete, BundleAt, Bundle
  <1>l. Len(Legacy) \in Nat /\ Len(log) \in Nat /\ Len(log') \in Nat
    BY <1>t, LegacyAssumption
  <1> SUFFICES ASSUME NEW i \in Len(Legacy) + 1 .. Len(log'),
                      log'[i].kind = "source", i # row'.pending
               PROVE  BundleAt(i)'
    BY DEF BundlesComplete, BundleAt, Bundle
  <1>1. CASE Quiet
    <2>1. log' = log /\ BundleAt(i)
      BY <1>1, <1>b DEF Quiet
    <2>2. QED
      BY <2>1 DEF BundleAt, Bundle
  <1>2. ASSUME NEW p \in Procs, Admits(p)
        PROVE  BundleAt(i)'
    <2>1. /\ Len(log') = Len(log) + 1 /\ row'.pending = Len(log) + 1 /\ row.pending = 0
          /\ log'[Len(log) + 1] = Source(job[p])
      BY <1>2, AdmitFacts DEF Admits, AdmitSource, MayAppend
    <2>2. i \in 1 .. Len(log) /\ i \in Len(Legacy) + 1 .. Len(log)
      BY <2>1, <1>l
    <2>3. log'[i] = log[i]
      BY <2>2, <1>t DEF Continues
    <2>4. BundleAt(i)
      BY <2>1, <2>2, <2>3, <1>b
    <2>5. CASE i + Len(Bundle(i)) < Len(log)
      BY <2>2, <2>4, <2>5, <1>t, BundleInside
    <2>6. CASE i + Len(Bundle(i)) = Len(log)
      <3>1. log'[i + Len(Bundle(i)) + 1].kind = "source"
        BY <2>1, <2>6 DEF Source
      <3>2. QED
        BY <2>2, <2>4, <3>1, <1>t, BundleStays
    <2>7. Len(Bundle(i)) \in Nat /\ i + Len(Bundle(i)) <= Len(log)
      BY <2>2, <2>4, <1>t, BundleType DEF BundleAt
    <2>8. QED
      BY <2>5, <2>6, <2>7, <1>l, <2>2
  <1>3. ASSUME NEW p \in Procs, Completes(p)
        PROVE  BundleAt(i)'
    <2>1. i \in 1 .. Len(log) /\ log'[i] = log[i]
      <3>1. i \notin Len(log) + 1 .. Len(log')
        <4>1. SUFFICES ASSUME i \in Len(log) + 1 .. Len(log')
                       PROVE  FALSE
          OBVIOUS
        <4>2. i - Len(log) \in 1 .. Len(staged[p]) /\ log'[i] = staged[p][i - Len(log)]
          BY <4>1, <1>3, BundleRecords
        <4>3. log'[i].kind = "derived"
          BY <4>2, <1>3, BundleRecords
        <4>4. QED
          BY <4>3
      <3>2. i \in 1 .. Len(log)
        BY <3>1, <1>l
      <3>3. QED
        BY <3>2, <1>t DEF Continues
    <2>2. CASE i = Len(log)
      <3>1. Bundle(i) = staged[p] /\ staged[p] \in Seq(Record)
        BY <2>2, <1>3, BundleRecords DEF Bundle
      <3>2. Bundle(i)' = Bundle(i)
        <4>1. i - 1 \in 0 .. Len(log)
          BY <2>1
        <4>2. Prefix(log', i - 1) = Prefix(log, i - 1)
          BY <4>1, <1>t DEF Continues
        <4>3. QED
          BY <4>2, <2>1 DEF Bundle
      <3>3. /\ Len(log') = Len(log) + Len(staged[p]) /\ Len(staged[p]) \in Nat
            /\ \A j \in Len(log) + 1 .. Len(log') : log'[j] = staged[p][j - Len(log)]
        BY <1>3, <3>1, BundleRecords
      <3>4. \A k \in 1 .. Len(staged[p]) : log'[i + k] = staged[p][k]
        <4>1. ASSUME NEW k \in 1 .. Len(staged[p])
              PROVE  log'[i + k] = staged[p][k]
          <5>1. i + k \in Len(log) + 1 .. Len(log') /\ (i + k) - Len(log) = k
            BY <2>2, <3>3, <1>l
          <5>2. QED
            BY <3>3, <5>1
        <4>2. QED
          BY <4>1
      <3>5. i \in 1 .. Len(log') /\ i + Len(staged[p]) <= Len(log')
        BY <2>1, <2>2, <3>3, <1>l
      <3>6. SubSeq(log', i + 1, i + Len(staged[p])) = staged[p]
        BY <3>1, <3>4, <3>5, <1>t, Slice
      <3>7. QED
        BY <3>1, <3>2, <3>3, <3>5, <3>6, <2>2 DEF BundleAt
    <2>3. CASE i # Len(log)
      <3>1. BundleAt(i)
        <4>1. row.pending = Len(log)
          BY <1>3, BundleRecords
        <4>2. i \in Len(Legacy) + 1 .. Len(log)
          BY <2>1, <1>l
        <4>3. QED
          BY <4>1, <4>2, <2>1, <2>3, <1>b
      <3>2. Len(Bundle(i)) \in Nat /\ i + Len(Bundle(i)) <= Len(log)
        BY <2>1, <3>1, <1>t, BundleType DEF BundleAt
      <3>3. i + Len(Bundle(i)) # Len(log)
        <4>1. SUFFICES ASSUME i + Len(Bundle(i)) = Len(log)
                       PROVE  FALSE
          OBVIOUS
        <4>2. Len(log) - i \in 1 .. Len(Bundle(i)) /\ i + (Len(log) - i) = Len(log)
          BY <4>1, <3>2, <2>1, <2>3, <1>l
        <4>3. \A k \in 1 .. Len(Bundle(i)) : log[i + k] = Bundle(i)[k]
          BY <2>1, <3>1, <3>2, <1>t, BundleType, Slice DEF BundleAt
        <4>4. log[Len(log)] = Bundle(i)[Len(log) - i]
          BY <4>2, <4>3
        <4>5. log[Len(log)].kind = "derived"
          BY <4>2, <4>4, <2>1, <1>t, BundleType
        <4>6. QED
          BY <4>5, <1>3, BundleRecords
      <3>4. i + Len(Bundle(i)) < Len(log)
        <4>1. i + Len(Bundle(i)) \in Nat
          BY <3>2, <2>1, <1>l
        <4>2. QED
          BY <4>1, <3>2, <3>3, <1>l
      <3>5. QED
        BY <3>1, <3>4, <2>1, <1>t, BundleInside
    <2>4. QED
      BY <2>2, <2>3
  <1>4. QED
    BY <1>1, <1>2, <1>3, DurableStep

\* No crash, lost response or takeover loses, repeats or misplaces a derived
\* fact: each completed source is followed by exactly the facts the detectors
\* derive from the log in front of it (commit_projection, restore_session).
THEOREM BundlesAreComplete == Spec => []BundlesComplete
  <1>1. Init => BundlesComplete
    BY LegacyAssumption DEF Init, BundlesComplete
  <1>2. IInv /\ BundlesComplete /\ [Next]_vars => BundlesComplete'
    BY BundlesKeep
  <1>3. QED
    BY <1>1, <1>2, SpecIInv, PTL DEF Spec

\* The durable steps are the steps of ProjectionLog.
LEMMA StepRefines ==
    ASSUME IInv, [Next]_vars
    PROVE  [Promise!Next]_<<log, IF row.known THEN row.through ELSE Len(log)>>
  <1> DEFINE through == IF row.known THEN row.through ELSE Len(log)
  <1>t. log \in Seq(Record)
    BY DEF IInv, TypeOK
  <1>1. CASE Quiet
    <2>1. CASE row.known \/ row'.known
      BY <1>1, <2>1 DEF Quiet
    <2>2. CASE ~row.known /\ ~row'.known
      BY <1>1, <2>2 DEF Quiet
    <2>3. QED
      BY <2>1, <2>2
  <1>2. ASSUME NEW p \in Procs, Admits(p)
        PROVE  Promise!Admit
    <2>1. /\ row.known /\ row'.known /\ row.through = Len(log) /\ row'.through = Len(log)
          /\ job[p] \in Facts /\ job[p] \notin FactsIn(log)
          /\ log' = Append(log, Source(job[p]))
      BY <1>2, AdmitFacts DEF Admits, AdmitSource
    <2>2. \E f \in Facts \ FactsIn(log) : log' = Append(log, Source(f))
      BY <2>1
    <2>3. QED
      BY <2>1, <2>2 DEF Promise!Admit
  <1>3. ASSUME NEW p \in Procs, Completes(p)
        PROVE  Promise!Complete
    <2>1. /\ row'.known /\ row'.through = Len(log') /\ row.known
      <3>1. ready[p] = AnchorOf(row)
        BY <1>3 DEF Completes, CompleteSource, MayCommit
      <3>2. QED
        BY <1>3, <3>1, AnchoredIsKnown, CompleteFacts DEF Completes
    <2>2. /\ Len(log) = row.through + 1 /\ Len(log) - 1 = row.through
          /\ log' = log \o Effects(Prefix(log, row.through), log[Len(log)].fact)
      <3>1. row.through \in Nat /\ Len(log) = row.through + 1
        BY <1>3, BundleRecords DEF IInv, TypeOK, Row
      <3>2. Len(log) - 1 = row.through
        BY <3>1
      <3>3. QED
        BY <1>3, <3>1, <3>2, BundleRecords
    <2>3. QED
      BY <2>1, <2>2 DEF Promise!Complete, Prefix
  <1>4. QED
    BY <1>1, <1>2, <1>3, DurableStep DEF Promise!Next

\* All processes together, whatever fails, implement the log that grows one
\* complete bundle at a time.
THEOREM Refinement == Spec => ImplementsProjectionLog
  <1>1. Init => Promise!Init
    BY DEF Init, Promise!Init, NoRow
  <1>2. IInv /\ [Next]_vars =>
          [Promise!Next]_<<log, IF row.known THEN row.through ELSE Len(log)>>
    BY StepRefines
  <1>3. QED
    BY <1>1, <1>2, SpecIInv, PTL DEF Spec, ImplementsProjectionLog, Promise!Spec

\* What process p is about to expose reaches at least as far as what it shows.
PublicLags(p) ==
    /\ pc[p] \in {"restoring", "exposing"} => Len(public[p]) <= progress[p].through
    /\ pc[p] = "installing" => Len(public[p]) <= target[p] + Len(staged[p])

\* The variables PublicLags speaks of, seen by process q, do not change.
Unmoved(q) ==
    /\ pc'[q] = pc[q] /\ public'[q] = public[q] /\ progress'[q] = progress[q]
    /\ target'[q] = target[q] /\ staged'[q] = staged[q]

\* Who changes what process q is about to expose.
LEMMA Moves ==
    ASSUME TypeOK, NEW q \in Procs, [Next]_vars
    PROVE  \/ Unmoved(q) \/ Load(q) \/ Restore(q) \/ Commit(q)
           \/ pc'[q] \notin {"restoring", "exposing", "installing"}
  <1>1. CASE UNCHANGED vars
    BY <1>1 DEF vars, Unmoved
  <1>2. ASSUME NEW p \in Procs, Begin(p)
        PROVE  Unmoved(q) \/ pc'[q] \notin {"restoring", "exposing", "installing"}
    BY <1>2 DEF TypeOK, Begin, Goto, Unmoved, memory, locals
  <1>3. ASSUME NEW p \in Procs, Step(p), p # q
        PROVE  Unmoved(q)
    BY <1>3
       DEF TypeOK, Step, Load, LoadRefused, Restore, Expose, CheckPending, Take, Finish,
           AppendNew, AppendExisting, AppendRefused, Reduce, Commit, CommitRefused, Install,
           RecordFailure, Notify, Mark, Leave, Forget, Goto, Unmoved, memory, locals
  <1>4. ASSUME Step(q)
        PROVE  \/ Load(q) \/ Restore(q) \/ Commit(q)
               \/ pc'[q] \notin {"restoring", "exposing", "installing"}
    BY <1>4
       DEF TypeOK, Step, LoadRefused, Expose, CheckPending, Take, Finish,
           AppendNew, AppendExisting, AppendRefused, Reduce, CommitRefused, Install,
           RecordFailure, Notify, Mark, Leave, Forget, Goto
  <1>5. ASSUME NEW p \in Procs, Environment(p)
        PROVE  Unmoved(q) \/ pc'[q] \notin {"restoring", "exposing", "installing"}
    BY <1>5
       DEF TypeOK, Environment, AcquireLease, LoseSocket, Evict, AppendLost, CommitLost,
           Interrupt, InterruptProjection, Crash, Leave, Forget, Goto, Unmoved, memory, locals
  <1>6. QED
    BY <1>1, <1>2, <1>3, <1>4, <1>5 DEF Next

\* Only Expose and Install put something new on show.
LEMMA Shows ==
    ASSUME TypeOK, NEW q \in Procs, [Next]_vars
    PROVE  public'[q] = public[q] \/ public'[q] = <<>> \/ Expose(q) \/ Install(q)
  <1>1. CASE UNCHANGED vars
    BY <1>1 DEF vars
  <1>2. ASSUME NEW p \in Procs, Begin(p)
        PROVE  public' = public
    BY <1>2 DEF Begin, memory
  <1>3. ASSUME NEW p \in Procs, Step(p)
        PROVE  public' = public \/ Expose(p) \/ Install(p)
    BY <1>3
       DEF Step, Load, LoadRefused, Restore, CheckPending, Take, Finish,
           AppendNew, AppendExisting, AppendRefused, Reduce, Commit, CommitRefused,
           RecordFailure, Notify, Mark, memory
  <1>4. ASSUME NEW p \in Procs, p # q, Expose(p) \/ Install(p)
        PROVE  public'[q] = public[q]
    BY <1>4 DEF TypeOK, Expose, Install
  <1>5. ASSUME NEW p \in Procs, Environment(p)
        PROVE  public'[q] = public[q] \/ public'[q] = <<>>
    BY <1>5
       DEF TypeOK, Environment, AcquireLease, LoseSocket, Evict, AppendLost, CommitLost,
           Interrupt, InterruptProjection, Crash, memory
  <1>6. QED
    BY <1>1, <1>2, <1>3, <1>4, <1>5 DEF Next

\* The row that was read, or the bundle that was committed, lies ahead of it.
LEMMA PublicLagsKeeps ==
    ASSUME IInv, [Next]_vars, NEW q \in Procs, PublicLags(q)
    PROVE  PublicLags(q)'
  <1>t. TypeOK /\ PublicInv(q) /\ Grows /\ row \in Row /\ row' \in Row
    BY DurableGrows, NextIInv DEF IInv, Local, TypeOK
  <1>l. Len(public[q]) \in Nat /\ row.through \in Nat /\ row'.through \in Nat
    BY <1>t DEF TypeOK, Row
  <1>1. CASE Unmoved(q)
    BY <1>1 DEF Unmoved, PublicLags
  <1>2. CASE Load(q)
    <2>1. progress'[q] = row' /\ public' = public
      BY <1>2, <1>t DEF Load, TypeOK, memory
    <2>2. Len(public[q]) <= row'.through
      BY <1>t, <1>l DEF PublicInv, Grows
    <2>3. pc'[q] # "installing"
      BY <1>2, <1>t DEF Load, Goto, TypeOK
    <2>4. QED
      BY <2>1, <2>2, <2>3 DEF PublicLags
  <1>3. CASE Restore(q)
    BY <1>3, <1>t DEF Restore, Goto, TypeOK, PublicLags, locals
  <1>4. CASE Commit(q)
    <2>1. /\ target[q] = row.through + 1 /\ target[q] \in Nat /\ Len(staged[q]) \in Nat
      BY <1>4, <1>t, CompleteFacts DEF Commit, TypeOK
    <2>2. Len(public[q]) <= target[q] + Len(staged[q])
      BY <2>1, <1>t, <1>l DEF PublicInv
    <2>3. /\ pc'[q] = "installing" /\ public' = public /\ target' = target /\ staged' = staged
      BY <1>4, <1>t DEF Commit, Goto, TypeOK, memory, locals
    <2>4. QED
      BY <2>2, <2>3 DEF PublicLags
  <1>5. CASE pc'[q] \notin {"restoring", "exposing", "installing"}
    BY <1>5 DEF PublicLags
  <1>6. QED
    BY <1>1, <1>2, <1>3, <1>4, <1>5, <1>t, Moves

\* What is shown next is at least as long.
LEMMA ShowsMore ==
    ASSUME IInv, [Next]_vars, NEW q \in Procs, PublicLags(q), public'[q] # <<>>
    PROVE  Len(public'[q]) >= Len(public[q])
  <1>s. TypeOK /\ Local(q) /\ row.through \in 0 .. Len(log)
    BY ThroughInLog DEF IInv, Shape
  <1>t. TypeOK /\ Local(q) /\ row.through \in 0 .. Len(log) /\ Len(public[q]) \in Nat
    BY <1>s DEF TypeOK
  <1>1. CASE public'[q] = public[q]
    BY <1>1, <1>t
  <1>2. CASE Expose(q)
    <2>1. /\ public'[q] = working[q] /\ pc[q] = "exposing"
          /\ working[q] = Prefix(log, progress[q].through)
          /\ progress[q].through \in 0 .. Len(log)
      BY <1>2, <1>t DEF Expose, TypeOK, Local, EngineInv, ProgressInv, Lags, AnchorOf, Row
    <2>2. Len(working[q]) = progress[q].through
      BY <2>1, <1>t, PrefixType DEF TypeOK
    <2>3. QED
      BY <2>1, <2>2, <1>t DEF PublicLags
  <1>3. CASE Install(q)
    <2>1. /\ public'[q] = working[q] /\ pc[q] = "installing"
          /\ working[q] = Prefix(log, target[q] + Len(staged[q]))
          /\ target[q] + Len(staged[q]) \in 0 .. Len(log)
      BY <1>3, <1>t DEF Install, TypeOK, Local, EngineInv, BundleInv, Lags
    <2>2. Len(working[q]) = target[q] + Len(staged[q])
      BY <2>1, <1>t, PrefixType DEF TypeOK
    <2>3. QED
      BY <2>1, <2>2, <1>t DEF PublicLags
  <1>4. QED
    BY <1>1, <1>2, <1>3, <1>t, Shows

\* Within the life of a process its public state never goes back, although its
\* engine is thrown away and rebuilt (initialize_session, _project).
THEOREM PublicNeverGoesBack == Spec => PublicAdvances
  <1> DEFINE Ahead == \A q \in Procs : PublicLags(q)
  <1>1. Init => Ahead
    BY DEF Init, PublicLags
  <1>2. IInv /\ Ahead /\ [Next]_vars => Ahead'
    BY PublicLagsKeeps
  <1>3. ASSUME IInv, Ahead, [Next]_vars
        PROVE  [\A p \in Procs : public'[p] # <<>> => Len(public'[p]) >= Len(public[p])]_vars
    BY <1>3, ShowsMore
  <1>4. QED
    BY <1>1, <1>2, <1>3, SpecIInv, PTL DEF Spec, PublicAdvances

\* The log is sound: the progress row accounts for all of it, no fact enters it
\* twice, and what was derived stands behind its source (append_source,
\* commit_projection).
THEOREM LogIsSound == Spec => []LogSound
  BY TypeCorrect, RowAccounts, FactsOnce, BundlesAreComplete, PTL DEF LogSound

\* The engines are exact: shown is durable, private is where its anchor says, and a
\* failure is that of a pending fact (initialize_session, _project, record_failure).
THEOREM EnginesAreExact == Spec => []EnginesExact
  BY PublicDurable, PrivateExact, FailurePending, PTL DEF EnginesExact

\* Every delivery is accounted for, in the raw table and at the consumers
\* (_persist_ordered after append).
THEOREM DeliveredOnceEach == Spec => []DeliveredOnce
  BY RawRetiredLate, NotifiedOnceEach, PTL DEF DeliveredOnce
=============================================================================
