------------------------- MODULE StrategyTransitions -------------------------
(***************************************************************************)
(* The admission of strategy situations: services/strategy_intelligence.py *)
(* turns the situations that each source supports into a frame to show and *)
(* into transitions (opened, revised, withdrawn) to tell.  A key stands    *)
(* for a kind of situation and its participants; keys are numbered in the  *)
(* order in which the candidates are built.  What a situation says is its  *)
(* signature.  Identities are the data their uuid5 is computed from.       *)
(*                                                                         *)
(* Bounds: MaxSources sources, MaxTime ticks, MaxRestores reconstructions. *)
(***************************************************************************)
EXTENDS Naturals, FiniteSets, Sequences

CONSTANTS NKeys,        \* number of (kind, participants) keys
          Signatures,   \* what a situation may say
          None,
          Cooldown,     \* the 60 seconds between two tellings, in ticks
          MaxRecords,   \* the 2048 emission records
          MaxShown,     \* the 16 situations of a frame
          Oversize,     \* may a transition exceed its byte or evidence budget?
          MaxSources, MaxTime, MaxRestores

StrategyAssumption ==
    /\ {NKeys, Cooldown, MaxRecords, MaxShown, MaxSources} \subseteq Nat \ {0}
    /\ {MaxTime, MaxRestores} \subseteq Nat
    /\ Oversize \in BOOLEAN

SituationKeys == 1 .. NKeys

VARIABLES sequence,   \* session.sequence: the last source that was advanced
          now,        \* context.analysis_time, the latest time of a source
          emissions,  \* session.emissions
          active,     \* session.active: the keys of the last source
          frame,      \* the situations of the last frame
          told,       \* every transition given out, with when it was
          inputs,     \* the durable sources a reconstruction reads again
          restores

vars == <<sequence, now, emissions, active, frame, told, inputs, restores>>

(* A source: the situations its facts support, the keys whose transition   *)
(* does not validate (byte and evidence budgets), whether it deletes a lap,*)
(* and the clock it leaves (a longer silence is as long as the cooldown).  *)
Sources ==
    UNION {[says : [S -> Signatures],
            heavy : IF Oversize THEN SUBSET S ELSE {{}},
            deletes : BOOLEAN,
            at : {t \in now .. MaxTime : t <= now + Cooldown}] : S \in SUBSET SituationKeys}

Fresh(n) == [anchor |-> n, last |-> None, signature |-> None, emitted |-> None]

Init == /\ sequence = 0
        /\ now = 0
        /\ emissions = << >>
        /\ active = {}
        /\ frame = {}
        /\ told = {}
        /\ inputs = << >>
        /\ restores = 0

-----------------------------------------------------------------------------
(* The record a candidate is judged by: a new one, or the old one with a   *)
(* new anchor when the key was not active at the last source.              *)
Record(k, n) ==
    IF k \notin DOMAIN emissions THEN Fresh(n)
    ELSE IF k \in active THEN emissions[k]
    ELSE [emissions[k] EXCEPT !.anchor = n]

(* New keys are recorded while there is room, in the order of the keys.    *)
Recorded(says) ==
    LET new == DOMAIN says \ DOMAIN emissions
        room(k) == Cardinality(DOMAIN emissions)
                     + Cardinality({j \in new : j < k}) < MaxRecords
    IN  (DOMAIN emissions \cap DOMAIN says) \cup {k \in new : room(k)}

Changed(r, sig) == sig # r.signature \/ r.emitted = None

Situation(k, n, r, sig) ==
    [key |-> k, situation |-> <<k, r.anchor>>, status |-> "active",
     revision |-> IF Changed(r, sig) THEN <<<<k, r.anchor>>, n, sig>>
                  ELSE r.emitted.revision]

Tells(r, sig, t) ==
    /\ sig # r.signature
    /\ r.last = None \/ t - r.last >= Cooldown

Transition(item, kind, old, n, t) ==
    [item |-> item, kind |-> kind, at |-> t, source |-> n,
     supersedes |-> IF old = None THEN None ELSE old.revision]

(* The keys a deletion takes back: shown by the last source, no longer     *)
(* supported, told and not yet withdrawn.                                  *)
Withdrawn(s) ==
    {k \in (active \ DOMAIN s.says) \cap DOMAIN emissions :
        /\ s.deletes
        /\ emissions[k].emitted # None
        /\ emissions[k].emitted.status # "withdrawn"}

TakenBack(old, n) ==
    [old EXCEPT !.status = "withdrawn",
                !.revision = <<old.situation, n, "withdrawn">>]

(* Mutant: the record is not told that its situation was withdrawn.        *)
RevokedOutside(r, n) == [r EXCEPT !.signature = None]

(* The record of a withdrawn situation: its last telling still counts.     *)
Revoked(r, n) ==
    [r EXCEPT !.emitted = TakenBack(@, n), !.signature = None]

(* The frame keeps withdrawn situations first, then by key, while they fit.*)
Fitting(items) ==
    LET before(i, j) == \/ i.status # j.status /\ i.status = "withdrawn"
                        \/ i.status = j.status /\ i.key < j.key
    IN  {i \in items : Cardinality({j \in items : before(j, i)}) < MaxShown}

Consume(s, n) ==
    LET t == s.at
        rec(k) == Record(k, n)
        item(k) == Situation(k, n, rec(k), s.says[k])
        tells == {k \in DOMAIN s.says \ s.heavy : Tells(rec(k), s.says[k], t)}
        kind(k) == IF rec(k).emitted = None THEN "opened" ELSE "revised"
        after(k) == IF k \in tells
                    THEN [rec(k) EXCEPT !.last = t, !.signature = s.says[k],
                                        !.emitted = item(k)]
                    ELSE rec(k)
        gone == Withdrawn(s)
        stale(k) == /\ emissions[k].last # None
                    /\ t - emissions[k].last >= Cooldown
        kept == {k \in DOMAIN emissions \ DOMAIN s.says : ~stale(k)}
    IN  /\ emissions' = [k \in Recorded(s.says) \cup kept |->
                           IF k \in DOMAIN s.says THEN after(k)
                           ELSE IF k \in gone THEN Revoked(emissions[k], n) ELSE emissions[k]]
        /\ told' = told
             \cup {Transition(item(k), kind(k), rec(k).emitted, n, t) : k \in tells}
             \cup {Transition(TakenBack(emissions[k].emitted, n), "withdrawn",
                              emissions[k].emitted, n, t) : k \in gone}
        /\ frame' = Fitting({item(k) : k \in DOMAIN s.says}
                       \cup {TakenBack(emissions[k].emitted, n) : k \in gone})
        /\ active' = DOMAIN s.says
        /\ sequence' = n
        /\ now' = t

(* advance on a source the session has not seen.                           *)
AdvanceNew ==
    /\ sequence = Len(inputs)
    /\ sequence < MaxSources
    /\ \E s \in Sources :
         /\ inputs' = Append(inputs, s)
         /\ Consume(s, sequence + 1)
    /\ UNCHANGED restores

(* advance on a source the session has seen: an empty frame, no record.    *)
AdvanceSeen ==
    /\ sequence > 0
    /\ frame' = {}
    /\ UNCHANGED <<sequence, now, emissions, active, told, inputs, restores>>

(* reset_session, before the durable sources are advanced again.           *)
ResetSession ==
    /\ sequence = Len(inputs) /\ sequence > 0
    /\ restores < MaxRestores
    /\ restores' = restores + 1
    /\ emissions' = << >>
    /\ active' = {}
    /\ frame' = {}
    /\ sequence' = 0
    /\ now' = 0
    /\ UNCHANGED <<told, inputs>>

AdvanceAgain ==
    /\ sequence < Len(inputs)
    /\ Consume(inputs[sequence + 1], sequence + 1)
    /\ UNCHANGED <<inputs, restores>>

Next == AdvanceNew \/ AdvanceSeen \/ ResetSession \/ AdvanceAgain

Spec == Init /\ [][Next]_vars

-----------------------------------------------------------------------------
(* Types: a record's told situation is of its key, and there are never more*)
(* records than the budget (strategy_intelligence.py, the 2048 check).     *)
TypeOK ==
    /\ sequence \in 0 .. MaxSources /\ now \in 0 .. MaxTime
    /\ sequence <= Len(inputs)
    /\ DOMAIN emissions \subseteq SituationKeys /\ active \subseteq SituationKeys
    /\ Cardinality(DOMAIN emissions) <= MaxRecords
    /\ Cardinality(frame) <= MaxShown
    /\ \A k \in DOMAIN emissions :
         /\ emissions[k].anchor \in 1 .. sequence
         /\ emissions[k].emitted # None => emissions[k].emitted.key = k

(* Every row a transition becomes has dedup_key "strategy:" + revision id  *)
(* (strategy_events.py): two different transitions with one revision would *)
(* lose the second one.  A reconstruction, which advances the same sources *)
(* through a reset session, gives the revisions the live pass gave.        *)
RevisionsAreOne ==
    \A a, b \in told : a.item.revision = b.item.revision => a = b

(* A revision is superseded at most once, and only by a later transition   *)
(* of the same key: what an agent said forms one chain.                    *)
ChainIsLinear ==
    \A a \in told : a.supersedes # None =>
        /\ \E b \in told : /\ b.item.revision = a.supersedes
                           /\ b.item.key = a.item.key
                           /\ b.source < a.source
        /\ \A b \in told : b.supersedes = a.supersedes => b = a

(* A key with a record is told again only after the cooldown, a withdrawal *)
(* aside: the cooldown survives a gap, a new anchor and a withdrawal.      *)
Throttled ==
    \A a, b \in told :
        (/\ a.item.key = b.item.key
         /\ a.source < b.source
         /\ "withdrawn" \notin {a.kind, b.kind}) => b.at - a.at >= Cooldown

(* What the frame shows as withdrawn had been told, was shown by the       *)
(* source before, and is taken back once.                                  *)
WithdrawnWasTold ==
    \A a \in told : a.kind = "withdrawn" =>
        /\ \E b \in told : /\ b.item.revision = a.supersedes
                           /\ b.kind # "withdrawn"
                           /\ b.item.situation = a.item.situation
        /\ a.item.key \in DOMAIN inputs[a.source - 1].says
        /\ a.item.key \notin DOMAIN inputs[a.source].says

(* A situation shown under a revision that was told says what was told.    *)
ShownAsTold ==
    \A i \in frame : \A a \in told :
        (i.revision = a.item.revision /\ i.status = "active")
            => a.kind # "withdrawn" /\ inputs[a.source].says[i.key]
                                         = inputs[sequence].says[i.key]

(* A claim finds the revision that decides it by the situation's identity  *)
(* (claim_reasoning.py, closes): a revision carries the identity of the    *)
(* situation whose revision it supersedes.                                 *)
RevisionFindsClaim ==
    \A a, b \in told :
        (/\ a.kind = "revised" /\ a.supersedes = b.item.revision
         /\ b.kind # "withdrawn") => a.item.situation = b.item.situation
=============================================================================
