-------------------------- MODULE OvertakeDetection --------------------------
(***************************************************************************)
(* From position samples to overtakes, for one race session:               *)
(* PositionTracker confirms an order when the observed positions are       *)
(* coherent, OvertakeDetector keeps a candidate per pair of cars, and      *)
(* RaceIntelligenceCoordinator keeps, per passing car, the change that     *)
(* later samples advance.  A sample carries one car's position, so two     *)
(* cars that swap are level until the second one reports.                  *)
(***************************************************************************)
EXTENDS Integers, FiniteSets, FiniteSetsExt, SequencesExt

CONSTANTS
    Drivers,
    Grid,       \* driver -> first position
    Order,      \* driver -> its place in the tracker's dict, the order of the first samples
    Confirm,    \* overtake_confirmation_seconds
    Samples,    \* overtake_confirmation_samples
    Positions,  \* that a sample can say
    Aside       \* cars whose circumstances change: a bound

None == [kind |-> "none"]

VARIABLES
    pos,        \* position in the race state: the last sample's
    confirmed,  \* PositionState.confirmed_position
    cand,       \* pair -> candidate: [kind, driver, samples, age], or None
    pending,    \* driver -> the car it passed, or None
    excluded,   \* cars in the pits or in a stop's window, stopped, lapped or penalised
    far,        \* cars whose interval is unknown or above overtake_max_interval_seconds
    blocked,    \* racing_inference_blocked
    emitted,    \* overtakes of the last step: <<passing, passed, age>>
    lead,       \* history: <<a, b>> -> for how long a has been ahead of b, capped
    told        \* history: overtakes emitted since b was ahead of a or level

vars == <<pos, confirmed, cand, pending, excluded, far, blocked, emitted, lead, told>>

Pairs == kSubset(2, Drivers)
Ordered == {<<a, b>> \in Drivers \X Drivers : a # b}

\* Every car has reported, and the order is coherent
Init ==
    /\ pos = Grid /\ confirmed = Grid
    /\ cand = [p \in Pairs |-> None]
    /\ pending = [d \in Drivers |-> None]
    /\ excluded = {} /\ far = {} /\ blocked = FALSE
    /\ emitted = {}
    /\ lead = [o \in Ordered |-> IF pos[o[1]] < pos[o[2]] THEN Confirm ELSE -1]
    /\ told = {}

-----------------------------------------------------------------------------
(* The detector *)

\* The context: the passing car is still ahead
OrderingPersisted(a, b, q) == q[a] < q[b]

\* What rules an overtake of b by a out, at positions q
Rejected(a, b, q) ==
    \/ {a, b} \cap excluded # {}
    \/ a \in far
    \/ ~OrderingPersisted(a, b, q)

\* Mutant: a candidate outlives its confirmation
ApplyKept(c, a, b, candidate, q, again) ==
    LET p == {a, b}
        old == c[p]
        next == [old EXCEPT !.samples = @ + 1]
        isNew == old.kind = "none" \/ old.driver # a
    IN  IF ~candidate \/ Rejected(a, b, q)
        THEN [cand |-> [c EXCEPT ![p] = None], told |-> FALSE]
        ELSE IF isNew
        THEN [cand |-> [c EXCEPT ![p] = [kind |-> "candidate", driver |-> a, samples |-> 1, age |-> 0]],
              told |-> FALSE]
        ELSE IF again THEN [cand |-> c, told |-> FALSE]
        ELSE IF next.samples < Samples \/ next.age < Confirm
        THEN [cand |-> [c EXCEPT ![p] = [next EXCEPT !.samples = IF @ > Samples THEN Samples ELSE @]],
              told |-> FALSE]
        ELSE [cand |-> c, told |-> TRUE]

\* OvertakeDetector.apply for a change of a over b, seen with positions q: the
\* candidates afterwards, and whether the overtake is confirmed.  A candidate
\* that was advanced by this very sample is not advanced twice.
Apply(c, a, b, candidate, q, again) ==
    LET p == {a, b}
        old == c[p]
        next == [old EXCEPT !.samples = @ + 1]
        isNew == old.kind = "none" \/ old.driver # a
    IN  IF ~candidate \/ Rejected(a, b, q)
        THEN [cand |-> [c EXCEPT ![p] = None], told |-> FALSE]
        ELSE IF isNew
        THEN [cand |-> [c EXCEPT ![p] = [kind |-> "candidate", driver |-> a, samples |-> 1, age |-> 0]],
              told |-> FALSE]
        ELSE IF again THEN [cand |-> c, told |-> FALSE]
        ELSE IF next.samples < Samples \/ next.age < Confirm
        THEN [cand |-> [c EXCEPT ![p] = [next EXCEPT !.samples = IF @ > Samples THEN Samples ELSE @]],
              told |-> FALSE]
        ELSE [cand |-> [c EXCEPT ![p] = None], told |-> TRUE]

-----------------------------------------------------------------------------
(* The tracker *)

\* No two cars are level, and at least two have moved: the moves are confirmed
Changed(q) ==
    LET moved == {d \in Drivers : q[d] # confirmed[d]}
    IN  IF Cardinality({q[d] : d \in Drivers}) = Cardinality(Drivers) /\ Cardinality(moved) >= 2
        THEN moved ELSE {}

\* ON_TRACK_CANDIDATE: two cars swapped, and nothing explains it
OnTrack(moved, q) ==
    /\ Cardinality(moved) = 2
    /\ {confirmed[d] : d \in moved} = {q[d] : d \in moved}
    /\ moved \cap excluded = {}

\* related_driver_numbers[0]: the first other car that moved
Related(a, moved) == CHOOSE b \in moved \ {a} : \A x \in moved \ {a} : Order[b] <= Order[x]

\* overtakes.apply for each car that gained, the first of the new order first
Gains(s, moved, q, advanced) ==
    LET Gain(t, a) ==
            LET b == Related(a, moved)
                r == Apply(t.cand, a, b, OnTrack(moved, q), q, {a, b} \in advanced)
            IN  [cand |-> r.cand,
                 pending |-> [t.pending EXCEPT ![a] = IF r.cand[{a, b}] # None THEN b ELSE None],
                 emitted |-> t.emitted \cup IF r.told THEN {<<a, b>>} ELSE {}]
    IN  FoldLeft(Gain, s, SetToSortSeq({a \in moved : q[a] < confirmed[a]}, LAMBDA x, y : q[x] < q[y]))

-----------------------------------------------------------------------------
(* The coordinator *)

\* _advance_overtakes: the pending changes that the sample's car takes part in;
\* the pairs are distinct
Advance(s, due, q) ==
    LET One(a, t) ==
            LET b == t.pending[a]
                r == Apply(t.cand, a, b, TRUE, q, FALSE)
            IN  [cand |-> r.cand,
                 pending |-> [t.pending EXCEPT ![a] = IF r.told \/ r.cand[{a, b}] = None THEN None ELSE b],
                 emitted |-> t.emitted \cup IF r.told THEN {<<a, b>>} ELSE {}]
    IN  FoldSet(One, s, due)

Concerns(a, d) == pending[a] # None /\ d \in {a, pending[a]}

\* A position sample of car d
Sample(d, n) ==
    LET q == [pos EXCEPT ![d] = n]
        s0 == [cand |-> cand, pending |-> pending, emitted |-> {}]
        due == {a \in Drivers : Concerns(a, d)}
        s1 == IF blocked THEN s0 ELSE Advance(s0, due, q)
        moved == Changed(q)
        s2 == IF blocked THEN s1
              ELSE Gains(s1, moved, q, {{a, pending[a]} : a \in due})
    IN  /\ pos' = q
        /\ confirmed' = [x \in Drivers |-> IF x \in moved THEN q[x] ELSE confirmed[x]]
        /\ cand' = s2.cand /\ pending' = s2.pending /\ emitted' = s2.emitted
        /\ lead' = [o \in Ordered |-> IF q[o[1]] < q[o[2]]
                                      THEN IF lead[o] = -1 THEN 0 ELSE lead[o] ELSE -1]
        /\ told' = {o \in told \cup emitted' : q[o[1]] < q[o[2]]}
        /\ UNCHANGED <<excluded, far, blocked>>

-----------------------------------------------------------------------------
Older(x) == IF x = -1 \/ x = Confirm THEN x ELSE x + 1

\* Time between two samples
Tick ==
    /\ cand' = [p \in Pairs |-> IF cand[p].kind = "none" THEN None
                                ELSE [cand[p] EXCEPT !.age = Older(@)]]
    /\ lead' = [o \in Ordered |-> Older(lead[o])]
    /\ emitted' = {}
    /\ UNCHANGED <<pos, confirmed, pending, excluded, far, blocked, told>>

\* Interval samples, pit and status events
Exclude(d) ==
    /\ \/ excluded' = (excluded \ {d}) \cup ({d} \ excluded) /\ UNCHANGED far
       \/ far' = (far \ {d}) \cup ({d} \ far) /\ UNCHANGED excluded
    /\ emitted' = {}
    /\ UNCHANGED <<pos, confirmed, cand, pending, blocked, lead, told>>

\* A safety car, a red flag or the end: every candidate is dropped
Neutralise ==
    /\ blocked' = ~blocked
    /\ cand' = IF blocked THEN cand ELSE [p \in Pairs |-> None]
    /\ pending' = IF blocked THEN pending ELSE [d \in Drivers |-> None]
    /\ emitted' = {}
    /\ lead' = [o \in Ordered |-> IF lead[o] = -1 THEN -1 ELSE 0]
    /\ UNCHANGED <<pos, confirmed, excluded, far, told>>

Next ==
    \/ Tick \/ Neutralise
    \/ \E d \in Aside : Exclude(d)
    \/ \E d \in Drivers, n \in Positions : Sample(d, n)

Spec == Init /\ [][Next]_vars

-----------------------------------------------------------------------------
TypeOK ==
    /\ pos \in [Drivers -> Positions] /\ confirmed \in [Drivers -> Positions]
    /\ \A p \in Pairs : cand[p] = None \/ (cand[p].driver \in p /\ cand[p].samples \in 1 .. Samples)
    /\ \A d \in Drivers : pending[d] = None \/ pending[d] \in Drivers \ {d}
    /\ blocked => \A p \in Pairs : cand[p] = None

\* An overtake is told only when the passing car was seen ahead without a break,
\* under green, for as long as the confirmation takes.
ConfirmedHeld == \A o \in emitted : lead[o] = Confirm

\* One overtake is told once: a second one takes the other car back ahead first.
NoneRepeated == \A o \in emitted' : o \notin told

\* A change that waits for its samples is one the detector still weighs.
PendingWeighed == \A d \in Drivers : pending[d] # None => cand[{d, pending[d]}] # None
=============================================================================
