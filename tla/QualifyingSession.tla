-------------------------- MODULE QualifyingSession -------------------------
(***************************************************************************)
(* What a qualifying session tells of itself                               *)
(* (services/qualifying_intelligence.py, with the phase and the best laps  *)
(* that the reducer keeps in services/race_state.py).                      *)
(*                                                                         *)
(* Every source fact is reduced first and then handed to the engine, which *)
(* compares it with what it has seen: positions against the cutoff of the  *)
(* phase, laps against the bests.  At the end of each step the bests are   *)
(* taken over from the reducer, which withholds those of a driver whose    *)
(* lap history is incomplete.  The rule of ELIMINATION_RISK needs a        *)
(* remaining time that no source row has, and is left out.                 *)
(***************************************************************************)
EXTENDS Naturals, Sequences, FiniteSets

CONSTANTS
    Drivers,
    LapNumbers,
    Durations,    \* lap times
    Phases,       \* the names of the session's phases, in their order
    Q3Places      \* the ten places of the last phase

DriversAssumption == IsFiniteSet(Drivers)
NumbersAssumption == Durations \subseteq Nat /\ Q3Places \in Nat \ {0}
PhasesAssumption == Phases \in Seq(STRING)

VARIABLES
    race,  \* of RaceState: session type known, current_phase, positions
    laps,  \* per driver and lap the retained duration, None before it or once deleted
    whole, \* per driver, that no part of its lap history is missing
    quali, \* QualifyingState, or NoState
    told   \* the events derived from the last fact

vars == <<race, laps, whole, quali, told>>

None == 0
NoState == [phase |-> ""]

Position == 1..Cardinality(Drivers)

(***************************************************************************)
(* The reducer.                                                            *)
(***************************************************************************)
Valid(d) == {laps[d][n] : n \in LapNumbers} \ {None}

Least(S) == CHOOSE x \in S : \A y \in S : x <= y

\* best_lap_duration: withheld unless the history is whole.
Best(d) == IF whole[d] /\ Valid(d) # {} THEN Least(Valid(d)) ELSE None

Rank(order, phase) == CHOOSE i \in 1..Len(order) : order[i] = phase

InOrder(order, phase) == \E i \in 1..Len(order) : order[i] = phase

\* A phase is taken over if the session has it and it does not go back, or if
\* the fact is the change of phase itself.
Order(typed) == IF typed THEN Phases ELSE <<"Q1", "Q2", "Q3">>

Forward(order, phase) ==
    race.phase = "" \/ (InOrder(order, race.phase)
                        /\ Rank(order, phase) >= Rank(order, race.phase))

Reduced(learns, phase, explicit) ==
    LET typed == race.typed \/ learns IN
    [race EXCEPT !.typed = typed,
                 !.phase = IF InOrder(Order(typed), phase)
                              /\ (explicit \/ Forward(Order(typed), phase))
                           THEN phase ELSE @]

(***************************************************************************)
(* qualifying_cutoff: the places of the last phase, and half of the others *)
(* after the first.                                                        *)
(***************************************************************************)
Excess(field) == IF field > Q3Places THEN field - Q3Places ELSE 0

Cutoff(field, phase) ==
    CASE phase = "Q1" -> Q3Places + (Excess(field) + 1) \div 2
      [] phase = "Q2" -> Q3Places
      [] OTHER -> None

(***************************************************************************)
(* The engine's state, made from the reducer's at the first fact of a      *)
(* session whose type is known.                                            *)
(***************************************************************************)
Placed(positions) == {d \in Drivers : positions[d] # None}

InitialState(r) ==
    [phase |-> r.phase, field |-> Cardinality(Placed(r.positions)),
     cutoff |-> Cutoff(Cardinality(Placed(r.positions)), r.phase),
     positions |-> r.positions,
     pole |-> {d \in Drivers : r.positions[d] = 1},
     best |-> [d \in Drivers |-> None], sessionBest |-> None]

\* With two drivers reported in first place the first of them is the pole.
Engine(r) ==
    IF quali # NoState THEN {quali}
    ELSE LET start == InitialState(r) IN
         IF start.pole = {} THEN {[start EXCEPT !.pole = None]}
         ELSE {[start EXCEPT !.pole = d] : d \in start.pole}

Tell(type, d, of) == [type |-> type, driver |-> d, of |-> of, lap |-> None]
TellLap(type, d, t) == [type |-> type, driver |-> d, of |-> "", lap |-> t]

PhaseStep(q, phase) ==
    IF phase # "" /\ phase # q.phase
    THEN [q EXCEPT !.phase = phase, !.cutoff = Cutoff(q.field, phase)]
    ELSE q

PhaseTold(q, phase) ==
    IF phase # "" /\ phase # q.phase /\ q.phase # ""
    THEN {Tell("SESSION_PHASE_CHANGE", None, phase)} ELSE {}

(***************************************************************************)
(* _position_events                                                        *)
(***************************************************************************)

\* A driver not seen before makes the field larger, and the cutoff with it.
Seen(q, d, p) ==
    LET positions == [q.positions EXCEPT ![d] = p]
        field == Cardinality(Placed(positions)) IN
    IF q.positions[d] # None THEN [q EXCEPT !.positions = positions]
    ELSE [q EXCEPT !.positions = positions, !.field = field, !.cutoff = Cutoff(field, q.phase)]

Movement(q, d, p) ==
    IF /\ q.positions[d] # None /\ q.cutoff # None
       /\ (q.positions[d] > q.cutoff) # (p > q.cutoff)
    THEN {Tell("QUALIFYING_CUTOFF_CHANGE", d,
               IF p > q.cutoff THEN "INTO_DROP_ZONE" ELSE "OUT_OF_DROP_ZONE")}
    ELSE {}

PoleStep(q, d, p) == IF p = 1 THEN [q EXCEPT !.pole = d] ELSE q

PoleTold(q, d, p) ==
    IF p = 1 /\ q.pole # d THEN {Tell("PROVISIONAL_POLE", d, "")} ELSE {}

(***************************************************************************)
(* _lap_events: a lap is told if the reducer still has it, as it was in    *)
(* the fact, and it is the driver's best and better than the last one.     *)
(***************************************************************************)
Witnessed(d, n, t) == laps'[d][n] = t /\ Best(d)' = t

PersonalBest(q, d, n, t) ==
    Witnessed(d, n, t) /\ (q.best[d] = None \/ t < q.best[d])

LapTold(q, d, n, t) ==
    IF ~PersonalBest(q, d, n, t) THEN {}
    ELSE {TellLap("PERSONAL_BEST", d, t)}
         \cup (IF q.sessionBest = None \/ t < q.sessionBest
               THEN {TellLap("FASTEST_LAP", d, t)} ELSE {})

\* reconcile_qualifying_bests, at the end of every step.
Reconciled(q) ==
    [q EXCEPT !.best = [d \in Drivers |-> Best(d)'],
              !.sessionBest = IF (\A d \in Drivers : whole'[d])
                                 /\ \E d \in Drivers : Best(d)' # None
                              THEN Least({Best(d)' : d \in Drivers} \ {None})
                              ELSE None]

Init ==
    /\ race = [typed |-> FALSE, phase |-> "", positions |-> [d \in Drivers |-> None]]
    /\ laps = [d \in Drivers |-> [n \in LapNumbers |-> None]]
    /\ whole = [d \in Drivers |-> TRUE]
    /\ quali = NoState /\ told = {}

\* A fact may carry the type of the session and a phase besides its own content.
Context(explicit) ==
    \E learns \in BOOLEAN, phase \in {""} \cup {Phases[i] : i \in 1..Len(Phases)} :
        race' = Reduced(learns, phase, explicit)

Untyped == ~race'.typed /\ quali' = quali /\ told' = {}

\* A fact of which the engine only takes the context over.
Apply ==
    \/ Untyped
    \/ /\ race'.typed
       /\ \E q \in Engine(race') :
            /\ quali' = Reconciled(PhaseStep(q, race'.phase))
            /\ told' = PhaseTold(q, race'.phase)

QualifyingPhase ==
    /\ Context(TRUE)
    /\ UNCHANGED <<laps, whole>>
    /\ Apply

PositionSample ==
    \E d \in Drivers, p \in Position, learns \in BOOLEAN :
        /\ race' = [Reduced(learns, "", FALSE) EXCEPT !.positions[d] = p]
        /\ UNCHANGED <<laps, whole>>
        /\ \/ Untyped
           \/ /\ race'.typed
              /\ \E q \in Engine(race') :
                   LET now == PhaseStep(q, race'.phase)
                       seen == Seen(now, d, p) IN
                   /\ quali' = Reconciled(PoleStep(seen, d, p))
                   /\ told' = PhaseTold(q, race'.phase) \cup Movement(now, d, p)
                              \cup PoleTold(now, d, p)

\* A lap, or a later and different report of it.
LapCompleted ==
    \E d \in Drivers, n \in LapNumbers, t \in Durations :
        /\ Context(FALSE)
        /\ laps' = [laps EXCEPT ![d][n] = t]
        /\ UNCHANGED whole
        /\ \/ Untyped
           \/ /\ race'.typed
              /\ \E q \in Engine(race') :
                   LET now == PhaseStep(q, race'.phase) IN
                   /\ quali' = Reconciled(now)
                   /\ told' = PhaseTold(q, race'.phase) \cup LapTold(now, d, n, t)

LapDeleted ==
    \E d \in Drivers, n \in LapNumbers :
        /\ laps[d][n] # None
        /\ laps' = [laps EXCEPT ![d][n] = None]
        /\ Context(FALSE)
        /\ UNCHANGED whole
        /\ Apply

\* A deletion that names no lap, or a history beyond its limits.
HistoryIncomplete ==
    \E d \in Drivers :
        /\ whole[d]
        /\ whole' = [whole EXCEPT ![d] = FALSE]
        /\ Context(FALSE)
        /\ UNCHANGED laps
        /\ Apply

Next == QualifyingPhase \/ PositionSample \/ LapCompleted \/ LapDeleted \/ HistoryIncomplete

Spec == Init /\ [][Next]_vars

(***************************************************************************)
(* Properties.                                                             *)
(***************************************************************************)
PhaseNames == {""} \cup {Phases[i] : i \in 1..Len(Phases)}

TypeOK ==
    /\ race.typed \in BOOLEAN /\ race.phase \in PhaseNames
    /\ race.positions \in [Drivers -> Position \cup {None}]
    /\ laps \in [Drivers -> [LapNumbers -> Durations \cup {None}]]
    /\ whole \in [Drivers -> BOOLEAN]
    /\ quali # NoState =>
         /\ quali.phase \in PhaseNames /\ quali.field \in 0..Cardinality(Drivers)
         /\ quali.cutoff \in Nat /\ quali.positions \in [Drivers -> Position \cup {None}]
         /\ quali.pole \in Drivers \cup {None}
         /\ quali.best \in [Drivers -> Durations \cup {None}]
         /\ quali.sessionBest \in Durations \cup {None}

\* The cutoff is that of the phase and of the drivers seen, through every
\* change of phase and however late a driver's first position comes.
CutoffCurrent ==
    quali # NoState =>
        /\ quali.phase = race.phase
        /\ quali.cutoff = Cutoff(Cardinality(Placed(race.positions)), race.phase)

\* A drop zone entered is a drop zone left before it is entered again, while
\* the cutoff stays what it was: what was told agrees with the positions.
MovesAgree ==
    \A e \in told' : e.type = "QUALIFYING_CUTOFF_CHANGE" =>
         /\ (race.positions[e.driver] > quali'.cutoff) # (e.of = "INTO_DROP_ZONE")
         /\ (race'.positions[e.driver] > quali'.cutoff) = (e.of = "INTO_DROP_ZONE")

Fastest(e) == \A d \in Drivers : Valid(d)' # {} => e.lap <= Least(Valid(d)')

\* While no lap history is incomplete, a lap told as the fastest is at least as
\* fast as every valid lap of the session, deletions and corrections included.
\* (The step that first learns the session's type is excepted: the engine starts
\* without the bests of the laps before it.)
ToldFastest ==
    quali # NoState /\ (\A d \in Drivers : whole'[d]) =>
         \A e \in told' : e.type = "FASTEST_LAP" => Fastest(e)

\* A personal best is told of a lap that beats all valid laps of its driver:
\* a repeated report and a lap of the same time are not.
ToldPersonal ==
    \A e \in told' : e.type = "PERSONAL_BEST" /\ quali # NoState /\ whole[e.driver] =>
         \A x \in Valid(e.driver) : e.lap < x

\* "partial data degrades conservatively": with one driver's history incomplete,
\* a lap is still told as the fastest only if it is.
FastestDegrades ==
    [][quali # NoState => \A e \in told' : e.type = "FASTEST_LAP" => Fastest(e)]_vars

\* "Qualifying and Sprint Qualifying" have a cutoff in the first two phases.
PhaseHasCutoff ==
    quali # NoState /\ InOrder(SubSeq(Phases, 1, 2), quali.phase) => quali.cutoff # None
=============================================================================
