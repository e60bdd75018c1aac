---------------------------- MODULE StandingsStats ----------------------------
(***************************************************************************)
(* What the standings say of a season (services/championship.py): the      *)
(* counts of a driver and the counts of a team, computed apart from the    *)
(* same results.                                                           *)
(*                                                                         *)
(* Results come in one at a time, as the rows of a season do.  A row is a  *)
(* driver in a team at a round; how it ended is its position text and      *)
(* status: classified, retired, disqualified, withdrawn, or running at the *)
(* end but too far behind to be classified (text N, status "+9 Laps").     *)
(***************************************************************************)
EXTENDS Integers, FiniteSets, FiniteSetsExt

CONSTANTS Drivers, Teams, Rounds, Positions, MaxRows

SeasonAssumption ==
    /\ Rounds \subseteq Nat /\ Positions \subseteq Nat \ {0} /\ MaxRows \in Nat

VARIABLES races, qualifying, sprints    \* the rows

vars == <<races, qualifying, sprints>>

Ended == {"classified", "unclassified", "retired", "disqualified", "withdrawn"}
Rows == [round : Rounds, driver : Drivers, team : Teams, pos : Positions, ended : Ended,
         fastest : BOOLEAN]
QualifyingRows == [round : Rounds, driver : Drivers, team : Teams, pos : Positions]

Init == races = {} /\ qualifying = {} /\ sprints = {}

\* A driver is in a session once, and so is a position.
Fits(row, S) == \A o \in S : o.round = row.round => o.driver # row.driver /\ o.pos # row.pos
Room == Cardinality(races) + Cardinality(qualifying) + Cardinality(sprints) < MaxRows

\* Who withdraws is placed last; one driver has the fastest lap of a race.
Race(row) ==
    /\ Fits(row, races)
    /\ row.ended = "withdrawn" => row.pos = Max(Positions) /\ ~row.fastest
    /\ row.fastest => \A o \in races : o.round = row.round => ~o.fastest
    /\ races' = races \cup {row} /\ UNCHANGED <<qualifying, sprints>>

Qualify(row) ==
    /\ Fits(row, qualifying)
    /\ qualifying' = qualifying \cup {row} /\ UNCHANGED <<races, sprints>>

Sprint(row) ==
    /\ Fits(row, sprints)
    /\ row.ended = "withdrawn" => row.pos = Max(Positions)
    /\ ~row.fastest
    /\ sprints' = sprints \cup {row} /\ UNCHANGED <<races, qualifying>>

Next == /\ Room
        /\ \/ \E row \in Rows : Race(row) \/ Sprint(row)
           \/ \E row \in QualifyingRows : Qualify(row)

Spec == Init /\ [][Next]_vars

(***************************************************************************)
(* _driver_stats, of the rows of one driver.                               *)
(***************************************************************************)

Count(S) == Cardinality(S)
Started(S) == {r \in S : r.ended # "withdrawn"}
Classified(S) == {r \in S : r.ended = "classified"}
Within(S, n) == {r \in S : r.pos <= n}

Dnfs(S) == {r \in S : r.ended = "retired"}

DriverStats(R, Q, S) ==
    [starts      |-> Count(Started(R)),
     classified  |-> Count(Classified(R)),
     wins        |-> Count(Within(Classified(R), 1)),
     podiums     |-> Count(Within(Classified(R), 3)),
     topTen      |-> Count(Within(Classified(R), 10)),
     dsqs        |-> Count({r \in R : r.ended = "disqualified"}),
     dnfs        |-> Count(Dnfs(R)),
     fastest     |-> Count({r \in Started(R) : r.fastest}),
     poles       |-> Count(Within(Q, 1)),
     sprintWins  |-> Count(Within(Started(S), 1)),
     sprintPodiums |-> Count(Within(Started(S), 3))]

(***************************************************************************)
(* _constructor_stats, of the rows of one team: a disqualification is a    *)
(* retirement, and sprints are not asked who started.                      *)
(***************************************************************************)

TeamPodiums(R) == Within(Classified(R), 3)

DoublePodiums(R) == {n \in Rounds : Count({r \in TeamPodiums(R) : r.round = n}) >= 2}

TeamStats(R, Q, S) ==
    [wins        |-> Count(Within(Classified(R), 1)),
     podiums     |-> Count(TeamPodiums(R)),
     double      |-> Count(DoublePodiums(R)),
     dnfs        |-> Count({r \in R : r.ended \in {"retired", "disqualified"}}),
     fastest     |-> Count({r \in Started(R) : r.fastest}),
     poles       |-> Count(Within(Q, 1)),
     sprintWins  |-> Count(Within(S, 1)),
     sprintPodiums |-> Count(Within(S, 3))]

OfDriver(S, d) == {r \in S : r.driver = d}
OfTeam(S, t) == {r \in S : r.team = t}
Driver(d) == DriverStats(OfDriver(races, d), OfDriver(qualifying, d), OfDriver(sprints, d))
Team(t) == TeamStats(OfTeam(races, t), OfTeam(qualifying, t), OfTeam(sprints, t))

-----------------------------------------------------------------------------

\* Every start of a driver ends in one way, and only who ran to the end
\* unclassified is in none of the columns of the page.
StartsAddUp ==
    \A d \in Drivers :
        LET s == Driver(d)
        IN  s.starts = s.classified + s.dsqs + s.dnfs
                        + Cardinality({r \in OfDriver(races, d) : r.ended = "unclassified"})

\* What a team is credited with is what its drivers did for it, although the
\* two are counted by different code and drivers change teams.
TeamsAddUp ==
    \A t \in Teams :
        LET of(d) == DriverStats(OfDriver(OfTeam(races, t), d), OfDriver(OfTeam(qualifying, t), d),
                                 OfDriver(OfTeam(sprints, t), d))
            total == Team(t)
        IN  /\ total.wins = MapThenSumSet(LAMBDA d : of(d).wins, Drivers)
            /\ total.podiums = MapThenSumSet(LAMBDA d : of(d).podiums, Drivers)
            /\ total.dnfs = MapThenSumSet(LAMBDA d : of(d).dnfs + of(d).dsqs, Drivers)
            /\ total.fastest = MapThenSumSet(LAMBDA d : of(d).fastest, Drivers)
            /\ total.poles = MapThenSumSet(LAMBDA d : of(d).poles, Drivers)
            /\ total.sprintWins = MapThenSumSet(LAMBDA d : of(d).sprintWins, Drivers)
            /\ total.double * 2 <= total.podiums

=============================================================================
