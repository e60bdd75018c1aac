----------------------------- MODULE PairTrends -----------------------------
(***************************************************************************)
(* How long one car has followed another, and whether it closes in.  The   *)
(* source index of the strategy analysis (services/strategy_inputs.py,     *)
(* SourceIndex) keeps the latest witnesses of every driver: the reported   *)
(* position and the interval to the car ahead, each with the time it was   *)
(* observed, and the pairs and gaps they support.  Over the pairs,         *)
(* services/strategy_battles.py (contexts) keeps the trend rings that are  *)
(* published with every battle: the intervals seen while the pair's gap    *)
(* was known without a break in a running, un-neutralized race.  clock is  *)
(* the analysis time: the latest event time of the sources so far.         *)
(***************************************************************************)
EXTENDS Integers, FiniteSets, Sequences

CONSTANTS Drivers,    \* numbers of cars
          Positions,  \* the places of the field
          Gaps,       \* what an interval row may report
          None,
          FreshFor,   \* how long a witness supports a gap (30 seconds)
          Skew,       \* how far apart its witnesses may be (5 seconds)
          MaxTime,
          RingSize    \* the 20 observations of a ring

IndexAssumption ==
    /\ Drivers \subseteq Nat /\ Positions \subseteq Nat \ {0}
    /\ {FreshFor, Skew, MaxTime} \subseteq Nat /\ RingSize \in Nat \ {0}

VARIABLES position,  \* driver -> None or what was last reported, and when
          interval,
          active,    \* drivers who are running and not in the pits
          clock,
          ring,      \* pair -> observations, for the pairs of the last source
          racing,    \* the session runs, and under green or unknown flags
          since      \* the clock since when each pair's gap has been known

Witnesses(values) == [value : values, at : 0 .. MaxTime]

LaterOf(a, b) == IF a > b THEN a ELSE b

(* A late fact cannot replace a newer observation, a correction of the     *)
(* same time can.                                                          *)
Seen(old, w) == IF old # None /\ old.at > w.at THEN old ELSE w

Placed == {d \in active : position[d] # None}

(* The drivers whose reported place nobody else reports.                   *)
Alone == {d \in Placed : \A e \in Placed \ {d} :
                            position[e].value # position[d].value}

(* Pairs of consecutive places, the car ahead first.                       *)
Pairs == {<<a, b>> \in Alone \X Alone :
            position[b].value = position[a].value + 1}

Fresh(w) == w # None /\ clock - w.at \in 0 .. FreshFor

(* The gap of a pair is known while its three witnesses are fresh, of one  *)
(* moment, and say that one car follows the other.                         *)
HasGap(p) ==
    LET ws == {position[p[1]], position[p[2]], interval[p[2]]}
    IN  /\ \A w \in ws : Fresh(w)
        /\ position[p[2]].value = position[p[1]].value + 1
        /\ \A v, w \in ws : v.at - w.at <= Skew

IndexInit == /\ position = [d \in Drivers |-> None]
             /\ interval = [d \in Drivers |-> None]
             /\ active = Drivers
             /\ clock = 0

IndexTypeOK ==
    /\ \A d \in Drivers : /\ position[d] \in Witnesses(Positions) \cup {None}
                          /\ interval[d] \in Witnesses(Gaps) \cup {None}
    /\ active \subseteq Drivers /\ clock \in 0 .. MaxTime

-----------------------------------------------------------------------------
(* The sources.  An event is late when its time is before the clock.       *)

PositionSample(d, v, t) ==
    /\ position' = [position EXCEPT ![d] = Seen(@, [value |-> v, at |-> t])]
    /\ clock' = LaterOf(clock, t)
    /\ UNCHANGED <<interval, active>>

IntervalSample(d, v, t) ==
    /\ interval' = [interval EXCEPT ![d] = Seen(@, [value |-> v, at |-> t])]
    /\ clock' = LaterOf(clock, t)
    /\ UNCHANGED <<position, active>>

(* Any other source moves the clock, and one may stop or restart a driver. *)
OtherSource(d, t) ==
    /\ active' \in {active, active \ {d}, active \cup {d}}
    /\ clock' = LaterOf(clock, t)
    /\ UNCHANGED <<position, interval>>

-----------------------------------------------------------------------------
(* The rings.                                                              *)

vars == <<position, interval, active, clock, ring, racing, since>>

AllPairs == {p \in Drivers \X Drivers : p[1] # p[2]}
Last(s) == s[Len(s)]

Init == /\ IndexInit
        /\ ring = << >>
        /\ racing \in BOOLEAN
        /\ since = [p \in AllPairs |-> None]

-----------------------------------------------------------------------------
(* The ring with the pair's interval: a silence longer than a witness is   *)
(* fresh starts it again, and only a later observation is added.           *)
Grown(r, w) ==
    LET base == IF r # << >> /\ w.at - Last(r).at > FreshFor THEN << >> ELSE r
        all == Append(base, w)
    IN  IF base # << >> /\ w.at <= Last(base).at THEN base
        ELSE SubSeq(all, LaterOf(1, Len(all) - RingSize + 1), Len(all))

RingOf(p) == IF p \in DOMAIN ring THEN ring[p] ELSE << >>

(* The ring of a pair after a source.                                      *)
Trend(p) ==
    IF HasGap(p)' /\ racing' THEN Grown(RingOf(p), interval'[p[2]]) ELSE << >>

(* contexts, which runs after every source: only the pairs there are now   *)
(* have a ring.  since records when a pair's gap became known.             *)
Contexts ==
    /\ ring' = [p \in Pairs' |-> Trend(p)]
    /\ since' = [p \in AllPairs |->
                   IF ~(p \in Pairs' /\ HasGap(p)' /\ racing') THEN None
                   ELSE IF since[p] = None THEN clock' ELSE since[p]]

Position(d, v, t) == PositionSample(d, v, t) /\ UNCHANGED racing /\ Contexts

IntervalSeen(d, v, t) == IntervalSample(d, v, t) /\ UNCHANGED racing /\ Contexts

Other(d, t) == OtherSource(d, t) /\ UNCHANGED racing /\ Contexts

(* A control message starts, neutralizes, suspends or ends the race.       *)
Control(t) ==
    /\ racing' \in BOOLEAN
    /\ clock' = LaterOf(clock, t)
    /\ UNCHANGED <<position, interval, active>>
    /\ Contexts

Next == \E t \in 0 .. MaxTime :
          \/ \E d \in Drivers, v \in Positions : Position(d, v, t)
          \/ \E d \in Drivers, v \in Gaps : IntervalSeen(d, v, t)
          \/ \E d \in Drivers : Other(d, t)
          \/ Control(t)

Spec == Init /\ [][Next]_vars

-----------------------------------------------------------------------------
(* Types: rings are kept for pairs only, within their size.                *)
TypeOK == /\ IndexTypeOK
          /\ DOMAIN ring \subseteq AllPairs
          /\ \A p \in DOMAIN ring : /\ ring[p] \in Seq(Witnesses(Gaps))
                                    /\ Len(ring[p]) <= RingSize
          /\ racing \in BOOLEAN

(* The duration a battle is published with (strategy_battles.py, contexts) *)
(* counts only time in which the gap was known without a break: the ring   *)
(* begins no earlier than a fresh witness of the moment the gap was known. *)
FollowedThroughout ==
    \A p \in DOMAIN ring : ring[p] # << >> =>
        /\ since[p] # None
        /\ ring[p][1].at + FreshFor >= since[p]
        /\ Last(ring[p]).at - ring[p][1].at <= clock - since[p] + FreshFor

(* The observations of a ring are in the order they were made, and two     *)
(* neighbours are within twice the skew: a row that reports a position     *)
(* later than that finds the interval too old, and the ring is cleared.    *)
(* The break after a silence in contexts is therefore never what decides.  *)
StepsAreClose ==
    \A p \in DOMAIN ring : \A i \in 1 .. Len(ring[p]) - 1 :
        ring[p][i + 1].at - ring[p][i].at \in 1 .. 2 * Skew

(* The last observation of a ring is of the time of the interval that the  *)
(* index holds: late rows, which reach neither, cannot part them.          *)
RingIsCurrent ==
    \A p \in DOMAIN ring : ring[p] # << >> =>
        /\ Last(ring[p]).at = interval[p[2]].at
        /\ Fresh(interval[p[2]])

(* A place that two cars report belongs to neither: no car follows two, or *)
(* is followed by two, while the rows of an overtake arrive one by one.    *)
PairsFormChains ==
    \A p, q \in Pairs : (p[1] = q[1]) <=> (p[2] = q[2])
=============================================================================
