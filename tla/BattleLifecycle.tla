-------------------------- MODULE BattleLifecycle --------------------------
(***************************************************************************)
(* The battles BattleEngine tracks in one race session: a battle is a pair *)
(* <<lead, chaser>>, opened by an interval sample of a car directly behind *)
(* another and driven by that car's later samples; the events it publishes *)
(* and the summary that is stored when it is resolved.  An interval is the *)
(* band of the engine's thresholds it falls in.                            *)
(***************************************************************************)
EXTENDS Integers, FiniteSets

CONSTANTS
    Drivers, Grid,             \* cars and their first positions
    StartSamples, EndSamples,  \* battle_start_samples, battle_end_samples
    Bands                      \* intervals that are sampled, of 0 .. 5

\* battle_intense_interval, proximity_exit, CLOSE's 1.5 s, battle_start and battle_end
\* part the bands 0 .. 5
Intense(i) == i = 0
Within(i) == i <= 1
Startable(i) == i <= 3
Apart(i) == i = 5

None == [status |-> "none"]

VARIABLES
    pos,        \* positions in the race state
    battles,    \* pair -> battle, or None
    blocked,    \* racing_inference_blocked
    updates,    \* events of the last step: <<type, pair>>
    begun,      \* history: pairs whose BATTLE_STARTED has no BATTLE_ENDED yet
    near,       \* history: pairs whose last proximity event was DRS_RANGE_ENTERED
    summaries,  \* stored by the last step: [pair, was, peak, seen]
    run         \* history: per car, the interval samples in a row that were close
                \* behind one car, and those that were apart from it, each capped

vars == <<pos, battles, blocked, updates, begun, near, summaries, run>>

Pairs == {<<a, b>> \in Drivers \X Drivers : a # b}

Quiet == [behind |-> "nobody", close |-> 0, apart |-> 0]

Init ==
    /\ pos = Grid
    /\ battles = [p \in Pairs |-> None]
    /\ blocked = FALSE
    /\ updates = {} /\ begun = {} /\ near = {}
    /\ summaries = {}
    /\ run = [d \in Drivers |-> Quiet]

-----------------------------------------------------------------------------
Intensity(i) == IF i = 0 THEN 2 ELSE IF i <= 2 THEN 1 ELSE 0   \* INTENSE, CLOSE, BUILDING

Tracked(p) == battles[p] # None

Active(p) == Tracked(p) /\ battles[p].status # "POTENTIAL"

\* The summary of a resolved battle: peak_intensity is its intensity
Summary(p) == [pair |-> p, was |-> battles[p].status, peak |-> battles[p].intensity,
               seen |-> battles[p].seen]

\* Publish events, resolve a set of pairs and drop another
Publish(events, resolved, changed) ==
    /\ updates' = events \cup {<<"BATTLE_ENDED", p>> : p \in resolved}
    /\ battles' = [p \in Pairs |-> IF p \in resolved THEN None ELSE changed[p]]
    /\ begun' = (begun \cup {p \in Pairs : <<"BATTLE_STARTED", p>> \in events}) \ resolved
    /\ near' = ((near \cup {p \in Pairs : <<"DRS_RANGE_ENTERED", p>> \in events})
                  \ {p \in Pairs : <<"DRS_RANGE_EXITED", p>> \in events}) \ resolved
    /\ summaries' = {Summary(p) : p \in resolved}

-----------------------------------------------------------------------------
(* Samples of the car behind *)

\* Mutant: battles with another lead go on
StaleKept(c, current) == {}

\* _resolve_changed_adjacency: the chaser's battles with anyone else
Stale(c, current) == {p \in Pairs : Tracked(p) /\ p[2] = c /\ p # current}

Dropped(ps) == [p \in Pairs |-> IF p \in ps THEN None ELSE battles[p]]

\* The car leads, or nobody is directly ahead
Alone(c) ==
    /\ {a \in Drivers : pos[a] = pos[c] - 1} = {}
    /\ LET stale == Stale(c, <<c, c>>)
       IN  Publish({}, {p \in stale : Active(p)}, Dropped(stale))
    /\ run' = [run EXCEPT ![c] = Quiet]

Open(p, i) ==
    /\ ~Tracked(p)
    /\ LET stale == Stale(p[2], p)
           opened == [status |-> "POTENTIAL", close |-> 1, end |-> 0, near |-> FALSE,
                      intensity |-> 0, seen |-> Intensity(i)]
       IN  Publish({}, {q \in stale : Active(q)},
                   IF Startable(i) THEN [Dropped(stale) EXCEPT ![p] = opened] ELSE Dropped(stale))

\* A candidate that is not close any more was never a battle
Forget(p, i) ==
    /\ Tracked(p) /\ ~Active(p) /\ ~Startable(i)
    /\ Publish({}, {}, Dropped({p}))

\* DRS_RANGE_ENTERED at one second, DRS_RANGE_EXITED above the exit threshold
Proximity(b, p, i) ==
    IF Intense(i) /\ ~b.near THEN {<<"DRS_RANGE_ENTERED", p>>}
    ELSE IF ~Within(i) /\ b.near THEN {<<"DRS_RANGE_EXITED", p>>} ELSE {}

Far(b, i) == IF Apart(i) THEN b.end + 1 ELSE 0

Close(b) == b.close + 1

\* A sample of a tracked pair
Follow(p, i) ==
    LET b == battles[p]
        waits == ~Active(p) /\ Close(b) < StartSamples
        starts == ~Active(p) /\ ~waits
        before == IF starts THEN Intensity(i) ELSE b.intensity
        ends == Far(b, i) >= EndSamples
        next == [b EXCEPT !.status = IF Intense(i) THEN "INTENSE" ELSE "ACTIVE",
                          !.close = Close(b), !.intensity = Intensity(i),
                          !.near = IF Intense(i) THEN TRUE ELSE IF Within(i) THEN @ ELSE FALSE,
                          !.end = Far(b, i),
                          !.seen = IF Intensity(i) > @ THEN Intensity(i) ELSE @]
    IN  /\ Tracked(p) /\ (Active(p) \/ Startable(i))
        /\ IF waits
           THEN Publish({}, {}, [battles EXCEPT ![p].close = Close(b),
                                                ![p].seen = IF Intensity(i) > @ THEN Intensity(i) ELSE @])
           ELSE IF ends
           THEN /\ Publish({}, {p}, battles)
           ELSE Publish((IF starts THEN {<<"BATTLE_STARTED", p>>} ELSE {})
                          \cup (IF Intense(i) /\ before # 2 THEN {<<"BATTLE_INTENSIFIED", p>>} ELSE {})
                          \cup Proximity(b, p, i),
                        {}, [battles EXCEPT ![p] = [next EXCEPT !.close = IF Active(p) THEN b.close ELSE @]])

Capped(n, m) == IF n < m THEN n + 1 ELSE m

Interval(c, i) ==
    /\ ~blocked
    /\ \/ Alone(c)
       \/ \E a \in Drivers \ {c} :
            /\ pos[a] = pos[c] - 1
            /\ \/ Open(<<a, c>>, i) \/ Forget(<<a, c>>, i) \/ Follow(<<a, c>>, i)
            /\ run' = [run EXCEPT ![c] =
                 LET r == IF run[c].behind = a THEN run[c] ELSE [Quiet EXCEPT !.behind = a]
                 IN  [r EXCEPT !.close = IF Startable(i) THEN Capped(@, StartSamples) ELSE 0,
                               !.apart = IF Apart(i) THEN Capped(@, EndSamples) ELSE 0]]
    /\ UNCHANGED <<pos, blocked>>

-----------------------------------------------------------------------------
(* Events that resolve *)

\* A pit, a stop, a retirement or an overtake resolves the battles of its cars,
\* the end of the session all of them, whatever their status
Resolve(cars) ==
    /\ ~blocked
    /\ Publish({}, {p \in Pairs : Tracked(p) /\ {p[1], p[2]} \cap cars # {}}, battles)
    /\ run' = [d \in Drivers |-> IF d \in cars \/ run[d].behind \in cars THEN Quiet ELSE run[d]]
    /\ UNCHANGED <<pos, blocked>>

\* The control blocks inference
Neutralise ==
    /\ blocked' = ~blocked
    /\ IF blocked THEN UNCHANGED <<battles, begun, near>> /\ updates' = {} /\ summaries' = {}
       ELSE Publish({}, {p \in Pairs : Active(p)}, [p \in Pairs |-> None])
    /\ run' = [d \in Drivers |-> Quiet]
    /\ UNCHANGED pos

\* A position sample; no interval sample, so the battles stay as they are
Position(d, n) ==
    /\ pos[d] # n
    /\ pos' = [pos EXCEPT ![d] = n]
    /\ updates' = {}
    /\ UNCHANGED <<battles, blocked, begun, near, summaries, run>>

Next ==
    \/ Neutralise
    \/ \E c \in Drivers : \E i \in Bands : Interval(c, i)
    \/ \E d \in Drivers : \E n \in 1 .. Cardinality(Drivers) : Position(d, n)
    \/ \E cars \in {{d} : d \in Drivers} \cup {Drivers} : Resolve(cars)

Spec == Init /\ [][Next]_vars

-----------------------------------------------------------------------------
Statuses == {"POTENTIAL", "ACTIVE", "INTENSE"}

TypeOK ==
    \A p \in Pairs : Tracked(p) =>
        /\ battles[p].status \in Statuses
        /\ battles[p].close \in 1 .. StartSamples /\ battles[p].end \in 0 .. EndSamples - 1
        /\ battles[p].status = "INTENSE" <=> Active(p) /\ battles[p].intensity = 2

\* A chaser is in one battle.
OneEdgePerChaser == \A p, q \in Pairs : Tracked(p) /\ Tracked(q) /\ p[2] = q[2] => p = q

\* A battle is public exactly between its start and its end, and what is said of
\* its proximity is what the engine holds.
PublicIsActive ==
    /\ \A p \in Pairs : p \in begun <=> Active(p)
    /\ \A p \in Pairs : p \in near <=> Active(p) /\ battles[p].near

\* A battle starts after enough samples in a row close behind the same car, and
\* its gap opens after enough samples in a row apart.
LongEnough ==
    \A p \in Pairs :
        /\ <<"BATTLE_STARTED", p>> \in updates' =>
              run'[p[2]].behind = p[1] /\ run'[p[2]].close = StartSamples
        /\ (<<"BATTLE_ENDED", p>> \in updates' /\ run'[p[2]].behind = p[1]) =>
              run'[p[2]].apart = EndSamples

\* The proximity events of a battle alternate.
ProximityAlternates ==
    [][\A p \in Pairs :
        /\ <<"DRS_RANGE_ENTERED", p>> \in updates' => p \notin near
        /\ <<"DRS_RANGE_EXITED", p>> \in updates' => p \in near]_vars

\* A candidate stays internal: what ends, and what is summed up, was a battle.
PotentialInternal == \A x \in summaries : x.was # "POTENTIAL"

\* The summary keeps the peak of the battle.
PeakKept == \A x \in summaries : x.was # "POTENTIAL" => x.peak = x.seen
=============================================================================
