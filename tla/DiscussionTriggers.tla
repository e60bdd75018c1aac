-------------------------- MODULE DiscussionTriggers --------------------------
(***************************************************************************)
(* Which events the agents of a room talk about                            *)
(* (services/discussion_triggers.py, AgentEligibility of                   *)
(* services/agent_grounding.py): one evaluator, the events of its sessions *)
(* and the clock of the events, in units of the agents' cooldown.          *)
(***************************************************************************)
EXTENDS Integers, Sequences, FiniteSets, SequencesExt

CONSTANTS
    Sessions,       \* sessions of the evaluator
    Kinds,          \* kinds of events that arrive
    Ids,            \* dedup keys
    Late,           \* whether events may arrive behind the clock
    MaxTime, MaxEvents, MaxResets,  \* bounds
    TopicCooldown, AgentCooldown, Minute, RoomMax, Capacity

BoundsAssumption ==
    /\ {MaxTime, MaxEvents, MaxResets, TopicCooldown, AgentCooldown, Minute} \subseteq Nat
    /\ {RoomMax, Capacity} \subseteq Nat \ {0}
    /\ Late \in BOOLEAN

VARIABLES
    clock,      \* time of the newest event
    seen,       \* _seen_order: identities that have triggered, oldest first
    topicLast, agentLast,   \* last trigger of a topic, of an agent
    window,     \* _room_triggers: times of recent triggers
    triggers,   \* history: what was triggered since the last reset
    arrived, resets

vars == <<clock, seen, topicLast, agentLast, window, triggers, arrived, resets>>

Low == 10
Medium == 20
High == 30
Critical == 40

Rule(topic, priority, agents) == [topic |-> topic, priority |-> priority, agents |-> agents]

\* TRIGGER_RULES, the kinds that differ in topic, priority or agents.
Rules ==
    [strategy |-> Rule("tyres", High, <<"mira", "theo">>),
     tyre_change |-> Rule("tyres", Medium, <<"mira", "theo">>),
     session_start |-> Rule("session", High, <<"nova", "arjun">>),
     race_start |-> Rule("session", High, <<"nova", "lena">>),
     qualifying_phase |-> Rule("session", High, <<"nova", "theo">>),
     lap |-> Rule("pace", Low, <<"theo", "mira">>),
     pace_trend |-> Rule("pace", High, <<"theo", "mira">>),
     fastest_lap |-> Rule("pace", Medium, <<"theo", "lena">>),
     cutoff_change |-> Rule("pace", High, <<"theo", "lena">>),
     overtake |-> Rule("racecraft", High, <<"lena", "theo">>),
     drs_range |-> Rule("racecraft", High, <<"lena", "mira">>),
     pit_stop |-> Rule("pit_stop", High, <<"mira", "theo">>),
     lap_deleted |-> Rule("race_control", High, <<"theo", "lena">>),
     yellow_flag |-> Rule("race_control", High, <<"lena", "nova">>),
     race_control |-> Rule("race_control", Medium, <<"nova", "lena">>),
     red_flag |-> Rule("race_control", Critical, <<"nova", "mira">>),
     safety_car |-> Rule("incident", Critical, <<"mira", "lena">>),
     retirement |-> Rule("incident", High, <<"lena", "nova">>),
     weather_change |-> Rule("weather", High, <<"mira", "theo">>),
     result |-> Rule("summary", Critical, <<"nova", "theo">>),
     finish |-> Rule("summary", Critical, <<"nova", "arjun">>)]

Topics == {Rules[k].topic : k \in Kinds}
Agents == UNION {Range(Rules[k].agents) : k \in Kinds}
Never == -1000

Init ==
    /\ clock = 0 /\ seen = <<>> /\ triggers = {} /\ arrived = 0 /\ resets = 0
    /\ topicLast = [s \in Sessions |-> [t \in Topics |-> Never]]
    /\ agentLast = [s \in Sessions |-> [a \in Agents |-> Never]]
    /\ window = [s \in Sessions |-> <<>>]

Urgent(k) == Rules[k].priority >= Critical

\* popleft while the head is a minute old; the deque is in order of arrival.
Recent(w, t) ==
    LET old == {i \in DOMAIN w : \A j \in 1 .. i : t - w[j] >= Minute}
    IN  SubSeq(w, Cardinality(old) + 1, Len(w))

TopicFree(s, k, t) == Urgent(k) \/ t - topicLast[s][Rules[k].topic] >= TopicCooldown

RoomFree(s, k, t) == Urgent(k) \/ Len(Recent(window[s], t)) < RoomMax

Candidates(s, k, t) ==
    SelectSeq(Rules[k].agents, LAMBDA a : Urgent(k) \/ t - agentLast[s][a] >= AgentCooldown)

\* Mutant: one is forgotten too early.
RememberFewer(order, x) ==
    LET all == Append(order, x)
    IN  IF Len(all) >= Capacity THEN Tail(all) ELSE all

\* The oldest identities are forgotten beyond the capacity.
Remember(order, x) ==
    LET all == Append(order, x)
    IN  IF Len(all) > Capacity THEN Tail(all) ELSE all

Speakers(agents) == {agents[i] : i \in 1 .. IF Len(agents) < 2 THEN Len(agents) ELSE 2}

Trigger(s, k, id, t) ==
    LET agents == Candidates(s, k, t)
    IN  /\ seen' = Remember(seen, <<s, id>>)
        /\ topicLast' = [topicLast EXCEPT ![s][Rules[k].topic] = t]
        /\ agentLast' = [agentLast EXCEPT ![s] =
                            [a \in Agents |-> IF a \in Speakers(agents) THEN t ELSE @[a]]]
        /\ window' = [window EXCEPT ![s] = Append(Recent(@, t), t)]
        /\ triggers' = triggers \cup {[session |-> s, id |-> id, kind |-> k, time |-> t,
                                       by |-> Speakers(agents), n |-> arrived]}

\* evaluate: an event that is eligible, meaningful, and of a kind with a rule.
Evaluate ==
    /\ arrived < MaxEvents /\ arrived' = arrived + 1
    /\ \E s \in Sessions, k \in Kinds, id \in Ids, t \in 0 .. MaxTime :
          /\ t >= clock \/ Late
          /\ clock' = IF t > clock THEN t ELSE clock
          /\ IF /\ ~Contains(seen, <<s, id>>)
                /\ RoomFree(s, k, t) /\ TopicFree(s, k, t) /\ Candidates(s, k, t) # <<>>
             THEN Trigger(s, k, id, t)
             ELSE UNCHANGED <<seen, topicLast, agentLast, triggers>>
                  /\ window' = IF Contains(seen, <<s, id>>) THEN window
                               ELSE [window EXCEPT ![s] = Recent(@, t)]
    /\ UNCHANGED resets

Forget(s) == seen' = SelectSeq(seen, LAMBDA x : x[1] # s)

ResetSession(s) ==
    /\ resets < MaxResets /\ resets' = resets + 1
    /\ Forget(s)
    /\ topicLast' = [topicLast EXCEPT ![s] = [t \in Topics |-> Never]]
    /\ agentLast' = [agentLast EXCEPT ![s] = [a \in Agents |-> Never]]
    /\ window' = [window EXCEPT ![s] = <<>>]
    /\ triggers' = {x \in triggers : x.session # s}
    /\ UNCHANGED <<clock, arrived>>

Next == Evaluate \/ \E s \in Sessions : ResetSession(s)

Spec == Init /\ [][Next]_vars

-----------------------------------------------------------------------------

TypeOK ==
    /\ Len(seen) <= Capacity
    /\ \A s \in Sessions : \A i \in DOMAIN window[s] : window[s][i] \in 0 .. MaxTime
    /\ \A x \in triggers : x.by # {} /\ x.by \subseteq Agents

Calm(x) == ~Urgent(x.kind)

\* When events come in the order of their times no minute holds more triggers
\* than the room allows, those of race control aside.
Throttled ==
    \A x \in triggers : Calm(x) =>
        Cardinality({y \in triggers : y.session = x.session /\ y.n < x.n /\ x.time - y.time < Minute})
            < RoomMax

\* A topic rests after it was talked about, and so does an agent.
Rested ==
    \A x, y \in triggers :
        x.session = y.session /\ x.n < y.n /\ Calm(y) =>
            /\ Rules[x.kind].topic = Rules[y.kind].topic => y.time - x.time >= TopicCooldown
            /\ x.by \cap y.by # {} => y.time - x.time >= AgentCooldown

\* An event that comes again is not talked about again, until as many others as
\* the evaluator remembers have been.
NotTwice ==
    \A x, y \in triggers :
        x.session = y.session /\ x.id = y.id /\ x.n < y.n =>
            resets > 0 \/ Cardinality({z \in triggers : x.n < z.n /\ z.n < y.n}) >= Capacity

\* The reset of a session (a restart or a rebuild of its room) takes nothing
\* from the others: their cooldowns, their window, what they have triggered.
ResetsOne ==
    resets' # resets =>
        \E s \in Sessions : \A o \in Sessions \ {s} :
            /\ topicLast'[o] = topicLast[o] /\ agentLast'[o] = agentLast[o]
            /\ window'[o] = window[o]
            /\ SelectSeq(seen', LAMBDA x : x[1] = o) = SelectSeq(seen, LAMBDA x : x[1] = o)

=============================================================================
