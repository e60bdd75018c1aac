---------------------------- MODULE RoomDiscussion ----------------------------
(***************************************************************************)
(* How the messages of a room come to be (services/discussion.py,          *)
(* services/room_chat_generation.py), with the transactions they are       *)
(* stored by (storage/room_repository.py) and the positions the agents     *)
(* remember (services/agent_claims.py).                                    *)
(*                                                                         *)
(* One room.  The replay worker and a request (POST /generate, or the live *)
(* pipeline announcing an event) share the engine of the API process; the  *)
(* historical generator is a process of its own.                           *)
(***************************************************************************)
EXTENDS Naturals, Sequences, FiniteSets, FiniteSetsExt, SequencesExt

CONSTANTS
    Events,        \* the session: <<[agents, critical, content, sit, status]>>
    Callers,       \* which of "replay", "request" and "cli" take part
    Retained,      \* MAX_RETAINED_CLAIMS
    RecentSize,    \* texts an engine remembers per room
    MaxRestarts, MaxForced, MaxCrashes, MaxRebuilds   \* bounds

BoundsAssumption ==
    /\ {MaxRestarts, MaxForced, MaxCrashes, MaxRebuilds} \subseteq Nat
    /\ {Retained, RecentSize} \subseteq Nat \ {0}
    /\ Callers \subseteq {"replay", "request", "cli"}

VARIABLES
    gen,        \* discussion_generation
    msgs,       \* room_messages, archived ones included
    counters,   \* message_count and last_generated_sequence of the room
    genStatus,  \* chat_generation_status
    claims,     \* agent_claims
    call,       \* what each caller is doing
    seen,       \* trigger evaluator of either engine
    recent,     \* recent contents of either engine
    lock,       \* per-room lock of the API engine
    next,       \* next event of the replay worker and of the generator
    resetting,  \* a restart has committed and has not yet reset the engine
    refused,    \* a restart was refused by the database
    used        \* how often each bounded action was taken

store == <<gen, msgs, counters, genStatus, claims>>
memory == <<seen, recent>>
rest == <<resetting, refused, used>>
vars == <<store, call, memory, lock, next, rest>>

Nobody == "nobody"
None == 0
Api == Callers \ {"cli"}
Engine(p) == IF p = "cli" THEN "cli" ELSE "api"

Idle == [pc |-> "idle", gen |-> 0, event |-> 0, agents |-> <<>>, role |-> "primary",
         primary |-> None, msg |-> <<>>, open |-> <<>>]

IsStrategy(e) == Events[e].sit # "none"
Active == {m \in msgs : m.active}
Highest(S) == IF S = {} THEN 0 ELSE Max({m.seq : m \in S})

Init ==
    /\ gen = 1 /\ msgs = {} /\ claims = {}
    /\ counters = [count |-> 0, last |-> 0] /\ genStatus = "pending"
    /\ call = [p \in Callers |-> Idle]
    /\ seen = [n \in {"api", "cli"} |-> {}] /\ recent = [n \in {"api", "cli"} |-> <<>>]
    /\ lock = Nobody /\ next = [p \in {"replay", "cli"} |-> 1]
    /\ resetting = FALSE /\ refused = FALSE
    /\ used = [restart |-> 0, force |-> 0, crash |-> 0, rebuild |-> 0]

To(p, rec) == call' = [call EXCEPT ![p] = rec]
At(p, pc) == call[p].pc = pc

\* What a caller does after an event: the worker and the generator move on.
Finish(p) ==
    /\ To(p, IF p = "cli" THEN [Idle EXCEPT !.pc = "next", !.gen = call[p].gen] ELSE Idle)
    /\ lock' = IF lock = p THEN Nobody ELSE lock
    /\ next' = IF p \in DOMAIN next THEN [next EXCEPT ![p] = @ + 1] ELSE next

(***************************************************************************)
(* consume.  The generator has read the room and calls _generate_chain     *)
(* itself, so its generation is that of its start.                         *)
(***************************************************************************)

ReadRoom(p) ==
    /\ p \in Api /\ At(p, "idle")
    /\ p = "replay" => ~resetting
    /\ \E e \in IF p = "replay" THEN {next[p]} \cap DOMAIN Events ELSE DOMAIN Events :
          To(p, [Idle EXCEPT !.pc = "evaluate", !.gen = gen, !.event = e])
    /\ UNCHANGED <<store, memory, lock, next, rest>>

\* Cooldowns and the room window (DiscussionTriggers) decide who may speak.
Triggered(e) ==
    LET configured == Events[e].agents
    IN  IF Events[e].critical THEN {configured}
        ELSE {configured} \cup {<<configured[i]>> : i \in DOMAIN configured}

Evaluate(p) ==
    /\ At(p, "evaluate")
    /\ LET e == call[p].event
       IN  \/ /\ e \in seen[Engine(p)] \/ ~Events[e].critical
              /\ Finish(p)
              /\ UNCHANGED seen
           \/ /\ e \notin seen[Engine(p)]
              /\ \E agents \in Triggered(e) :
                    To(p, [call[p] EXCEPT !.pc = IF p = "cli" THEN "build" ELSE "lock",
                                          !.agents = agents])
              /\ seen' = [seen EXCEPT ![Engine(p)] = @ \cup {e}]
              /\ UNCHANGED <<lock, next>>
    /\ UNCHANGED <<store, recent, rest>>

Lock(p) ==
    /\ At(p, "lock") /\ lock = Nobody
    /\ lock' = p
    /\ To(p, [call[p] EXCEPT !.pc = "build"])
    /\ UNCHANGED <<store, memory, next, rest>>

(***************************************************************************)
(* _generate_chain: the primary message, a reply to it, a verdict of the   *)
(* host.                                                                   *)
(***************************************************************************)

Content(e, role) ==
    IF IsStrategy(e) THEN <<Events[e].content>>
    ELSE IF role = "host" THEN <<"verdict">>
    ELSE <<Events[e].content, role>>

Speaker(c) ==
    CASE c.role = "primary" -> c.agents[1]
      [] c.role = "reply" -> c.agents[2]
      [] c.role = "host" -> "nova"

\* The role after this one, "none" at the end of the chain.
Following(c) ==
    LET host == IF Events[c.event].critical /\ c.agents[1] # "nova" THEN "host" ELSE "none"
    IN  CASE c.role = "primary" -> IF Len(c.agents) > 1 THEN "reply" ELSE host
          [] c.role = "reply" -> host
          [] c.role = "host" -> "none"

\* The chain is over, and claims are reconciled unless there are none.
ChainEnds(p) ==
    IF p \in Api /\ IsStrategy(call[p].event)
    THEN To(p, [call[p] EXCEPT !.pc = "recall"]) /\ UNCHANGED <<lock, next>>
    ELSE Finish(p)

Continue(p, c) ==
    IF Following(c) = "none" THEN ChainEnds(p)
    ELSE To(p, [c EXCEPT !.pc = "build", !.role = Following(c)]) /\ UNCHANGED <<lock, next>>

\* Without a primary message there is no chain.
Unsaid(p, c) == IF c.role = "primary" THEN ChainEnds(p) ELSE Continue(p, c)

\* A text the engine remembers is rejected, and so is one the validator does
\* not find grounded.
Reject(p) ==
    /\ At(p, "build")
    /\ Unsaid(p, call[p])
    /\ UNCHANGED <<store, memory, rest>>

Build(p) ==
    /\ At(p, "build")
    /\ LET c == call[p] content == Content(c.event, c.role)
       IN  /\ ~Contains(recent[Engine(p)], content)
           /\ To(p, [c EXCEPT !.pc = "store", !.msg =
                 [event |-> c.event, agent |-> Speaker(c), content |-> content,
                  role |-> c.role, reply |-> IF c.role = "primary" THEN None ELSE c.primary]])
    /\ UNCHANGED <<store, memory, lock, next, rest>>

(***************************************************************************)
(* insert_message, one transaction under the row lock of the room.         *)
(***************************************************************************)

NextSequence == Highest(msgs) + 1

Conflicts(m) == \/ \E o \in Active : o.event = m.event /\ o.agent = m.agent
                \/ \E o \in msgs : o.seq = NextSequence

Inserted(c, m) == [event |-> m.event, agent |-> m.agent, content |-> m.content, role |-> m.role,
                   reply |-> m.reply, seq |-> NextSequence, active |-> TRUE, gen |-> c.gen]

Insert(c, m) ==
    /\ msgs' = msgs \cup {Inserted(c, m)}
    /\ counters' = [count |-> counters.count + 1, last |-> NextSequence]

Current(c) == c.gen = gen

\* Mutant: any generation may write.
WritesAny(c) == TRUE
Writes(c) == Current(c)

Remember(p, content) ==
    recent' = [recent EXCEPT ![Engine(p)] =
                  SubSeq(Append(@, content), IF Len(@) >= RecentSize THEN 2 ELSE 1, Len(@) + 1)]

\* An exception is swallowed by consume; in the generator it ends the run.
Fail(p) ==
    IF p = "cli" THEN To(p, [call[p] EXCEPT !.pc = "failed"]) /\ UNCHANGED <<lock, next>>
    ELSE Finish(p)

Store(p) ==
    /\ At(p, "store")
    /\ LET c == call[p]
       IN  CASE ~Writes(c) -> Fail(p) /\ UNCHANGED <<msgs, counters, recent>>
             [] Writes(c) /\ Conflicts(c.msg) ->
                  Unsaid(p, c) /\ UNCHANGED <<msgs, counters, recent>>
             [] OTHER ->
                  /\ Insert(c, c.msg)
                  /\ Remember(p, c.msg.content)
                  /\ Continue(p, [c EXCEPT !.primary = IF c.role = "primary" THEN NextSequence ELSE @])
    /\ UNCHANGED <<gen, genStatus, claims, seen, rest>>

(***************************************************************************)
(* _reconcile_claims: positions that the situation decides are closed and  *)
(* taken back, the position the primary message takes is recorded.         *)
(***************************************************************************)

Decides(e, claim) == claim.sit = Events[e].sit /\ Events[e].status \in {"withdrawn", "revised"}

Reached(c, claim) == claim.source <= c.event

Recall(p) ==
    /\ At(p, "recall")
    /\ LET c == call[p]
       IN  To(p, [c EXCEPT !.pc = "revise", !.open =
              SetToSeq({k \in claims : k.gen = c.gen /\ k.open /\ Reached(c, k) /\ Decides(c.event, k)})])
    /\ UNCHANGED <<store, memory, lock, next, rest>>

\* The claim may have been evicted since, or closed for another caller.
Revise(p) ==
    /\ At(p, "revise") /\ call[p].open # <<>>
    /\ LET k == Head(call[p].open)
       IN  /\ claims' = (claims \ {k}) \cup {[o EXCEPT !.open = FALSE] : o \in claims \cap {k}}
           /\ To(p, [call[p] EXCEPT !.pc = "correct", !.msg =
                 [event |-> call[p].event, agent |-> k.agent, role |-> "correction",
                  content |-> <<"revision", k.source>>, reply |-> k.message]])
    /\ UNCHANGED <<gen, msgs, counters, genStatus, memory, lock, next, rest>>

Correct(p) ==
    /\ At(p, "correct")
    /\ LET c == call[p] left == [c EXCEPT !.pc = "revise", !.open = Tail(@)]
       IN  CASE ~Writes(c) -> Finish(p) /\ UNCHANGED <<msgs, counters, recent>>
             [] Writes(c) /\ Conflicts(c.msg) ->
                  To(p, left) /\ UNCHANGED <<msgs, counters, recent, lock, next>>
             [] OTHER -> /\ Insert(c, c.msg) /\ Remember(p, c.msg.content)
                         /\ To(p, left) /\ UNCHANGED <<lock, next>>
    /\ UNCHANGED <<gen, genStatus, claims, seen, rest>>

\* _evict_beyond_window: the newest claims of the generation stay.
Newer(k, o) == k.source > o.source \/ (k.source = o.source /\ k.message > o.message)
Evict(S, g) ==
    {k \in S : k.gen # g \/ Cardinality({o \in S : o.gen = g /\ Newer(o, k)}) < Retained}

\* The claim of a message that a restart has deleted breaks a foreign key.
RecordClaim(p) ==
    /\ At(p, "revise") /\ call[p].open = <<>>
    /\ LET c == call[p]
           claim == [gen |-> c.gen, source |-> c.event, sit |-> Events[c.event].sit,
                     agent |-> c.agents[1], message |-> c.primary, open |-> TRUE]
           stored == /\ c.primary # None /\ Events[c.event].status \in {"active", "revised"}
                     /\ \E m \in msgs : m.seq = c.primary /\ m.gen = c.gen
       IN  claims' = IF stored THEN Evict(claims \cup {claim}, c.gen) ELSE claims
    /\ Finish(p)
    /\ UNCHANGED <<gen, msgs, counters, genStatus, memory, rest>>

(***************************************************************************)
(* begin_discussion_restart, on behalf of a start(restart=True), which has *)
(* cancelled the worker; rebuilds after a seek or a start from a position. *)
(***************************************************************************)

Cancelled(S) == [p \in Callers |-> IF p \in S THEN Idle ELSE call[p]]

Restart ==
    /\ "replay" \in Callers /\ ~resetting /\ used.restart < MaxRestarts
    /\ used' = [used EXCEPT !.restart = @ + 1]
    /\ call' = Cancelled({"replay"}) /\ lock' = IF lock = "replay" THEN Nobody ELSE lock
    /\ IF claims = {}
       THEN /\ msgs' = {} /\ gen' = gen + 1 /\ counters' = [count |-> 0, last |-> 0]
            /\ next' = [next EXCEPT !["replay"] = 1]
            /\ resetting' = TRUE /\ UNCHANGED refused
       ELSE \* agent_claims.message_id still refers to the messages
            /\ refused' = TRUE
            /\ UNCHANGED <<msgs, gen, counters, next, resetting>>
    /\ UNCHANGED <<genStatus, claims, memory>>

Forget == /\ seen' = [seen EXCEPT !["api"] = {}]
          /\ recent' = [recent EXCEPT !["api"] = <<>>]

ResetEngine ==
    /\ resetting /\ resetting' = FALSE
    /\ Forget
    /\ UNCHANGED <<store, call, lock, next, refused, used>>

Rebuild ==
    /\ "replay" \in Callers /\ ~resetting /\ used.rebuild < MaxRebuilds
    /\ used' = [used EXCEPT !.rebuild = @ + 1]
    /\ call' = Cancelled({"replay"}) /\ lock' = IF lock = "replay" THEN Nobody ELSE lock
    /\ next' = [next EXCEPT !["replay"] = 1]
    /\ Forget
    /\ UNCHANGED <<store, resetting, refused>>

\* The API process dies; the playback position is that of the last whole event.
Crash ==
    /\ used.crash < MaxCrashes
    /\ used' = [used EXCEPT !.crash = @ + 1]
    /\ call' = Cancelled(Api) /\ lock' = Nobody /\ resetting' = FALSE
    /\ Forget
    /\ UNCHANGED <<store, next, refused>>

(***************************************************************************)
(* HistoricalRoomChatGenerator._generate_room.                             *)
(***************************************************************************)

\* mark_generation_status: an update of the generation the caller read.
MarkedAny(p, status) == genStatus' = status
Marked(p, status) == IF Current(call[p]) THEN genStatus' = status ELSE UNCHANGED genStatus

Generate ==
    /\ "cli" \in Callers /\ At("cli", "idle") /\ next["cli"] = 1
    /\ To("cli", [Idle EXCEPT !.pc = "start", !.gen = gen])
    /\ UNCHANGED <<store, memory, lock, next, rest>>

MarkRunning ==
    /\ "cli" \in Callers /\ At("cli", "start")
    /\ Marked("cli", "running")
    /\ To("cli", IF Current(call["cli"]) THEN [call["cli"] EXCEPT !.pc = "archive"] ELSE Idle)
    /\ UNCHANGED <<gen, msgs, counters, claims, memory, lock, next, rest>>

Recount(S) == [count |-> Cardinality(S), last |-> Highest(S)]

Archive ==
    /\ "cli" \in Callers /\ At("cli", "archive")
    /\ \/ /\ used.force < MaxForced
          /\ used' = [used EXCEPT !.force = @ + 1]
          /\ IF Current(call["cli"])
             THEN /\ msgs' = {[m EXCEPT !.active = FALSE] : m \in msgs}
                  /\ counters' = Recount({})
                  /\ To("cli", [call["cli"] EXCEPT !.pc = "next"])
             ELSE To("cli", [call["cli"] EXCEPT !.pc = "failed"]) /\ UNCHANGED <<msgs, counters>>
       \/ To("cli", [call["cli"] EXCEPT !.pc = "next"]) /\ UNCHANGED <<msgs, counters, used>>
    /\ UNCHANGED <<gen, genStatus, claims, memory, lock, next, resetting, refused>>

\* Between two events the generator keeps the generation it started with.
NextEvent ==
    /\ "cli" \in Callers /\ At("cli", "next") /\ next["cli"] <= Len(Events)
    /\ To("cli", [call["cli"] EXCEPT !.pc = "evaluate", !.event = next["cli"]])
    /\ UNCHANGED <<store, memory, lock, next, rest>>

Finalize ==
    /\ "cli" \in Callers
    /\ \/ At("cli", "next") /\ next["cli"] > Len(Events) /\ Marked("cli", "completed")
       \/ At("cli", "failed") /\ Marked("cli", "failed")
    /\ To("cli", Idle)
    /\ next' = [next EXCEPT !["cli"] = Len(Events) + 1]
    /\ UNCHANGED <<gen, msgs, counters, claims, memory, lock, rest>>

Step(p) == \/ ReadRoom(p) \/ Evaluate(p) \/ Lock(p) \/ Reject(p) \/ Build(p) \/ Store(p)
           \/ Recall(p) \/ Revise(p) \/ Correct(p) \/ RecordClaim(p)

Generator == Generate \/ MarkRunning \/ Archive \/ NextEvent \/ Finalize

Next == (\E p \in Callers : Step(p)) \/ Generator
        \/ Restart \/ ResetEngine \/ Rebuild \/ Crash

Spec == Init /\ [][Next]_vars

-----------------------------------------------------------------------------

TypeOK ==
    /\ gen \in 1 .. MaxRestarts + 1
    /\ \A m \in msgs : m.seq \in Nat \ {0} /\ m.event \in DOMAIN Events /\ m.reply \in Nat
    /\ genStatus \in {"pending", "running", "completed", "failed"}
    /\ lock \in Callers \cup {Nobody}
    /\ \A n \in DOMAIN recent : Len(recent[n]) <= RecentSize

\* No text composed for an earlier discussion reaches the one that replaced it
\* (discussion_generation, checked under the lock of the room).
NothingStale == \A m \in msgs : m.gen = gen

\* The counters the room list shows are those of the messages that are shown,
\* through inserts, archives and restarts of several processes.
CountersExact == counters = [count |-> Cardinality(Active), last |-> Highest(Active)]

\* A message answers one that is there, was said before and is about the same
\* event (or is the position an agent takes back).
AnswersEarlier ==
    \A m \in msgs : m.role # "primary" =>
        \E o \in msgs : o.seq = m.reply /\ o.seq < m.seq
                        /\ (o.event = m.event \/ m.role = "correction")

\* The memory of a generation is bounded, and no position belongs to a message
\* that is gone.
ClaimsBounded ==
    /\ \A g \in 1 .. gen : Cardinality({k \in claims : k.gen = g}) <= Retained
    /\ \A k \in claims : \E m \in msgs : m.seq = k.message

\* A position is only taken back by something said later.
TakenBackLater ==
    \A m \in msgs : m.role = "correction" =>
        \A o \in msgs : o.seq = m.reply => o.event <= m.event

\* A message is only dropped when its agent already has one about the event
\* that is shown: the numbers of hidden messages do not get in the way.
DropsOnlyRepeats ==
    \A p \in Callers :
        At(p, "store") /\ Current(call[p]) /\ call'[p].pc # "store" /\ used' = used /\ msgs' = msgs
            => \E o \in Active : o.event = call[p].event /\ o.agent = call[p].msg.agent

\* A generator that was overtaken by a restart does not decide the status of
\* the new discussion.
StatusIsOwn == genStatus' # genStatus => call["cli"].gen = gen

\* "a replay reset starts a clean memory": a restart is carried out.
RestartsRun == ~refused

\* "An agent that takes a position must take it back when the facts move".
TakenBack ==
    \A k \in claims :
        ~k.open /\ (\A p \in Callers : call[p].pc = "idle") =>
            \E m \in msgs : m.role = "correction" /\ m.reply = k.message

=============================================================================
