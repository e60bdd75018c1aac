--------------------------- MODULE GenerationBudget ---------------------------
(***************************************************************************)
(* Spending on language generation (services/generation_policy.py,         *)
(* providers/language.py): the callers of one policy, the rooms, check the *)
(* budget, wait for a slot, reserve the call and are charged afterwards.   *)
(*                                                                         *)
(* Generation is enabled.  A request is its cache key.  The provider       *)
(* answers at any moment, with any usage, fails, or runs into the timeout. *)
(***************************************************************************)
EXTENDS Naturals, Sequences, FiniteSets, SequencesExt

CONSTANTS
    Callers, Keys,
    PerMinute, PerSession, Daily,   \* ai_max_calls_per_minute, ai_max_calls_per_session,
                                    \* ai_daily_token_budget
    Slots,                          \* ai_max_agents_per_event
    Entries, Ttl,                   \* CACHE_ENTRIES, CACHE_TTL_SECONDS
    Minute, Day,                    \* their length in moments of the clock
    Estimate, MaxUsage,             \* tokens: estimated, and reported at most
    MaxTime, MaxCalls               \* bounds: the clock, calls made

ASSUME BudgetAssumption ==
    /\ IsFiniteSet(Callers) /\ "none" \notin Keys
    /\ {PerMinute, PerSession, Daily, Slots, Entries, Ttl, Minute, Day} \subseteq Nat \ {0}
    /\ {Estimate, MaxUsage} \subseteq Nat \ {0} /\ {MaxTime, MaxCalls} \subseteq Nat

VARIABLES
    now,
    minute,            \* _minute_calls: the calls it has stamps of
    session,           \* _session_calls of the one session
    spent, day,        \* _tokens_spent, _token_day
    queue, calling,    \* waiters of the semaphore in their order, its holders
    cache,             \* _cache in its order: <<[key, at]>>
    key, asked,        \* of each caller: its request, when it asked
    made               \* the calls in their order, [key, at]; the key is a ghost

budget == <<minute, session, spent, day>>
request == <<key, asked>>
vars == <<now, budget, queue, calling, cache, request, made>>

None == "none"

Init ==
    /\ now = 0 /\ minute = {} /\ session = 0 /\ spent = 0 /\ day = 0
    /\ queue = <<>> /\ calling = {} /\ cache = <<>>
    /\ key = [c \in Callers |-> None] /\ asked = [c \in Callers |-> 0]
    /\ made = <<>>

(***************************************************************************)
(* The budget.  check prunes the window and starts a new day.              *)
(***************************************************************************)

Recent == {i \in minute : made[i].at + Minute > now}
SpentToday == IF day = now \div Day THEN spent ELSE 0

\* Mutant: the tokens are not looked at.
AffordableTokens == Cardinality(Recent) < PerMinute /\ session < PerSession
Affordable ==
    /\ Cardinality(Recent) < PerMinute
    /\ session < PerSession
    /\ SpentToday + Estimate <= Daily

\* A refusal before the day is looked at leaves the day as it was.
Checked ==
    /\ minute' = Recent
    /\ IF Cardinality(Recent) < PerMinute /\ session < PerSession
       THEN day' = now \div Day /\ spent' = SpentToday
       ELSE UNCHANGED <<day, spent>>

Reserve(c, window) ==
    /\ minute' = window \cup {Len(made) + 1} /\ session' = session + 1
    /\ calling' = calling \cup {c}
    /\ made' = Append(made, [key |-> key'[c], at |-> now])

RecordUsage(n) == day' = now \div Day /\ spent' = SpentToday + n

(***************************************************************************)
(* The cache: least recently used entries leave it.                        *)
(***************************************************************************)

Places(k) == {i \in DOMAIN cache : cache[i].key = k}
Entry(k) == CHOOSE i \in Places(k) : TRUE
Without(k) == IF Places(k) = {} THEN cache ELSE RemoveAt(cache, Entry(k))
Fresh(k) == Places(k) # {} /\ now - cache[Entry(k)].at <= Ttl

Stored(k, at) ==
    LET C == Append(Without(k), [key |-> k, at |-> at])
    IN  SubSeq(C, IF Len(C) > Entries THEN 2 ELSE 1, Len(C))

(***************************************************************************)
(* compose.                                                                *)
(***************************************************************************)

Idle(c) == key[c] = None

FromCache(c, k) ==
    /\ Idle(c) /\ Fresh(k)
    /\ cache' = Append(Without(k), cache[Entry(k)])
    /\ UNCHANGED <<now, budget, queue, calling, request, made>>

\* A stale entry is dropped by the lookup; then the budget decides.
Refused(c, k) ==
    /\ Idle(c) /\ ~Fresh(k) /\ ~Affordable
    /\ cache' = Without(k) /\ Checked
    /\ UNCHANGED <<now, session, queue, calling, request, made>>

\* A free slot is taken at once, otherwise the caller waits for one.
LetThrough(c, k) ==
    /\ Idle(c) /\ ~Fresh(k) /\ Affordable
    /\ Len(made) + Len(queue) < MaxCalls
    /\ cache' = Without(k)
    /\ key' = [key EXCEPT ![c] = k] /\ asked' = [asked EXCEPT ![c] = now]
    /\ day' = now \div Day /\ spent' = SpentToday
    /\ IF Cardinality(calling) < Slots /\ queue = <<>>
       THEN Reserve(c, Recent) /\ UNCHANGED queue
       ELSE /\ queue' = Append(queue, c) /\ minute' = Recent
            /\ UNCHANGED <<session, calling, made>>
    /\ UNCHANGED now

TakeSlot ==
    /\ queue # <<>> /\ Cardinality(calling) < Slots
    /\ queue' = Tail(queue)
    /\ UNCHANGED key
    /\ Reserve(Head(queue), minute)
    /\ UNCHANGED <<now, spent, day, cache, asked>>

Leave(c) == /\ calling' = calling \ {c}
            /\ key' = [key EXCEPT ![c] = None]

\* The entry is dated by the beginning of the request.
Answered(c, n) ==
    /\ c \in calling
    /\ Leave(c) /\ RecordUsage(n)
    /\ \/ cache' = Stored(key[c], asked[c])
       \/ UNCHANGED cache                      \* not acceptable
    /\ UNCHANGED <<now, minute, session, queue, asked, made>>

\* LanguageUnavailable, any other exception: the call stays charged.
Failed(c) ==
    /\ c \in calling
    /\ Leave(c)
    /\ UNCHANGED <<now, budget, queue, cache, asked, made>>

\* At any moment, for the provider may take any time.
TimedOut(c) ==
    /\ c \in calling
    /\ Leave(c)
    /\ UNCHANGED <<now, budget, queue, cache, asked, made>>

\* Cancelled while waiting for a slot.
Cancelled(c) ==
    /\ \E i \in DOMAIN queue : queue[i] = c /\ queue' = RemoveAt(queue, i)
    /\ key' = [key EXCEPT ![c] = None]
    /\ UNCHANGED <<now, budget, calling, cache, asked, made>>

Tick ==
    /\ now < MaxTime /\ now' = now + 1
    /\ UNCHANGED <<budget, queue, calling, cache, request, made>>

Next ==
    \/ \E c \in Callers, k \in Keys : FromCache(c, k) \/ Refused(c, k) \/ LetThrough(c, k)
    \/ \E c \in Callers : \/ \E n \in 1 .. MaxUsage : Answered(c, n)
                          \/ Failed(c) \/ TimedOut(c) \/ Cancelled(c)
    \/ TakeSlot \/ Tick

Spec == Init /\ [][Next]_vars

\* The semaphore wakes its waiters in order, a timeout fires; the provider may
\* never answer.
FairSpec ==
    /\ Spec /\ WF_vars(TakeSlot)
    /\ \A c \in Callers : WF_vars(TimedOut(c))

-----------------------------------------------------------------------------

TypeOK ==
    /\ {now, session, spent, day} \subseteq Nat
    /\ made \in Seq([key : Keys, at : 0 .. now]) /\ minute \subseteq DOMAIN made
    /\ key \in [Callers -> Keys \cup {None}] /\ asked \in [Callers -> 0 .. now]
    /\ queue \in Seq(Callers) /\ cache \in Seq([key : Keys, at : 0 .. now])
    /\ calling \subseteq Callers /\ Cardinality(calling) <= Slots
    /\ Len(cache) <= Entries

\* A caller with a request waits for a slot, once, or holds one.
Busy == {c \in Callers : key[c] # None}
Waiting == {queue[i] : i \in DOMAIN queue}
QueueExact ==
    /\ Busy = calling \cup Waiting /\ calling \cap Waiting = {}
    /\ \A i, j \in DOMAIN queue : queue[i] = queue[j] => i = j

\* Those who wait for a slot have been checked and not yet counted: a limit is
\* exceeded by less than the number of callers, however the calls overlap.
WithWaiters(n) == n - 1 + Cardinality(Callers)

LastMinute == {i \in DOMAIN made : made[i].at + Minute > now}

CallsNear ==
    /\ Cardinality(LastMinute) <= WithWaiters(PerMinute)
    /\ session <= WithWaiters(PerSession)

\* Usage is charged when it is known: every caller may have been let through
\* by the tokens that were left to the last of them.
TokensNear == spent = 0 \/ spent + Estimate <= Daily + Cardinality(Callers) * MaxUsage

\* The budget holds, up to what callers that overlap may add.
BudgetHeld == TypeOK /\ QueueExact /\ CallsNear /\ TokensNear

\* "Bounded call and token accounting with a rolling one-minute window".
MinuteBounded == Cardinality(LastMinute) <= PerMinute

\* "Identical conclusions and facts must not be paid for twice".
PaidOnce == \A c, d \in calling : c # d => key[c] # key[d]

\* A room always gets its sentence: no caller waits for ever for a slot or for
\* a provider that does not answer.
AlwaysSaid == \A c \in Callers : key[c] # None ~> key[c] = None

=============================================================================
