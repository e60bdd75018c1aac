--------------------------- MODULE ProviderClient ---------------------------
(***************************************************************************)
(* The REST client of the timing provider and the token it shares with the *)
(* live connection (providers/openf1.py, OpenF1RestClient._get and         *)
(* OpenF1AuthService; providers/retry.py).                                 *)
(*                                                                         *)
(* Coroutines of one process call one client.  Every await of a call is a  *)
(* step here: the throttle, which sleeps inside its lock, the token, which *)
(* may have to be asked for inside another, the request and the pause      *)
(* before a repeat.  Rows are the time at which the provider read them.    *)
(***************************************************************************)
EXTENDS Naturals, FiniteSets

CONSTANTS
    Callers,    \* coroutines that may be in a call
    Keys,       \* endpoint with its filters
    Attempts,   \* retry_attempts
    Interval,   \* min_request_interval_seconds
    Base,       \* retry_base_delay_seconds
    LongestDelay, \* the 5.0 seconds of _retry_delay and bounded_retry_delay
    Ttls,       \* cache_ttl_seconds of the endpoints; zero in live_get
    Capacity,   \* the 512 entries of the cache
    Buffer,     \* openf1_token_refresh_buffer_seconds
    Lifetime,   \* expires_in of a new token
    MaxTime,    \* bound on the time that passes while nobody waits for it
    LastStart   \* bound on the time at which a call begins

Free == "free"
CallersAssumption == IsFiniteSet(Callers) /\ Free \notin Callers
BoundsAssumption ==
    /\ Attempts \in Nat \ {0} /\ Capacity \in Nat \ {0} /\ Lifetime \in Nat \ {0}
    /\ {Interval, Base, LongestDelay, Buffer, MaxTime, LastStart} \cup Ttls \subseteq Nat

VARIABLES
    now,        \* time.monotonic()
    next,       \* _next_request_at
    pacing,     \* holder of _request_lock, or Free
    cache,      \* _cache: a function on the keys that have an entry
    required,   \* _authentication_required
    expires,    \* _expires_at_monotonic of the token, zero when there is none
    refreshing, \* holder of _refresh_lock, or Free
    call        \* per caller, where its call is

vars == <<now, next, pacing, cache, required, expires, refreshing, call>>

Idle == [at |-> "idle"]

Lower(a, b) == IF a <= b THEN a ELSE b
Higher(a, b) == IF a >= b THEN a ELSE b

Init ==
    /\ now = 0 /\ next = 0
    /\ pacing = Free /\ refreshing = Free
    /\ cache = [k \in {} |-> 0]
    /\ required = FALSE /\ expires = 0
    /\ call = [c \in Callers |-> Idle]

At(c, place) == call[c].at = place
Goto(c, place) == call' = [call EXCEPT ![c].at = place]

(***************************************************************************)
(* The answer to a call: the rows that it returns, or a failure.           *)
(***************************************************************************)
Return(c, ttl, began, rows) ==
    call' = [call EXCEPT ![c] = [at |-> "answered", ttl |-> ttl, began |-> began, rows |-> rows]]

Fail(c) == call' = [call EXCEPT ![c] = [at |-> "failed"]]

Done(c) ==
    /\ call[c].at \in {"answered", "failed"}
    /\ call' = [call EXCEPT ![c] = Idle]
    /\ UNCHANGED <<now, next, pacing, cache, required, expires, refreshing>>

(***************************************************************************)
(* The cache.  A full one first drops what is out of date, and then the    *)
(* entry that would be out of date first; a call of live_get looks past    *)
(* it but makes room all the same.                                         *)
(***************************************************************************)
Keep(S) == [k \in S |-> cache[k]]

Current == {k \in DOMAIN cache : cache[k].until > now}

Full(S) == Cardinality(S) >= Capacity

Roomy ==
    IF ~Full(DOMAIN cache) THEN {DOMAIN cache}
    ELSE IF ~Full(Current) THEN {Current}
    ELSE {Current \ {k} : k \in {j \in Current :
                                   \A i \in Current : cache[j].until <= cache[i].until}}

Hit(k, ttl, S) == ttl # 0 /\ k \in S /\ cache[k].until > now

Begin(c) ==
    /\ At(c, "idle") /\ now <= LastStart
    /\ \E k \in Keys, ttl \in Ttls, S \in Roomy :
         /\ cache' = Keep(S)
         /\ IF Hit(k, ttl, S) THEN Return(c, ttl, now, cache[k].rows)
            ELSE call' = [call EXCEPT ![c] = [at |-> "throttle", key |-> k, ttl |-> ttl,
                                              began |-> now, attempt |-> 0, again |-> FALSE, wake |-> 0,
                                              sent |-> 0]]
    /\ UNCHANGED <<now, next, pacing, required, expires, refreshing>>

(***************************************************************************)
(* _throttle: a coroutine waits for its slot while it holds the lock, so   *)
(* the next one measures its own wait from the slot just taken.            *)
(***************************************************************************)

EnterThrottle(c) ==
    /\ At(c, "throttle") /\ pacing = Free
    /\ pacing' = c
    /\ call' = [call EXCEPT ![c].at = "slot", ![c].wake = Higher(next, now)]
    /\ UNCHANGED <<now, next, cache, required, expires, refreshing>>

\* A repeat after a 401 carries the token it already has.  Any other request
\* asks for one if the provider has ever wanted it.
AfterSlot(c) ==
    IF call[c].again \/ ~required
    THEN call' = [call EXCEPT ![c].at = "sent", ![c].sent = now]
    ELSE Goto(c, "token")

TakeSlot(c) ==
    /\ At(c, "slot") /\ now >= call[c].wake
    /\ next' = now + Interval
    /\ pacing' = Free
    /\ AfterSlot(c)
    /\ UNCHANGED <<now, cache, required, expires, refreshing>>

(***************************************************************************)
(* get_access_token: a token that has more than the buffer left is shared; *)
(* otherwise one caller asks for a new one, and whoever waited for it      *)
(* looks again before asking.                                              *)
(***************************************************************************)
TokenGood == expires > now + Buffer

HasToken(c) ==
    IF call[c].again THEN Goto(c, "throttle")
    ELSE call' = [call EXCEPT ![c].at = "sent", ![c].sent = now]

ShareToken(c) ==
    /\ At(c, "token") /\ TokenGood
    /\ HasToken(c)
    /\ UNCHANGED <<now, next, pacing, cache, required, expires, refreshing>>

WaitToken(c) ==
    /\ At(c, "token") /\ ~TokenGood
    /\ Goto(c, "refresh")
    /\ UNCHANGED <<now, next, pacing, cache, required, expires, refreshing>>

LookAgainNever == FALSE
LookAgain == TokenGood

EnterRefresh(c) ==
    /\ At(c, "refresh") /\ refreshing = Free
    /\ IF LookAgain
       THEN HasToken(c) /\ UNCHANGED refreshing
       ELSE Goto(c, "asking") /\ refreshing' = c
    /\ UNCHANGED <<now, next, pacing, cache, required, expires>>

NewToken(c) ==
    /\ At(c, "asking")
    /\ expires' = now + Lifetime
    /\ refreshing' = Free
    /\ HasToken(c)
    /\ UNCHANGED <<now, next, pacing, cache, required>>

\* OpenF1AuthUnavailable leaves _get.
NoToken(c) ==
    /\ At(c, "asking")
    /\ refreshing' = Free
    /\ Fail(c)
    /\ UNCHANGED <<now, next, pacing, cache, required, expires>>

(***************************************************************************)
(* The provider's answer.                                                  *)
(***************************************************************************)
RetryDelay(attempt) == Lower(LongestDelay, Base * 2^attempt)

\* bounded_retry_delay: at least the client's own delay, at most the longest.
Store(k, rows, ttl) ==
    [j \in DOMAIN cache \cup {k} |->
        IF j = k THEN [until |-> now + ttl, rows |-> rows] ELSE cache[j]]

Answer(c) ==
    /\ At(c, "sent")
    /\ \E rows \in call[c].sent..now :
         /\ cache' = IF call[c].ttl = 0 THEN cache ELSE Store(call[c].key, rows, call[c].ttl)
         /\ Return(c, call[c].ttl, call[c].began, rows)
    /\ UNCHANGED <<now, next, pacing, required, expires, refreshing>>

\* 401: once within an attempt the request is repeated with a token.
Unauthorized(c) ==
    /\ At(c, "sent")
    /\ IF call[c].again
       THEN Fail(c) /\ UNCHANGED required
       ELSE /\ required' = TRUE
            /\ call' = [call EXCEPT ![c].at = "token", ![c].again = TRUE]
    /\ UNCHANGED <<now, next, pacing, cache, expires, refreshing>>

\* A network error, or one of 429, 500, 502, 503 and 504.
Retry(c) ==
    /\ At(c, "sent")
    /\ IF call[c].attempt + 1 >= Attempts THEN Fail(c)
       ELSE \E requested \in {0, LongestDelay} :
              call' = [call EXCEPT ![c].at = "pause", ![c].again = FALSE,
                                   ![c].attempt = @ + 1,
                                   ![c].wake = now + Lower(LongestDelay,
                                                 Higher(requested, RetryDelay(call[c].attempt)))]
    /\ UNCHANGED <<now, next, pacing, cache, required, expires, refreshing>>

\* Another status, or a body that is not a list of objects.
Refuse(c) ==
    /\ At(c, "sent")
    /\ Fail(c)
    /\ UNCHANGED <<now, next, pacing, cache, required, expires, refreshing>>

Resume(c) ==
    /\ At(c, "pause") /\ now >= call[c].wake
    /\ Goto(c, "throttle")
    /\ UNCHANGED <<now, next, pacing, cache, required, expires, refreshing>>

Sleeping(c) == (At(c, "slot") \/ At(c, "pause")) /\ now < call[c].wake

Tick ==
    /\ now < MaxTime \/ \E c \in Callers : Sleeping(c)
    /\ now' = now + 1
    /\ UNCHANGED <<next, pacing, cache, required, expires, refreshing, call>>

Throttle(c) == EnterThrottle(c) \/ TakeSlot(c)
Token(c) == ShareToken(c) \/ WaitToken(c) \/ EnterRefresh(c) \/ NewToken(c) \/ NoToken(c)
Response(c) == Answer(c) \/ Unauthorized(c) \/ Retry(c) \/ Refuse(c)

Next ==
    \/ Tick
    \/ \E c \in Callers : \/ Begin(c) \/ Done(c)
                          \/ Throttle(c) \/ Token(c) \/ Response(c) \/ Resume(c)

Spec == Init /\ [][Next]_vars

\* Every coroutine whose awaited call, lock or sleep is over goes on, requests
\* and token requests have a timeout, and time passes.  The locks of asyncio
\* are handed over in the order of arrival.
FairSpec ==
    /\ Spec
    /\ WF_vars(Tick)
    /\ \A c \in Callers : /\ SF_vars(EnterThrottle(c)) /\ WF_vars(TakeSlot(c))
                          /\ WF_vars(ShareToken(c) \/ WaitToken(c))
                          /\ SF_vars(EnterRefresh(c))
                          /\ WF_vars(NewToken(c) \/ NoToken(c))
                          /\ WF_vars(Response(c)) /\ WF_vars(Resume(c))

(***************************************************************************)
(* Properties.                                                             *)
(***************************************************************************)
Places == {"idle", "answered", "failed", "throttle", "slot", "token", "refresh", "asking",
           "sent", "pause"}

TypeOK ==
    /\ now \in Nat /\ next \in 0..(now + Interval)
    /\ pacing \in Callers \cup {Free} /\ refreshing \in Callers \cup {Free}
    /\ DOMAIN cache \subseteq Keys
    /\ \A k \in DOMAIN cache : cache[k].until \in Nat /\ cache[k].rows \in 0..now
    /\ required \in BOOLEAN /\ expires \in 0..(now + Lifetime)
    /\ \A c \in Callers : call[c].at \in Places

\* live_get never answers from the cache: what it returns was read by the
\* provider after the call began, whoever else is filling the same entry.
LiveIsFresh ==
    \A c \in Callers :
        At(c, "answered") /\ call[c].ttl = 0 => call[c].rows >= call[c].began

\* However many calls overlap, and whatever they repeat, slots for requests
\* are an interval apart.
Spaced == [][\A c \in Callers : At(c, "slot") /\ call'[c].at # "slot" => now >= next]_vars

\* A new token is asked for only when the one at hand has run down: callers
\* that find it so together share one refresh.
SharedRefresh ==
    [][\A c \in Callers : At(c, "refresh") /\ call'[c].at = "asking" => ~TokenGood]_vars

=============================================================================
