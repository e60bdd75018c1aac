---------------------------- MODULE StandingsCache ----------------------------
(***************************************************************************)
(* The championship standings (services/championship.py): three documents  *)
(* built at once from the providers, kept in Redis for a while, and a copy *)
(* of each that answers while the providers do not.                        *)
(*                                                                         *)
(* Several processes share Redis; a refresh is serialised in each process  *)
(* only.  What the providers publish is a version; lifetimes are counted   *)
(* down by Tick.                                                           *)
(***************************************************************************)
EXTENDS Naturals, FiniteSets

CONSTANTS
    Requests,      \* requests that may be in progress at once
    Procs,         \* processes
    Names,         \* the documents: drivers, constructors, summary
    Ttls,          \* live_ttl_seconds, normal_ttl_seconds, in moments
    StaleFor,      \* how long a restored copy answers
    MaxVersion, MaxOutages, MaxFaults, MaxFinishes   \* bounds

CacheAssumption ==
    /\ Ttls # {} /\ Ttls \subseteq Nat \ {0} /\ StaleFor \in Nat \ {0}
    /\ {MaxVersion, MaxOutages, MaxFaults, MaxFinishes} \subseteq Nat

VARIABLES
    world,     \* what the providers have published
    up,        \* do they answer
    cached,    \* the current documents in Redis
    last,      \* the last available ones
    lock,      \* _refresh_lock of each process
    call,      \* the requests
    seen,      \* ghost: the latest version of each document that was answered
    used       \* how often each bounded action was taken

redis == <<cached, last>>
vars == <<world, up, redis, lock, call, seen, used>>

Nobody == "nobody"
MaxTtl == CHOOSE t \in Ttls : \A o \in Ttls : o <= t

\* No document: nothing lives for 0 moments.
Gone == [ver |-> 0, stale |-> FALSE, left |-> 0, age |-> 0]
Idle == [pc |-> "idle", proc |-> Nobody, name |-> Nobody, built |-> Gone, todo |-> {}, answer |-> Gone]

Init ==
    /\ world = 1 /\ up = TRUE
    /\ cached = [n \in Names |-> Gone] /\ last = [n \in Names |-> Gone]
    /\ lock = [p \in Procs |-> Nobody]
    /\ call = [r \in Requests |-> Idle]
    /\ seen = [n \in Names |-> 0]
    /\ used = [outages |-> 0, faults |-> 0, finishes |-> 0]

Use(what, n) == used[what] < n /\ used' = [used EXCEPT ![what] = @ + 1]
There(n) == cached[n].left > 0

To(r, c) == call' = [call EXCEPT ![r] = c]
Do(r, pc) == To(r, [call[r] EXCEPT !.pc = pc])

\* An answer, and the end of the request.
Answer(r, value) ==
    /\ To(r, [Idle EXCEPT !.answer = value])
    /\ seen' = IF value.ver > seen[call[r].name] THEN [seen EXCEPT ![call[r].name] = value.ver] ELSE seen

(***************************************************************************)
(* drivers, constructors, summary.  A read that fails finds nothing.       *)
(***************************************************************************)

Ask(r) ==
    /\ call[r].pc = "idle"
    /\ \E p \in Procs, n \in Names : To(r, [Idle EXCEPT !.pc = "read", !.proc = p, !.name = n])
    /\ UNCHANGED <<world, up, redis, lock, seen, used>>

Read(r) ==
    /\ call[r].pc = "read"
    /\ \/ /\ There(call[r].name) /\ Answer(r, cached[call[r].name]) /\ UNCHANGED used
       \/ /\ ~There(call[r].name) /\ UNCHANGED used
          /\ Do(r, "wait") /\ UNCHANGED seen
       \/ /\ There(call[r].name) /\ Use("faults", MaxFaults)
          /\ Do(r, "wait") /\ UNCHANGED seen
    /\ UNCHANGED <<world, up, redis, lock>>

LockFree(r) == lock[call[r].proc] = Nobody

Lock(r) ==
    /\ call[r].pc = "wait" /\ LockFree(r)
    /\ lock' = [lock EXCEPT ![call[r].proc] = r]
    /\ Do(r, "check")
    /\ UNCHANGED <<world, up, redis, seen, used>>

Unlocked(r) == lock' = [lock EXCEPT ![call[r].proc] = Nobody]

\* Another request has refreshed meanwhile: the document is read again.
Check(r) ==
    /\ call[r].pc = "check"
    /\ IF \A n \in Names : There(n)
       THEN Do(r, "again") /\ Unlocked(r)
       ELSE Do(r, "build") /\ UNCHANGED lock
    /\ UNCHANGED <<world, up, redis, seen, used>>

\* _build_snapshot: the rows of nine calls to the providers.
Build(r) ==
    /\ call[r].pc = "build" /\ up
    /\ \E ttl \in Ttls :
          To(r, [call[r] EXCEPT !.pc = "write", !.todo = Names,
                                !.built = [ver |-> world, stale |-> FALSE, left |-> ttl, age |-> 0]])
    /\ UNCHANGED <<world, up, redis, lock, seen, used>>

\* Neither provider has standings.
BuildFails(r) ==
    /\ call[r].pc = "build" /\ ~up
    /\ To(r, [call[r] EXCEPT !.pc = "restore", !.todo = Names])
    /\ UNCHANGED <<world, up, redis, lock, seen, used>>

\* _write_cached: the document, then the copy that stays for a week.
Write(r) ==
    /\ call[r].pc = "write"
    /\ \E n \in call[r].todo :
          /\ To(r, [call[r] EXCEPT !.todo = @ \ {n}])
          /\ \/ /\ cached' = [cached EXCEPT ![n] = call[r].built]
                /\ last' = [last EXCEPT ![n] = call[r].built] /\ UNCHANGED used
             \/ /\ cached' = [cached EXCEPT ![n] = call[r].built]
                /\ Use("faults", MaxFaults) /\ UNCHANGED last
             \/ Use("faults", MaxFaults) /\ UNCHANGED redis
    /\ UNCHANGED <<world, up, lock, seen>>

Written(r) ==
    /\ call[r].pc = "write" /\ call[r].todo = {}
    /\ Unlocked(r)
    /\ Answer(r, call[r].built)
    /\ UNCHANGED <<world, up, redis, used>>

\* Mutant: the copy is not marked.
CopyUnmarked(d) == [d EXCEPT !.left = StaleFor]
Copy(d) == [d EXCEPT !.stale = TRUE, !.left = StaleFor]

\* _restore_stale: the copies that are there.
Restore(r) ==
    /\ call[r].pc = "restore"
    /\ \E n \in call[r].todo :
          /\ To(r, [call[r] EXCEPT !.todo = @ \ {n}])
          /\ cached' = IF last[n] = Gone THEN cached ELSE [cached EXCEPT ![n] = Copy(last[n])]
    /\ UNCHANGED <<world, up, last, lock, seen, used>>

Restored(r) ==
    /\ call[r].pc = "restore" /\ call[r].todo = {}
    /\ IF \E n \in Names : last[n] # Gone THEN Do(r, "again") ELSE To(r, Idle)
    /\ Unlocked(r)
    /\ UNCHANGED <<world, up, redis, seen, used>>

\* The document, or an error: it is gone by now or was not restored.
ReadAgain(r) ==
    /\ call[r].pc = "again"
    /\ IF There(call[r].name) THEN Answer(r, cached[call[r].name])
       ELSE To(r, Idle) /\ UNCHANGED seen
    /\ UNCHANGED <<world, up, redis, lock, used>>

(***************************************************************************)
(* The events of a session, the providers and time.                        *)
(***************************************************************************)

\* consume: SESSION_FINISH and SESSION_RESULT.
Invalidate ==
    /\ Use("finishes", MaxFinishes)
    /\ cached' = [n \in Names |-> Gone]
    /\ UNCHANGED <<world, up, last, lock, call, seen>>

Published ==
    /\ world < MaxVersion /\ world' = world + 1
    /\ UNCHANGED <<up, redis, lock, call, seen, used>>

Outage ==
    /\ \/ up /\ Use("outages", MaxOutages)
       \/ ~up /\ UNCHANGED used
    /\ up' = ~up
    /\ UNCHANGED <<world, redis, lock, call, seen>>

\* A build is written before a moment has passed.
Aged(d) == IF d.age > MaxTtl THEN d ELSE [d EXCEPT !.age = @ + 1]

\* Mutant: a copy does not expire.
ExpiredFresh(d) == IF d.stale THEN d ELSE IF d.left > 1 THEN [Aged(d) EXCEPT !.left = @ - 1] ELSE Gone
Expired(d) == IF d.left > 1 THEN [Aged(d) EXCEPT !.left = @ - 1] ELSE Gone

Tick ==
    /\ \A r \in Requests : call[r].pc \notin {"write", "restore"}
    /\ cached' = [n \in Names |-> Expired(cached[n])]
    /\ last' = [n \in Names |-> IF last[n] = Gone THEN Gone ELSE Aged(last[n])]
    /\ UNCHANGED <<world, up, lock, call, seen, used>>

Steps(r) == Read(r) \/ Lock(r) \/ Check(r) \/ Build(r) \/ BuildFails(r) \/ Write(r) \/ Written(r)
            \/ Restore(r) \/ Restored(r) \/ ReadAgain(r)

Next == (\E r \in Requests : Ask(r) \/ Steps(r)) \/ Invalidate \/ Published \/ Outage \/ Tick

Spec == Init /\ [][Next]_vars

\* Requests are served and time passes; asyncio locks are taken in turn.
FairSpec == Spec /\ WF_vars(Tick) /\ \A r \in Requests : SF_vars(Steps(r))

-----------------------------------------------------------------------------

TypeOK ==
    /\ world \in 1 .. MaxVersion /\ up \in BOOLEAN
    /\ \A n \in Names : cached[n].ver \in 0 .. world /\ last[n].ver \in 0 .. world
    /\ \A n \in Names : cached[n].left <= MaxTtl \/ cached[n].stale
    /\ \A r \in Requests :
          call[r].pc \in {"check", "build", "write", "restore"} => lock[call[r].proc] = r

\* An answer that is not marked stale was built at most a lifetime ago: copies
\* come back marked, however often the providers fail and recover.
StaleIsMarked == \A r \in Requests : call[r].answer.stale \/ call[r].answer.age <= MaxTtl

\* A request is never answered with an older version than one was before, as
\* long as one process refreshes and Redis answers.
AnswersNewer ==
    \A r \in Requests :
        call[r].name \in Names /\ call'[r].pc = "idle" /\ call'[r].answer # Gone
            => call'[r].answer.ver >= seen[call[r].name]

\* What Redis holds is what the providers published.
Settled == \A n \in Names : There(n) => ~cached[n].stale /\ cached[n].ver = world

=============================================================================
