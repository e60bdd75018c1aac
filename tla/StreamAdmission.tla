--------------------------- MODULE StreamAdmission ---------------------------
(***************************************************************************)
(* Admission of requests and streams: the token bucket and the leases that *)
(* Redis keeps (services/rate_limits.py) and the middleware that holds a   *)
(* lease while a stream is open (api/rate_limits.py).                      *)
(*                                                                         *)
(* A request is its token.  A command is on its way to Redis until it is   *)
(* applied, at once or after the middleware gave up waiting for it; its    *)
(* answer may be lost.  The clocks of Redis and of the processes advance   *)
(* together; a moment is the unit of both.                                 *)
(***************************************************************************)
EXTENDS Naturals, FiniteSets, FiniteSetTheorems, TLAPS

CONSTANTS
    Requests,    \* requests of the stream category, of all processes
    Capacity,    \* rate_limit_stream_capacity
    Ttl,         \* rate_limit_stream_ttl_seconds
    Burst, Rate, \* the token bucket of the category: its size, tokens per moment
    MaxTime,     \* bound on the clock
    MaxLost      \* bound on commands and answers that are lost

ASSUME RequestsAssumption == IsFiniteSet(Requests)
ASSUME LimitsAssumption ==
    /\ Capacity \in Nat \ {0} /\ Ttl \in Nat \ {0}
    /\ Burst \in Nat \ {0} /\ Rate \in Nat
    /\ MaxTime \in Nat /\ MaxLost \in Nat

VARIABLES
    now,
    tokens, updated,   \* the bucket
    admitted,          \* ghost: requests the bucket has let through
    expiry,            \* the sorted set of leases; 0: no lease
    commands,          \* [op, token] on their way to Redis
    answer,            \* what Redis answered to the request's last command
    pc, deadline, began,   \* the middleware of each request
    lost

redis == <<tokens, updated, expiry>>
middleware == <<pc, deadline, began>>
vars == <<now, redis, admitted, commands, answer, middleware, lost>>

NoLease == 0
None == "none"

Smaller(a, b) == IF a < b THEN a ELSE b

Init ==
    /\ now = 1
    /\ tokens = Burst /\ updated = 1 /\ admitted = 0
    /\ expiry = [r \in Requests |-> NoLease] /\ commands = {}
    /\ answer = [r \in Requests |-> None]
    /\ pc = [r \in Requests |-> "new"]
    /\ deadline = [r \in Requests |-> 0] /\ began = [r \in Requests |-> 0]
    /\ lost = 0

Alive(r) == expiry[r] > now
Full == Cardinality({r \in Requests : Alive(r)}) >= Capacity

Command(op, r) == [op |-> op, token |-> r]
Go(r, where) == pc' = [pc EXCEPT ![r] = where]

(***************************************************************************)
(* Redis.                                                                  *)
(***************************************************************************)

\* The bucket as it is now.
Refilled == Smaller(Burst, tokens + (now - updated) * Rate)

\* When the bucket was last refilled.
RefilledAt(allowed) == now

Renewable(r) == Alive(r)

Acquirable(r) == ~Alive(r) /\ ~Full

\* The script of acquire, renew and release; expired leases are gone.
Granted(c) == IF c.op = "acquire" THEN Acquirable(c.token) ELSE Renewable(c.token)

Apply(c) ==
    /\ c \in commands /\ commands' = commands \ {c}
    /\ IF c.op = "release"
       THEN expiry' = [expiry EXCEPT ![c.token] = NoLease] /\ UNCHANGED answer
       ELSE /\ expiry' = IF Granted(c) THEN [expiry EXCEPT ![c.token] = now + Ttl] ELSE expiry
            /\ answer' = IF <<pc[c.token], c.op>> \in {<<"asking", "acquire">>, <<"renewing", "renew">>}
                         THEN [answer EXCEPT ![c.token] = IF Granted(c) THEN "yes" ELSE "no"]
                         ELSE answer
    /\ UNCHANGED <<now, tokens, updated, admitted, middleware, lost>>

Lose(c) ==
    /\ c \in commands /\ lost < MaxLost /\ lost' = lost + 1
    /\ commands' = commands \ {c}
    /\ UNCHANGED <<now, redis, admitted, answer, middleware>>

(***************************************************************************)
(* The middleware: __call__, _stream.                                      *)
(***************************************************************************)

\* The fence is set before the lease is asked for.
Arrive(r) ==
    /\ pc[r] = "new"
    /\ LET allowed == Refilled >= 1
       IN  /\ tokens' = IF allowed THEN Refilled - 1 ELSE Refilled
           /\ updated' = RefilledAt(allowed)
           /\ admitted' = IF allowed THEN admitted + 1 ELSE admitted
           /\ Go(r, IF allowed THEN "asking" ELSE "over")
           /\ deadline' = IF allowed THEN [deadline EXCEPT ![r] = now + Ttl] ELSE deadline
           /\ commands' = IF allowed THEN commands \cup {Command("acquire", r)} ELSE commands
    /\ UNCHANGED <<now, expiry, answer, began, lost>>

\* The response generator is gone; the lease is given back.
GiveBack(r) == Go(r, "over") /\ commands' = commands \cup {Command("release", r)}

Asked(r) ==
    /\ pc[r] = "asking"
    /\ IF answer[r] = "yes" THEN Go(r, "open") /\ UNCHANGED commands
       ELSE \* no answer in time: an error, and a release in case it is granted late
            GiveBack(r)
    /\ answer' = [answer EXCEPT ![r] = None]
    /\ UNCHANGED <<now, redis, admitted, deadline, began, lost>>

Renew(r) ==
    /\ pc[r] = "open" /\ now < deadline[r] /\ began[r] # now
    /\ began' = [began EXCEPT ![r] = now]
    /\ Go(r, "renewing") /\ commands' = commands \cup {Command("renew", r)}
    /\ UNCHANGED <<now, redis, admitted, answer, deadline, lost>>

Confirmed(r) == began[r] + Ttl

Renewed(r) ==
    /\ pc[r] = "renewing"
    /\ CASE answer[r] = "yes" -> /\ deadline' = [deadline EXCEPT ![r] = Confirmed(r)]
                                 /\ Go(r, "open")
         [] answer[r] = "no" -> Go(r, "ending") /\ UNCHANGED deadline
         [] OTHER -> Go(r, "open") /\ UNCHANGED deadline
    /\ answer' = [answer EXCEPT ![r] = None]
    /\ UNCHANGED <<now, redis, admitted, commands, began, lost>>

\* The application returns, the client disconnects, or the fence is reached.
Ends(r) ==
    /\ pc[r] \in {"open", "renewing"}
    /\ Go(r, "ending")
    /\ UNCHANGED <<now, redis, admitted, commands, answer, deadline, began, lost>>

\* finally: the application finishes in time and the lease is released.
Release(r) ==
    /\ pc[r] = "ending"
    /\ GiveBack(r)
    /\ UNCHANGED <<now, redis, admitted, answer, deadline, began, lost>>

\* The application does not finish in time: its lease is left to expire.
\* Mutant: it is released.
LingerReleased(r) == Go(r, "lingering") /\ commands' = commands \cup {Command("release", r)}
Linger(r) == Go(r, "lingering") /\ UNCHANGED commands

Uncooperative(r) ==
    /\ pc[r] = "ending"
    /\ Linger(r)
    /\ UNCHANGED <<now, redis, admitted, answer, deadline, began, lost>>

\* It finishes, or its process dies, whatever the request was doing.
Vanish(r) ==
    /\ pc[r] \notin {"new", "over"}
    /\ Go(r, "over") /\ answer' = [answer EXCEPT ![r] = None]
    /\ UNCHANGED <<now, redis, admitted, commands, deadline, began, lost>>

Tick ==
    /\ now < MaxTime /\ now' = now + 1
    /\ UNCHANGED <<redis, admitted, commands, answer, middleware, lost>>

Next ==
    \/ \E r \in Requests : \/ Arrive(r) \/ Asked(r) \/ Renew(r) \/ Renewed(r) \/ Ends(r)
                           \/ Release(r) \/ Uncooperative(r) \/ Vanish(r)
    \/ \E c \in commands : Apply(c) \/ Lose(c)
    \/ Tick

Spec == Init /\ [][Next]_vars

-----------------------------------------------------------------------------

TypeOK ==
    /\ now \in Nat /\ tokens \in 0 .. Burst /\ updated \in Nat /\ admitted \in Nat /\ lost \in Nat
    /\ expiry \in [Requests -> Nat] /\ deadline \in [Requests -> Nat] /\ began \in [Requests -> Nat]
    /\ pc \in [Requests -> {"new", "asking", "open", "renewing", "ending", "lingering", "over"}]
    /\ answer \in [Requests -> {"none", "yes", "no"}]
    /\ commands \subseteq [op : {"acquire", "renew", "release"}, token : Requests]

\* fenced_send lets the application of a request send.
MaySend(r) == pc[r] \in {"open", "renewing", "ending", "lingering"} /\ now < deadline[r]

\* However late answers are, whatever is lost and whoever dies: no more streams
\* send than Redis has leases for.
WithinCapacity == Cardinality({r \in Requests : MaySend(r)}) <= Capacity

\* A stream that sends holds a lease that outlives its fence.
LeaseCovers == \A r \in Requests : MaySend(r) => expiry[r] >= deadline[r]

\* The requests let through since the start: the bucket and what has flowed in.
Budgeted == admitted <= Burst + Rate * (now - 1)

\* Slots and tokens are held: the streams that send are covered by leases and within
\* the capacity, and no more requests are let through than the bucket had.
SlotsHeld == TypeOK /\ WithinCapacity /\ LeaseCovers /\ Budgeted

\* A lease that was given back or has expired does not come back, except for an
\* acquisition that is applied late.
KeepsDead ==
    \A r \in Requests :
        ~Alive(r) /\ Command("acquire", r) \notin commands => ~(expiry'[r] > now')

NotRevived == [][KeepsDead]_vars

-----------------------------------------------------------------------------
(***************************************************************************)
(* Proofs, for any number of requests, any capacity and any loss of        *)
(* commands.  IInv says what the answers and the commands on their way     *)
(* mean: an answer that a request still waits for has moved its lease, and *)
(* only a request that is over gives one back.                             *)
(***************************************************************************)

\* No lease and no fence reaches further than a lifetime from now.
Bounded == \A r \in Requests : expiry[r] <= now + Ttl /\ deadline[r] <= now + Ttl

\* A lifetime that is being renewed began in the past.
BeganBefore == \A r \in Requests : began[r] <= now

\* What the answer a request waits for says of its lease.
AnswersMean == \A r \in Requests : answer[r] = "yes" =>
    /\ pc[r] = "asking" => expiry[r] >= deadline[r]
    /\ pc[r] = "renewing" => expiry[r] >= began[r] + Ttl

\* A request that waits for no answer has none.
Unanswered == \A r \in Requests : pc[r] \in {"new", "open"} => answer[r] = None

\* An application that runs has a lease up to its fence.
Covered == \A r \in Requests :
    pc[r] \in {"open", "renewing", "ending", "lingering"} => expiry[r] >= deadline[r]

\* A lease is given back by a request that is over.
GivenBack == \A r \in Requests : Command("release", r) \in commands => pc[r] = "over"

Leases == {r \in Requests : Alive(r)}

\* Redis has no more leases than there are places.
LeasesFit == Cardinality(Leases) <= Capacity

\* What was let through and what is left in the bucket came from somewhere.
BucketFilled == updated >= 1 /\ updated <= now /\ admitted + tokens <= Burst + Rate * (updated - 1)

IInv ==
    /\ TypeOK /\ Bounded /\ BeganBefore /\ AnswersMean /\ Unanswered /\ Covered
    /\ GivenBack /\ LeasesFit /\ BucketFilled

-----------------------------------------------------------------------------
(* The bucket.                                                             *)

LEMMA ProductIsNat == ASSUME NEW a \in Nat, NEW b \in Nat PROVE a * b \in Nat
  OBVIOUS

LEMMA RefilledType == ASSUME IInv
                      PROVE  Refilled \in 0 .. Burst /\ Refilled <= tokens + (now - updated) * Rate
  <1>1. now \in Nat /\ tokens \in 0 .. Burst /\ updated \in Nat /\ updated <= now
    BY DEF IInv, TypeOK, BucketFilled
  <1>2. (now - updated) * Rate \in Nat
    BY <1>1, ProductIsNat, LimitsAssumption
  <1>3. Burst \in Nat
    BY LimitsAssumption
  <1>4. QED
    BY <1>1, <1>2, <1>3 DEF Refilled, Smaller

LEMMA ArriveBucket == ASSUME IInv, NEW r \in Requests, Arrive(r)
                      PROVE  /\ (tokens \in 0 .. Burst)' /\ (admitted \in Nat)'
                             /\ updated' = now /\ admitted' + tokens' = admitted + Refilled
  <1>1. /\ tokens' = IF Refilled >= 1 THEN Refilled - 1 ELSE Refilled
        /\ updated' = now
        /\ admitted' = IF Refilled >= 1 THEN admitted + 1 ELSE admitted
    BY DEF Arrive, RefilledAt
  <1>2. Refilled \in 0 .. Burst /\ admitted \in Nat /\ Burst \in Nat
    BY RefilledType, LimitsAssumption DEF IInv, TypeOK
  <1>3. QED
    BY <1>1, <1>2

LEMMA BucketSame == ASSUME [Next]_vars
                    PROVE  \/ \E r \in Requests : Arrive(r)
                           \/ /\ tokens' = tokens /\ updated' = updated /\ admitted' = admitted
                              /\ now' \in {now, now + 1}
  BY DEF Next, vars, redis, middleware, Asked, Renew, Renewed, Ends, Release, Uncooperative,
     Linger, Vanish, Apply, Lose, Tick

LEMMA BucketKept == ASSUME IInv, [Next]_vars PROVE BucketFilled'
  <1>1. /\ now \in Nat /\ tokens \in 0 .. Burst /\ updated \in Nat /\ admitted \in Nat
        /\ updated >= 1 /\ updated <= now /\ admitted + tokens <= Burst + Rate * (updated - 1)
        /\ Burst \in Nat /\ Rate \in Nat
    BY LimitsAssumption DEF IInv, TypeOK, BucketFilled
  <1>2. ASSUME NEW r \in Requests, Arrive(r) PROVE BucketFilled'
    <2>1. now' = now /\ updated' = now /\ admitted' + tokens' = admitted + Refilled
      BY <1>2, ArriveBucket DEF Arrive
    <2>2. Refilled \in 0 .. Burst /\ Refilled <= tokens + (now - updated) * Rate
      BY RefilledType
    <2>3. (now - updated) * Rate + Rate * (updated - 1) = Rate * (now - 1)
      BY <1>1
    <2>4. (now - updated) * Rate \in Int /\ Rate * (updated - 1) \in Int
      BY <1>1
    <2>5. admitted + Refilled <= Burst + Rate * (now - 1)
      BY <1>1, <2>2, <2>3, <2>4
    <2>6. QED
      BY <1>1, <2>1, <2>5 DEF BucketFilled
  <1>3. CASE /\ tokens' = tokens /\ updated' = updated /\ admitted' = admitted
             /\ now' \in {now, now + 1}
    BY <1>1, <1>3 DEF BucketFilled
  <1>4. QED
    BY <1>2, <1>3, BucketSame

-----------------------------------------------------------------------------
(* What one step may do to a request, its lease and its commands.          *)

Statuses == {"new", "asking", "open", "renewing", "ending", "lingering", "over"}

LEMMA TypeKept == ASSUME IInv, [Next]_vars PROVE TypeOK'
  <1>1. /\ now \in Nat /\ tokens \in 0 .. Burst /\ updated \in Nat /\ admitted \in Nat
        /\ lost \in Nat
    BY DEF IInv, TypeOK
  <1>2. /\ expiry \in [Requests -> Nat] /\ deadline \in [Requests -> Nat]
        /\ began \in [Requests -> Nat] /\ pc \in [Requests -> Statuses]
        /\ answer \in [Requests -> {"none", "yes", "no"}]
    BY DEF IInv, TypeOK, Statuses
  <1>3. commands \subseteq [op : {"acquire", "renew", "release"}, token : Requests]
    BY DEF IInv, TypeOK
  <1>4. (now \in Nat)' /\ (lost \in Nat)'
    BY <1>1 DEF Next, vars, redis, middleware, Arrive, Asked, Renew, Renewed, Ends, Release,
       Uncooperative, Linger, Vanish, Apply, Lose, Tick
  <1>5. (tokens \in 0 .. Burst)' /\ (updated \in Nat)' /\ (admitted \in Nat)'
    BY <1>1, ArriveBucket, BucketSame
  <1>6. now + Ttl \in Nat /\ NoLease \in Nat /\ \A r \in Requests : began[r] + Ttl \in Nat
    BY <1>1, <1>2, LimitsAssumption DEF NoLease
  <1>7. (expiry \in [Requests -> Nat])' /\ (answer \in [Requests -> {"none", "yes", "no"}])'
    <2>1. ASSUME NEW c \in commands, Apply(c)
          PROVE  /\ (expiry \in [Requests -> Nat])'
                 /\ (answer \in [Requests -> {"none", "yes", "no"}])'
      <3>1. c.token \in Requests
        BY <1>3
      <3>2. QED
        BY <1>2, <1>6, <2>1, <3>1 DEF Apply
    <2>2. QED
      BY <1>2, <2>1 DEF Next, vars, redis, middleware, Arrive, Asked, Renew, Renewed, Ends,
         Release, Uncooperative, Linger, Vanish, Lose, Tick, None
  <1>8. (deadline \in [Requests -> Nat])' /\ (began \in [Requests -> Nat])'
    BY <1>1, <1>2, <1>6 DEF Next, vars, redis, middleware, Arrive, Asked, Renew, Renewed, Ends,
       Release, Uncooperative, Linger, Vanish, Apply, Lose, Tick, Confirmed
  <1>9. (pc \in [Requests -> Statuses])'
    BY <1>2 DEF Next, vars, redis, middleware, Arrive, Asked, Renew, Renewed, Ends,
       Release, Uncooperative, Linger, Vanish, Apply, Lose, Tick, Go, GiveBack, Statuses
  <1>10. (commands \subseteq [op : {"acquire", "renew", "release"}, token : Requests])'
    BY <1>3 DEF Next, vars, redis, middleware, Arrive, Asked, Renew, Renewed, Ends,
       Release, Uncooperative, Linger, Vanish, Apply, Lose, Tick, Go, GiveBack, Command
  <1>11. QED
    BY <1>4, <1>5, <1>7, <1>8, <1>9, <1>10 DEF TypeOK, Statuses

\* What becomes of the lease of a request.
LeaseMoves(r) ==
    \/ expiry'[r] = expiry[r]
    \/ expiry'[r] = NoLease /\ Command("release", r) \in commands
    \/ expiry'[r] = now + Ttl /\ now' = now

LEMMA LeaseStep == ASSUME IInv, [Next]_vars, NEW r \in Requests PROVE LeaseMoves(r)
  <1>1. expiry \in [Requests -> Nat]
    BY DEF IInv, TypeOK
  <1>2. commands \subseteq [op : {"acquire", "renew", "release"}, token : Requests]
    BY DEF IInv, TypeOK
  <1>3. ASSUME NEW c \in commands, Apply(c) PROVE LeaseMoves(r)
    <2>1. c.token \in Requests /\ c = [op |-> c.op, token |-> c.token]
      BY <1>2
    <2>2. CASE c.op = "release"
      BY <1>1, <1>3, <2>1, <2>2 DEF Apply, LeaseMoves, Command
    <2>3. CASE c.op # "release"
      BY <1>1, <1>3, <2>1, <2>3 DEF Apply, LeaseMoves
    <2>4. QED
      BY <2>2, <2>3
  <1>4. QED
    BY <1>3 DEF Next, vars, redis, middleware, Arrive, Asked, Renew, Renewed, Ends,
       Release, Uncooperative, Linger, Vanish, Lose, Tick, LeaseMoves

\* What a step does to a request.
RequestMoves(r) ==
    \/ \* nothing
       /\ pc'[r] = pc[r] /\ deadline'[r] = deadline[r] /\ began'[r] = began[r]
       /\ answer'[r] = answer[r]
    \/ \* an answer of Redis
       /\ pc'[r] = pc[r] /\ deadline'[r] = deadline[r] /\ began'[r] = began[r]
       /\ now' = now /\ pc[r] \in {"asking", "renewing"}
       /\ answer'[r] = "yes" => expiry'[r] = now + Ttl
    \/ \* Arrive
       /\ pc[r] = "new" /\ pc'[r] \in {"asking", "over"} /\ answer'[r] = answer[r]
       /\ deadline'[r] \in {deadline[r], now + Ttl} /\ began'[r] = began[r] /\ now' = now
    \/ \* Asked
       /\ pc[r] = "asking" /\ pc'[r] = (IF answer[r] = "yes" THEN "open" ELSE "over")
       /\ answer'[r] = None /\ deadline'[r] = deadline[r] /\ began'[r] = began[r]
       /\ expiry'[r] = expiry[r]
    \/ \* Renew
       /\ pc[r] = "open" /\ pc'[r] = "renewing" /\ answer'[r] = answer[r]
       /\ deadline'[r] = deadline[r] /\ began'[r] = now /\ now' = now
    \/ \* Renewed
       /\ pc[r] = "renewing" /\ pc'[r] \in {"open", "ending"} /\ answer'[r] = None
       /\ began'[r] = began[r] /\ expiry'[r] = expiry[r] /\ now' = now
       /\ \/ deadline'[r] = deadline[r]
          \/ answer[r] = "yes" /\ deadline'[r] = began[r] + Ttl
    \/ \* Ends, Release, Uncooperative, Vanish
       /\ pc[r] # "new" /\ pc'[r] \in {"ending", "lingering", "over"}
       /\ pc'[r] = "over" \/ pc[r] \in {"open", "renewing", "ending"}
       /\ deadline'[r] = deadline[r] /\ began'[r] = began[r] /\ expiry'[r] = expiry[r]
       /\ answer'[r] \in {answer[r], None}

LEMMA RequestStep == ASSUME IInv, [Next]_vars, NEW r \in Requests PROVE RequestMoves(r)
  <1>1. /\ expiry \in [Requests -> Nat] /\ deadline \in [Requests -> Nat]
        /\ began \in [Requests -> Nat] /\ pc \in [Requests -> Statuses]
        /\ answer \in [Requests -> {"none", "yes", "no"}]
    BY DEF IInv, TypeOK, Statuses
  <1>2. commands \subseteq [op : {"acquire", "renew", "release"}, token : Requests]
    BY DEF IInv, TypeOK
  <1>3. ASSUME NEW c \in commands, Apply(c) PROVE RequestMoves(r)
    <2>1. c.token \in Requests
      BY <1>2
    <2>2. pc' = pc /\ deadline' = deadline /\ began' = began /\ now' = now
      BY <1>3 DEF Apply, middleware
    <2>3. CASE c.op = "release" \/ c.token # r
      BY <1>1, <1>3, <2>1, <2>2, <2>3 DEF Apply, RequestMoves
    <2>4. CASE c.op # "release" /\ c.token = r
      <3>1. CASE answer' = answer
        BY <2>2, <3>1 DEF RequestMoves
      <3>2. CASE <<pc[r], c.op>> \in {<<"asking", "acquire">>, <<"renewing", "renew">>}
        <4>1. pc[r] \in {"asking", "renewing"}
          BY <3>2
        <4>2. answer'[r] = "yes" => expiry'[r] = now + Ttl
          BY <1>1, <1>3, <2>4, <3>2 DEF Apply
        <4>3. QED
          BY <2>2, <4>1, <4>2 DEF RequestMoves
      <3>3. QED
        BY <1>3, <2>4, <3>1, <3>2 DEF Apply
    <2>5. QED
      BY <2>3, <2>4
  <1>4. ASSUME NEW q \in Requests, Arrive(q) PROVE RequestMoves(r)
    BY <1>1, <1>4 DEF Arrive, Go, RequestMoves
  <1>5. ASSUME NEW q \in Requests, Asked(q) PROVE RequestMoves(r)
    BY <1>1, <1>5 DEF Asked, Go, GiveBack, redis, RequestMoves
  <1>6. ASSUME NEW q \in Requests, Renew(q) PROVE RequestMoves(r)
    BY <1>1, <1>6 DEF Renew, Go, redis, RequestMoves
  <1>7. ASSUME NEW q \in Requests, Renewed(q) PROVE RequestMoves(r)
    BY <1>1, <1>7 DEF Renewed, Confirmed, Go, redis, RequestMoves
  <1>8. ASSUME NEW q \in Requests, Ends(q) \/ Release(q) \/ Uncooperative(q) \/ Vanish(q)
        PROVE  RequestMoves(r)
    BY <1>1, <1>8 DEF Ends, Release, Uncooperative, Linger, Vanish, Go, GiveBack, redis,
       RequestMoves, Statuses
  <1>9. CASE (\E c \in commands : Lose(c)) \/ Tick \/ UNCHANGED vars
    BY <1>9 DEF Lose, Tick, vars, redis, middleware, RequestMoves
  <1>10. QED
    BY <1>3, <1>4, <1>5, <1>6, <1>7, <1>8, <1>9 DEF Next

\* Time does not run backwards.
LEMMA Later == ASSUME IInv, [Next]_vars PROVE now' \in Nat /\ now' >= now
  <1>1. now \in Nat
    BY DEF IInv, TypeOK
  <1>2. now' \in {now, now + 1}
    BY DEF Next, vars, redis, middleware, Arrive, Asked, Renew, Renewed, Ends, Release,
       Uncooperative, Linger, Vanish, Apply, Lose, Tick
  <1>3. QED
    BY <1>1, <1>2

\* The numbers that belong to a request, and its place.
LEMMA RequestType == ASSUME IInv, NEW r \in Requests
                     PROVE  /\ now \in Nat /\ expiry[r] \in Nat /\ deadline[r] \in Nat
                            /\ began[r] \in Nat /\ Ttl \in Nat /\ pc[r] \in Statuses
                            /\ expiry[r] <= now + Ttl /\ deadline[r] <= now + Ttl
                            /\ began[r] <= now
  BY LimitsAssumption DEF IInv, TypeOK, Bounded, BeganBefore, Statuses

LEMMA NewRequestType == ASSUME IInv, [Next]_vars, NEW r \in Requests
                        PROVE  /\ expiry'[r] \in Nat /\ deadline'[r] \in Nat
                               /\ began'[r] \in Nat /\ pc'[r] \in Statuses
  BY TypeKept DEF TypeOK, Statuses

LEMMA BoundedKept == ASSUME IInv, [Next]_vars PROVE Bounded' /\ BeganBefore'
  <1>1. ASSUME NEW r \in Requests
        PROVE  /\ expiry'[r] <= now' + Ttl /\ deadline'[r] <= now' + Ttl /\ began'[r] <= now'
    <2>1. expiry'[r] <= now' + Ttl
      BY LeaseStep, RequestType, Later DEF LeaseMoves, NoLease
    <2>2. deadline'[r] <= now' + Ttl
      BY RequestStep, RequestType, Later DEF RequestMoves
    <2>3. began'[r] <= now'
      BY RequestStep, RequestType, Later DEF RequestMoves
    <2>4. QED
      BY <2>1, <2>2, <2>3
  <1>2. QED
    BY <1>1 DEF Bounded, BeganBefore

\* Who still waits or runs loses no lease to a release.
LEMMA LeaseGrows == ASSUME IInv, [Next]_vars, NEW r \in Requests, pc[r] # "over"
                    PROVE  \/ expiry'[r] = expiry[r]
                           \/ expiry'[r] = now + Ttl /\ now' = now
  BY LeaseStep DEF LeaseMoves, IInv, GivenBack

LEMMA AnswersMeanKept == ASSUME IInv, [Next]_vars PROVE AnswersMean'
  <1>1. ASSUME NEW r \in Requests, answer'[r] = "yes"
        PROVE  /\ pc'[r] = "asking" => expiry'[r] >= deadline'[r]
               /\ pc'[r] = "renewing" => expiry'[r] >= began'[r] + Ttl
    <2>1. SUFFICES ASSUME pc'[r] \in {"asking", "renewing"}
                   PROVE  /\ pc'[r] = "asking" => expiry'[r] >= deadline'[r]
                          /\ pc'[r] = "renewing" => expiry'[r] >= began'[r] + Ttl
      OBVIOUS
    <2>2. pc'[r] = pc[r] /\ deadline'[r] = deadline[r] /\ began'[r] = began[r]
      BY <1>1, <2>1, RequestStep DEF RequestMoves, None, IInv, Unanswered
    <2>3. answer[r] = "yes" \/ expiry'[r] = now + Ttl
      BY <1>1, <2>1, RequestStep DEF RequestMoves, None
    <2>4. expiry'[r] = expiry[r] \/ expiry'[r] = now + Ttl
      BY <2>1, <2>2, LeaseGrows
    <2>5. CASE expiry'[r] = now + Ttl
      BY <2>2, <2>5, RequestType
    <2>6. CASE expiry'[r] = expiry[r] /\ answer[r] = "yes"
      BY <2>2, <2>6 DEF IInv, AnswersMean
    <2>7. QED
      BY <2>3, <2>4, <2>5, <2>6
  <1>2. QED
    BY <1>1 DEF AnswersMean

LEMMA UnansweredKept == ASSUME IInv, [Next]_vars PROVE Unanswered'
  <1>1. ASSUME NEW r \in Requests, pc'[r] \in {"new", "open"} PROVE answer'[r] = None
    BY <1>1, RequestStep DEF RequestMoves, IInv, Unanswered
  <1>2. QED
    BY <1>1 DEF Unanswered

LEMMA CoveredKept == ASSUME IInv, [Next]_vars PROVE Covered'
  <1>1. ASSUME NEW r \in Requests, pc'[r] \in {"open", "renewing", "ending", "lingering"}
        PROVE  expiry'[r] >= deadline'[r]
    <2>1. pc[r] # "over" /\ pc[r] # "new"
      BY <1>1, RequestStep, RequestType DEF RequestMoves
    <2>2. CASE pc[r] \in {"open", "renewing", "ending", "lingering"}
      <3>1. expiry[r] >= deadline[r]
        BY <2>2 DEF IInv, Covered
      <3>2. CASE deadline'[r] = deadline[r]
        BY <2>1, <3>1, <3>2, LeaseGrows, RequestType
      <3>3. CASE /\ pc[r] = "renewing" /\ answer[r] = "yes" /\ expiry'[r] = expiry[r]
                 /\ deadline'[r] = began[r] + Ttl
        BY <3>3 DEF IInv, AnswersMean
      <3>4. QED
        BY <2>2, <3>2, <3>3, RequestStep DEF RequestMoves
    <2>3. CASE pc[r] = "asking"
      <3>1. /\ answer[r] = "yes" /\ deadline'[r] = deadline[r] /\ expiry'[r] = expiry[r]
        BY <1>1, <2>3, RequestStep DEF RequestMoves
      <3>2. QED
        BY <2>3, <3>1 DEF IInv, AnswersMean
    <2>4. QED
      BY <2>1, <2>2, <2>3, RequestType DEF Statuses
  <1>2. QED
    BY <1>1 DEF Covered

LEMMA GivenBackKept == ASSUME IInv, [Next]_vars PROVE GivenBack'
  <1>1. ASSUME NEW r \in Requests, Command("release", r) \in commands' PROVE pc'[r] = "over"
    <2>1. CASE Command("release", r) \in commands
      BY <2>1, RequestStep DEF RequestMoves, IInv, GivenBack
    <2>2. CASE Command("release", r) \notin commands
      <3>1. pc \in [Requests -> Statuses]
        BY DEF IInv, TypeOK, Statuses
      <3>2. PICK q \in Requests : Asked(q) \/ Release(q)
        BY <1>1, <2>2 DEF Next, vars, redis, middleware, Arrive, Renew, Renewed, Ends,
           Uncooperative, Linger, Vanish, Apply, Lose, Tick, Command
      <3>3. GiveBack(q) \/ UNCHANGED commands
        BY <3>2 DEF Asked, Release
      <3>4. GiveBack(q) /\ q = r
        BY <1>1, <2>2, <3>3 DEF GiveBack, Command
      <3>5. QED
        BY <3>1, <3>4 DEF GiveBack, Go
    <2>3. QED
      BY <2>1, <2>2
  <1>2. QED
    BY <1>1 DEF GivenBack

-----------------------------------------------------------------------------
(* The leases.                                                             *)

LEMMA LeasesFinite == IsFiniteSet(Leases) /\ Cardinality(Leases) \in Nat
  <1>1. Leases \subseteq Requests
    BY DEF Leases
  <1>2. QED
    BY <1>1, RequestsAssumption, FS_Subset, FS_CardinalityType

\* Only a granted acquisition adds a lease, and only its own.
LEMMA LeasesStep == ASSUME IInv, [Next]_vars
                    PROVE  \/ Leases' \subseteq Leases
                           \/ ~Full /\ \E r \in Requests : Leases' \subseteq Leases \cup {r}
  <1>1. /\ expiry \in [Requests -> Nat] /\ now \in Nat /\ now' \in Nat /\ now' >= now
    BY Later DEF IInv, TypeOK
  <1>2. commands \subseteq [op : {"acquire", "renew", "release"}, token : Requests]
    BY DEF IInv, TypeOK
  <1>3. ASSUME NEW c \in commands, Apply(c)
        PROVE  \/ Leases' \subseteq Leases
               \/ ~Full /\ \E r \in Requests : Leases' \subseteq Leases \cup {r}
    <2>1. c.token \in Requests /\ now' = now
      BY <1>2, <1>3 DEF Apply
    <2>2. CASE c.op = "release"
      BY <1>1, <1>3, <2>1, <2>2 DEF Apply, Leases, Alive, NoLease
    <2>3. CASE c.op # "release" /\ ~Granted(c)
      BY <1>3, <2>1, <2>3 DEF Apply, Leases, Alive
    <2>4. CASE c.op # "release" /\ Granted(c)
      <3>1. expiry' = [expiry EXCEPT ![c.token] = now + Ttl]
        BY <1>3, <2>4 DEF Apply
      <3>2. Leases' \subseteq Leases \cup {c.token}
        BY <1>1, <2>1, <3>1 DEF Leases, Alive
      <3>3. ~Full \/ c.token \in Leases
        BY <2>1, <2>4 DEF Granted, Acquirable, Renewable, Leases
      <3>4. QED
        BY <2>1, <3>2, <3>3
    <2>5. QED
      BY <2>2, <2>3, <2>4
  <1>4. CASE UNCHANGED expiry
    BY <1>1, <1>4 DEF Leases, Alive
  <1>5. QED
    BY <1>3, <1>4 DEF Next, vars, redis, middleware, Arrive, Asked, Renew, Renewed, Ends,
       Release, Uncooperative, Linger, Vanish, Lose, Tick

LEMMA LeasesFitKept == ASSUME IInv, [Next]_vars PROVE LeasesFit'
  <1>1. /\ IsFiniteSet(Leases) /\ Cardinality(Leases) \in Nat /\ Capacity \in Nat
        /\ Cardinality(Leases) <= Capacity
    BY LeasesFinite, LimitsAssumption DEF IInv, LeasesFit
  <1>2. CASE Leases' \subseteq Leases
    <2>1. Cardinality(Leases') <= Cardinality(Leases) /\ Cardinality(Leases') \in Nat
      BY <1>1, <1>2, FS_Subset, FS_CardinalityType
    <2>2. QED
      BY <1>1, <2>1 DEF LeasesFit
  <1>3. ASSUME ~Full, NEW r \in Requests, Leases' \subseteq Leases \cup {r}
        PROVE  LeasesFit'
    <2>1. Cardinality(Leases) < Capacity
      BY <1>1, <1>3 DEF Full, Leases
    <2>2. /\ IsFiniteSet(Leases \cup {r})
          /\ Cardinality(Leases \cup {r}) \in {Cardinality(Leases), Cardinality(Leases) + 1}
      <3>1. IsFiniteSet(Leases)
        BY <1>1
      <3>2. QED
        BY <3>1, FS_AddElement, Zenon
    <2>3. /\ Cardinality(Leases') <= Cardinality(Leases \cup {r})
          /\ Cardinality(Leases') \in Nat /\ Cardinality(Leases \cup {r}) \in Nat
      BY <1>3, <2>2, FS_Subset, FS_CardinalityType
    <2>4. QED
      BY <1>1, <2>1, <2>2, <2>3 DEF LeasesFit
  <1>4. QED
    BY <1>2, <1>3, LeasesStep

-----------------------------------------------------------------------------
(* The theorems.                                                           *)

LEMMA InitIInv == Init => IInv
  <1>1. SUFFICES ASSUME Init PROVE IInv
    OBVIOUS
  <1>2. TypeOK
    <2>1. Burst \in 0 .. Burst
      BY LimitsAssumption
    <2>2. QED
      BY <1>1, <2>1 DEF Init, TypeOK, NoLease, None
  <1>3. Bounded /\ BeganBefore
    BY <1>1, LimitsAssumption DEF Init, Bounded, BeganBefore, NoLease
  <1>4. AnswersMean /\ Unanswered /\ Covered /\ GivenBack
    BY <1>1 DEF Init, AnswersMean, Unanswered, Covered, GivenBack, None
  <1>5. LeasesFit
    <2>1. Leases = {}
      BY <1>1 DEF Init, Leases, Alive, NoLease
    <2>2. QED
      BY <2>1, FS_EmptySet, LimitsAssumption DEF LeasesFit
  <1>6. BucketFilled
    BY <1>1, LimitsAssumption DEF Init, BucketFilled
  <1>7. QED
    BY <1>2, <1>3, <1>4, <1>5, <1>6 DEF IInv

\* Requests, leases, commands on their way and the bucket agree in every reachable
\* state (services/rate_limits.py, api/rate_limits.py).
THEOREM SpecIInv == Spec => []IInv
  <1>1. IInv /\ [Next]_vars => IInv'
    BY TypeKept, BoundedKept, AnswersMeanKept, UnansweredKept, CoveredKept, GivenBackKept,
       LeasesFitKept, BucketKept DEF IInv
  <1>2. QED
    BY <1>1, InitIInv, PTL DEF Spec

\* No more streams send than there are places, each of them covered by a lease that
\* outlives its fence, and no more requests are let through than the bucket had.
THEOREM SlotsAreHeld == Spec => []SlotsHeld
  <1>1. ASSUME IInv PROVE SlotsHeld
    <2>1. TypeOK /\ Covered /\ LeasesFit /\ BucketFilled
      BY <1>1 DEF IInv
    <2>2. LeaseCovers
      BY <2>1 DEF LeaseCovers, Covered, MaySend
    <2>3. WithinCapacity
      <3>1. {r \in Requests : MaySend(r)} \subseteq Leases
        BY <1>1, <2>2, RequestType DEF LeaseCovers, Leases, Alive, MaySend
      <3>2. /\ Cardinality({r \in Requests : MaySend(r)}) <= Cardinality(Leases)
            /\ Cardinality({r \in Requests : MaySend(r)}) \in Nat
        BY <3>1, LeasesFinite, FS_Subset, FS_CardinalityType
      <3>3. QED
        BY <2>1, <3>2, LeasesFinite, LimitsAssumption DEF LeasesFit, WithinCapacity
    <2>4. Budgeted
      <3>1. /\ now \in Nat /\ tokens \in 0 .. Burst /\ updated \in Nat /\ admitted \in Nat
            /\ updated <= now /\ admitted + tokens <= Burst + Rate * (updated - 1)
            /\ Burst \in Nat /\ Rate \in Nat
        BY <2>1, LimitsAssumption DEF TypeOK, BucketFilled
      <3>2. Rate * (now - updated) \in Nat
        BY <3>1, ProductIsNat
      <3>3. Rate * (now - 1) = Rate * (updated - 1) + Rate * (now - updated)
        BY <3>1
      <3>4. Rate * (updated - 1) \in Int
        BY <3>1
      <3>5. QED
        BY <3>1, <3>2, <3>3, <3>4 DEF Budgeted
    <2>5. QED
      BY <2>1, <2>2, <2>3, <2>4 DEF SlotsHeld
  <1>2. QED
    BY <1>1, SpecIInv, PTL

\* A lease that was given back or has expired is not revived by a late renewal (the
\* scripts of services/rate_limits.py).
THEOREM LeasesStayDead == Spec => NotRevived
  <1>1. ASSUME IInv, [Next]_vars PROVE [KeepsDead]_vars
    <2>1. SUFFICES ASSUME NEW r \in Requests, ~Alive(r), Command("acquire", r) \notin commands,
                          expiry'[r] > now'
                   PROVE  FALSE
      BY DEF KeepsDead
    <2>2. /\ expiry \in [Requests -> Nat] /\ now \in Nat /\ now' \in Nat /\ now' >= now
      BY <1>1, Later DEF IInv, TypeOK
    <2>3. expiry'[r] # expiry[r] /\ expiry'[r] # 0
      BY <2>1, <2>2 DEF Alive
    <2>4. PICK c \in commands : Apply(c)
      BY <1>1, <2>3 DEF Next, vars, redis, middleware, Arrive, Asked, Renew, Renewed, Ends,
         Release, Uncooperative, Linger, Vanish, Lose, Tick
    <2>5. c.token \in Requests /\ c = [op |-> c.op, token |-> c.token]
      BY <1>1 DEF IInv, TypeOK
    <2>6. c.token = r /\ c.op # "release" /\ Granted(c)
      BY <2>2, <2>3, <2>4, <2>5 DEF Apply, NoLease
    <2>7. c.op = "acquire"
      BY <2>1, <2>6 DEF Granted, Renewable
    <2>8. QED
      BY <2>1, <2>5, <2>6, <2>7 DEF Command
  <1>2. QED
    BY <1>1, SpecIInv, PTL DEF Spec, NotRevived
=============================================================================
