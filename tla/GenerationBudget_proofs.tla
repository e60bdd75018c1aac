----------------------- MODULE GenerationBudget_proofs -----------------------
(***************************************************************************)
(* The budget of language generation for any number of callers, any limits *)
(* and any usage.  What overlapping callers may add is bounded because     *)
(* IInv counts them before they spend: a caller that waits for a slot is a *)
(* call to come, a caller with a request is usage to come.                 *)
(***************************************************************************)
EXTENDS GenerationBudget, FiniteSetTheorems, SequenceTheorems, TLAPS

N == Cardinality(Callers)
Pending == Cardinality(Waiting)

\* The window has a stamp of every call of the last minute.
Counted == LastMinute \subseteq minute

\* The calls made and the calls to come.
CallsFit ==
    /\ Cardinality(LastMinute) + Pending < PerMinute + N
    /\ session + Pending < PerSession + N

\* The tokens spent and the tokens that may be.
TokensFit ==
    \/ Busy = {} /\ spent = 0
    \/ spent + Estimate + Cardinality(Busy) * MaxUsage <= Daily + N * MaxUsage

IInv == TypeOK /\ QueueExact /\ Counted /\ CallsFit /\ TokensFit

-----------------------------------------------------------------------------
(* Sequences and the helpers of the model.                                 *)

LEMMA SplitLengths ==
    ASSUME NEW n \in Nat, NEW i \in 1 .. n
    PROVE  /\ (IF i + 1 <= n THEN n - (i + 1) + 1 ELSE 0) = n - i
           /\ n - (i + 1) + 1 = n - i /\ (i - 1) + (n - i) = n - 1
           /\ \A j \in 1 .. n - i : (i + 1) + j - 1 = j + i
  OBVIOUS

LEMMA SplitIndex ==
    ASSUME NEW n \in Nat, NEW i \in 1 .. n, NEW j \in 1 .. n - 1, j >= i
    PROVE  /\ ~(j <= i - 1) /\ j - (i - 1) \in 1 .. n - i /\ (j - (i - 1)) + i = j + 1
  OBVIOUS

LEMMA RemovedAt ==
    ASSUME NEW S, NEW s \in Seq(S), NEW i \in DOMAIN s
    PROVE  /\ RemoveAt(s, i) \in Seq(S) /\ Len(RemoveAt(s, i)) = Len(s) - 1
           /\ \A j \in 1 .. Len(s) - 1 :
                RemoveAt(s, i)[j] = IF j < i THEN s[j] ELSE s[j + 1]
  <1> DEFINE before == SubSeq(s, 1, i - 1)
             after == SubSeq(s, i + 1, Len(s))
  <1>1. i \in 1 .. Len(s) /\ Len(s) \in Nat /\ \A j \in 1 .. Len(s) : s[j] \in S
    BY ElementOfSeq
  <1>2. /\ before \in Seq(S) /\ Len(before) = i - 1
        /\ \A j \in 1 .. i - 1 : before[j] = s[j]
    BY <1>1
  <1>3. /\ after \in Seq(S) /\ Len(after) = Len(s) - i
        /\ \A j \in 1 .. Len(s) - i : after[j] = s[j + i]
    <2>1. (\A j \in i + 1 .. Len(s) : s[j] \in S) /\ i + 1 \in Int /\ Len(s) \in Int
      BY <1>1
    <2>2. SubSeq(s, i + 1, Len(s)) \in Seq(S)
      BY <2>1, SubSeqProperties
    <2>3. Len(after) = IF i + 1 <= Len(s) THEN Len(s) - (i + 1) + 1 ELSE 0
      BY <2>1, SubSeqProperties
    <2>4. \A j \in 1 .. Len(s) - (i + 1) + 1 : after[j] = s[(i + 1) + j - 1]
      BY <2>1, SubSeqProperties
    <2>5. Len(after) = Len(s) - i
      BY <1>1, <2>3, SplitLengths
    <2>6. \A j \in 1 .. Len(s) - i : after[j] = s[j + i]
      BY <1>1, <2>4, SplitLengths, Zenon
    <2>7. QED
      BY <2>2, <2>5, <2>6
  <1>4. RemoveAt(s, i) = before \o after
    BY DEF RemoveAt
  <1> HIDE DEF before, after
  <1>5. /\ before \o after \in Seq(S) /\ Len(before \o after) = Len(before) + Len(after)
        /\ \A j \in 1 .. Len(before) + Len(after) :
             (before \o after)[j] = IF j <= Len(before) THEN before[j]
                                    ELSE after[j - Len(before)]
    BY <1>2, <1>3, ConcatProperties, Zenon
  <1>6. Len(before) + Len(after) = Len(s) - 1
    BY <1>1, <1>2, <1>3, SplitLengths
  <1>7. ASSUME NEW j \in 1 .. Len(s) - 1
        PROVE  (before \o after)[j] = IF j < i THEN s[j] ELSE s[j + 1]
    <2>1. j \in 1 .. Len(before) + Len(after)
      BY <1>6
    <2>2. CASE j < i
      <3>1. j \in 1 .. i - 1 /\ j <= Len(before)
        BY <1>1, <1>2, <2>2
      <3>2. QED
        BY <1>2, <1>5, <2>1, <2>2, <3>1
    <2>3. CASE ~(j < i)
      <3>1. /\ ~(j <= Len(before)) /\ j - Len(before) \in 1 .. Len(s) - i
            /\ (j - Len(before)) + i = j + 1
        BY <1>1, <1>2, <2>3, SplitIndex
      <3>2. (before \o after)[j] = after[j - Len(before)]
        BY <1>5, <2>1, <3>1
      <3>3. QED
        BY <1>3, <2>3, <3>1, <3>2
    <2>4. QED
      BY <2>2, <2>3
  <1>8. QED
    BY <1>4, <1>5, <1>6, <1>7

Held == [key : Keys, at : 0 .. now]

LEMMA EntryPlace == ASSUME TypeOK, NEW k \in Keys, Places(k) # {}
                    PROVE  Entry(k) \in DOMAIN cache /\ cache[Entry(k)] \in Held
  <1>1. cache \in Seq(Held)
    BY DEF TypeOK, Held
  <1>2. Entry(k) \in Places(k)
    BY DEF Entry
  <1>3. Entry(k) \in DOMAIN cache
    BY <1>2 DEF Places
  <1>4. QED
    BY <1>1, <1>3, ElementOfSeq

LEMMA WithoutType == ASSUME TypeOK, NEW k \in Keys
                     PROVE  /\ Without(k) \in Seq(Held) /\ Len(Without(k)) <= Entries
                            /\ Places(k) # {} => Len(Without(k)) < Entries
  <1>1. cache \in Seq(Held) /\ Len(cache) <= Entries /\ Entries \in Nat /\ Len(cache) \in Nat
    BY BudgetAssumption DEF TypeOK, Held
  <1>2. CASE Places(k) = {}
    BY <1>1, <1>2 DEF Without
  <1>3. CASE Places(k) # {}
    <2>1. Entry(k) \in DOMAIN cache
      BY <1>3, EntryPlace
    <2>2. /\ RemoveAt(cache, Entry(k)) \in Seq(Held)
          /\ Len(RemoveAt(cache, Entry(k))) = Len(cache) - 1
      BY <1>1, <2>1, RemovedAt
    <2>3. Without(k) = RemoveAt(cache, Entry(k))
      BY <1>3 DEF Without
    <2>4. QED
      BY <1>1, <2>2, <2>3
  <1>4. QED
    BY <1>2, <1>3

LEMMA StoredType == ASSUME TypeOK, NEW k \in Keys, NEW t \in 0 .. now
                    PROVE  Stored(k, t) \in Seq(Held) /\ Len(Stored(k, t)) <= Entries
  <1> DEFINE W == Without(k)
             C == Append(W, [key |-> k, at |-> t])
  <1>1. W \in Seq(Held) /\ Len(W) <= Entries /\ Entries \in Nat \ {0} /\ Len(W) \in Nat
    BY WithoutType, BudgetAssumption
  <1>2. [key |-> k, at |-> t] \in Held
    BY DEF Held
  <1>3. C \in Seq(Held) /\ Len(C) = Len(W) + 1
    BY <1>1, <1>2, AppendProperties
  <1>4. Stored(k, t) = SubSeq(C, IF Len(C) > Entries THEN 2 ELSE 1, Len(C))
    BY DEF Stored
  <1> HIDE DEF C, W
  <1>5. CASE Len(C) > Entries
    <2>1. Stored(k, t) = SubSeq(C, 2, Len(C)) /\ Len(C) \in Nat \ {0}
      BY <1>1, <1>3, <1>4, <1>5
    <2>2. SubSeq(C, 2, Len(C)) \in Seq(Held) /\ Len(SubSeq(C, 2, Len(C))) = Len(C) - 1
      BY <1>3, <2>1
    <2>3. QED
      BY <1>1, <1>3, <2>1, <2>2
  <1>6. CASE Len(C) <= Entries
    <2>1. Stored(k, t) = SubSeq(C, 1, Len(C)) /\ Len(C) \in Nat \ {0}
      BY <1>1, <1>3, <1>4, <1>6
    <2>2. SubSeq(C, 1, Len(C)) \in Seq(Held) /\ Len(SubSeq(C, 1, Len(C))) = Len(C)
      BY <1>3, <2>1
    <2>3. QED
      BY <1>1, <1>3, <1>6, <2>1, <2>2
  <1>7. QED
    BY <1>1, <1>3, <1>5, <1>6

-----------------------------------------------------------------------------
(* What one step does to the callers, the calls and what they cost.        *)

LEMMA Limits ==
    /\ PerMinute \in Nat /\ PerSession \in Nat /\ Daily \in Nat /\ Slots \in Nat /\ Minute \in Nat
    /\ Day \in Nat \ {0} /\ Estimate \in Nat /\ MaxUsage \in Nat /\ None \notin Keys
    /\ PerMinute > 0 /\ PerSession > 0
    /\ IsFiniteSet(Callers)
  BY BudgetAssumption DEF None

\* The parts of the types, to be taken one by one.
Numbers == now \in Nat /\ session \in Nat /\ spent \in Nat /\ day \in Nat
Window == made \in Seq(Held) /\ minute \subseteq DOMAIN made
Requested == key \in [Callers -> Keys \cup {None}] /\ asked \in [Callers -> 0 .. now]
Cached == cache \in Seq(Held) /\ Len(cache) <= Entries
Queued == queue \in Seq(Callers)
Slotted == calling \subseteq Callers /\ Cardinality(calling) <= Slots

LEMMA TypeParts ==
    TypeOK <=> Numbers /\ Window /\ Requested /\ Cached /\ Queued /\ Slotted
  BY DEF TypeOK, Held, Numbers, Window, Requested, Cached, Queued, Slotted

\* The callers.
Rests == UNCHANGED <<key, queue, calling>>
Asks(c) == /\ key[c] = None /\ \E k \in Keys : key' = [key EXCEPT ![c] = k]
           /\ \/ calling' = calling \cup {c} /\ queue' = queue /\ Cardinality(calling) < Slots
              \/ calling' = calling /\ queue' = Append(queue, c)
Takes == /\ queue # <<>> /\ Cardinality(calling) < Slots /\ key' = key
         /\ queue' = Tail(queue) /\ calling' = calling \cup {Head(queue)}
Ends(c) == /\ c \in calling /\ calling' = calling \ {c} /\ queue' = queue
           /\ key' = [key EXCEPT ![c] = None]
GivesUp(i) == /\ queue' = RemoveAt(queue, i) /\ calling' = calling
              /\ key' = [key EXCEPT ![queue[i]] = None]

LEMMA CallerStep ==
    ASSUME [Next]_vars
    PROVE  \/ Rests \/ Takes
           \/ \E c \in Callers : Asks(c) \/ Ends(c)
           \/ \E i \in DOMAIN queue : queue[i] \in Callers /\ GivesUp(i)
  <1>1. ASSUME NEW c \in Callers, NEW k \in Keys, FromCache(c, k) \/ Refused(c, k) PROVE Rests
    BY <1>1 DEF FromCache, Refused, request, Rests
  <1>2. ASSUME NEW c \in Callers, NEW k \in Keys, LetThrough(c, k) PROVE Asks(c)
    BY <1>2 DEF LetThrough, Idle, Reserve, Asks
  <1>3. ASSUME NEW c \in Callers,
               (\E n \in 1 .. MaxUsage : Answered(c, n)) \/ Failed(c) \/ TimedOut(c)
        PROVE  Ends(c)
    BY <1>3 DEF Answered, Failed, TimedOut, Leave, Ends
  <1>4. ASSUME NEW c \in Callers, Cancelled(c)
        PROVE  \E i \in DOMAIN queue : queue[i] \in Callers /\ GivesUp(i)
    BY <1>4 DEF Cancelled, GivesUp
  <1>5. CASE TakeSlot
    BY <1>5 DEF TakeSlot, Reserve, Takes
  <1>6. CASE Tick \/ UNCHANGED vars
    BY <1>6 DEF Tick, vars, request, Rests
  <1>7. QED
    BY <1>1, <1>2, <1>3, <1>4, <1>5, <1>6 DEF Next

\* The calls and the clock: nothing is sent, or one call.
Quiet == /\ session' = session /\ made' = made
         /\ \/ now' = now /\ minute' \in {minute, Recent}
            \/ now' = now + 1 /\ minute' = minute
Sends == /\ session' = session + 1 /\ now' = now
         /\ \E c \in Callers : /\ key'[c] \in Keys
                               /\ made' = Append(made, [key |-> key'[c], at |-> now])
         /\ \E window \in {minute, Recent} : minute' = window \cup {Len(made) + 1}

\* The two together.
Unspent == Quiet /\ spent' \in {spent, SpentToday}
CostStep ==
    \/ Rests /\ Unspent
    \/ Takes /\ Sends /\ spent' = spent
    \/ \E c \in Callers :
        /\ Asks(c) /\ Affordable /\ spent' = SpentToday
        /\ \/ Sends /\ queue' = queue
           \/ Quiet /\ calling' = calling
    \/ \E c \in Callers : /\ Ends(c) /\ Quiet
                          /\ \/ spent' = spent
                             \/ \E n \in 1 .. MaxUsage : spent' = SpentToday + n
    \/ \E i \in DOMAIN queue : queue[i] \in Callers /\ GivesUp(i) /\ Unspent

LEMMA StepCost == ASSUME TypeOK, QueueExact, [Next]_vars PROVE CostStep
  <1>1. ASSUME NEW c \in Callers, NEW k \in Keys, FromCache(c, k) \/ Refused(c, k)
        PROVE  CostStep
    <2>1. Rests
      BY <1>1 DEF FromCache, Refused, request, Rests
    <2>2. Unspent
      BY <1>1 DEF FromCache, Refused, Checked, budget, Quiet, Unspent
    <2>3. QED
      BY <2>1, <2>2 DEF CostStep
  <1>2. ASSUME NEW c \in Callers, NEW k \in Keys, LetThrough(c, k) PROVE CostStep
    <2>1. Asks(c)
      BY <1>2 DEF LetThrough, Idle, Reserve, Asks
    <2>2. Affordable /\ spent' = SpentToday
      BY <1>2 DEF LetThrough
    <2>3. \/ Sends /\ queue' = queue
          \/ Quiet /\ calling' = calling
      <3>1. key'[c] \in Keys
        BY <1>2 DEF LetThrough, TypeOK
      <3>2. QED
        BY <1>2, <3>1 DEF LetThrough, Reserve, Sends, Quiet
    <2>4. QED
      BY <2>1, <2>2, <2>3 DEF CostStep
  <1>3. ASSUME NEW c \in Callers,
               (\E n \in 1 .. MaxUsage : Answered(c, n)) \/ Failed(c) \/ TimedOut(c)
        PROVE  CostStep
    <2>1. Ends(c)
      BY <1>3 DEF Answered, Failed, TimedOut, Leave, Ends
    <2>2. Quiet /\ (spent' = spent \/ \E n \in 1 .. MaxUsage : spent' = SpentToday + n)
      BY <1>3 DEF Answered, Failed, TimedOut, RecordUsage, budget, Quiet
    <2>3. QED
      BY <2>1, <2>2 DEF CostStep
  <1>4. ASSUME NEW c \in Callers, Cancelled(c) PROVE CostStep
    <2>1. \E i \in DOMAIN queue : queue[i] \in Callers /\ GivesUp(i)
      BY <1>4 DEF Cancelled, GivesUp
    <2>2. Unspent
      BY <1>4 DEF Cancelled, budget, Quiet, Unspent
    <2>3. QED
      BY <2>1, <2>2 DEF CostStep
  <1>5. CASE TakeSlot
    <2>1. Takes /\ spent' = spent
      BY <1>5 DEF TakeSlot, Reserve, Takes
    <2>2. Head(queue) \in Callers /\ Head(queue) \in Waiting
      <3>1. queue \in Seq(Callers) /\ queue # <<>>
        BY <1>5 DEF TakeSlot, TypeOK
      <3>2. Head(queue) = queue[1] /\ 1 \in DOMAIN queue /\ Head(queue) \in Callers
        BY <3>1, HeadTailProperties
      <3>3. QED
        BY <3>2 DEF Waiting
    <2>3. key'[Head(queue)] \in Keys
      BY <1>5, <2>2 DEF TakeSlot, QueueExact, Busy, TypeOK
    <2>4. Sends
      <3>1. \E c \in Callers : /\ key'[c] \in Keys
                               /\ made' = Append(made, [key |-> key'[c], at |-> now])
        BY <1>5, <2>2, <2>3 DEF TakeSlot, Reserve
      <3>2. QED
        BY <1>5, <3>1 DEF TakeSlot, Reserve, Sends
    <2>5. QED
      BY <2>1, <2>4 DEF CostStep
  <1>6. CASE Tick \/ UNCHANGED vars
    BY <1>6 DEF Tick, vars, budget, request, Rests, Quiet, Unspent, CostStep
  <1>7. QED
    BY <1>1, <1>2, <1>3, <1>4, <1>5, <1>6 DEF Next

LEMMA CallStep == ASSUME TypeOK, QueueExact, [Next]_vars PROVE Quiet \/ Sends
  BY StepCost DEF CostStep, Unspent

LEMMA DivNat == ASSUME NEW a \in Nat, NEW b \in Nat \ {0} PROVE a \div b \in Nat
  OBVIOUS

LEMMA SpentLess == ASSUME TypeOK PROVE SpentToday \in Nat /\ SpentToday <= spent
  BY DEF TypeOK, SpentToday

-----------------------------------------------------------------------------
(* The callers: who is busy, and the queue.                                *)

LEMMA QueueFinite ==
    ASSUME TypeOK
    PROVE  /\ Waiting \subseteq Callers /\ IsFiniteSet(Waiting) /\ Pending \in Nat
           /\ IsFiniteSet(Busy) /\ Cardinality(Busy) \in Nat /\ Cardinality(Busy) <= N
           /\ N \in Nat
  <1>1. Waiting \subseteq Callers
    BY ElementOfSeq DEF TypeOK, Waiting
  <1>2. Busy \subseteq Callers
    BY DEF Busy
  <1>3. QED
    BY <1>1, <1>2, Limits, FS_Subset, FS_CardinalityType DEF Pending, N

\* An idle caller neither waits nor calls.
LEMMA IdleApart ==
    ASSUME TypeOK, QueueExact, NEW c \in Callers, key[c] = None
    PROVE  c \notin Waiting /\ c \notin calling /\ c \notin Busy /\ Pending + 1 <= N
  <1>1. c \notin Busy
    BY DEF Busy
  <1>2. c \notin Waiting /\ c \notin calling
    BY <1>1 DEF QueueExact
  <1>3. Cardinality(Waiting \cup {c}) = Pending + 1
    BY <1>2, QueueFinite, FS_AddElement DEF Pending
  <1>4. Cardinality(Waiting \cup {c}) <= N
    BY QueueFinite, Limits, FS_Subset DEF N
  <1>5. QED
    BY <1>1, <1>2, <1>3, <1>4

LEMMA AsksQueue ==
    ASSUME TypeOK, QueueExact, NEW c \in Callers, Asks(c)
    PROVE  /\ QueueExact' /\ Busy' = Busy \cup {c}
           /\ Waiting' = IF queue' = queue THEN Waiting ELSE Waiting \cup {c}
  <1>1. c \notin Waiting /\ c \notin calling /\ c \notin Busy
    BY IdleApart DEF Asks
  <1>2. queue \in Seq(Callers) /\ key \in [Callers -> Keys \cup {None}]
    BY DEF TypeOK
  <1>3. Busy' = Busy \cup {c}
    BY <1>2, Limits DEF Asks, Busy
  <1>4. CASE calling' = calling \cup {c} /\ queue' = queue
    <2>1. Waiting' = Waiting
      BY <1>4 DEF Waiting
    <2>2. QueueExact'
      BY <1>1, <1>3, <1>4, <2>1 DEF QueueExact
    <2>3. QED
      BY <1>3, <1>4, <2>1, <2>2
  <1>5. CASE calling' = calling /\ queue' = Append(queue, c)
    <2>1. /\ Len(queue') = Len(queue) + 1 /\ DOMAIN queue' = 1 .. Len(queue) + 1
          /\ DOMAIN queue = 1 .. Len(queue) /\ Len(queue) \in Nat
          /\ \A i \in 1 .. Len(queue) : queue'[i] = queue[i]
          /\ queue'[Len(queue) + 1] = c
      BY <1>2, <1>5, AppendProperties
    <2>2. Waiting' = Waiting \cup {c}
      BY <2>1 DEF Waiting
    <2>3. ASSUME NEW i \in DOMAIN queue', NEW j \in DOMAIN queue', queue'[i] = queue'[j]
          PROVE  i = j
      <3>1. \A m \in DOMAIN queue : queue[m] # c
        BY <1>1 DEF Waiting
      <3>2. QED
        BY <2>1, <2>3, <3>1 DEF QueueExact
    <2>4. QueueExact'
      <3>1. Busy' = calling' \cup Waiting' /\ calling' \cap Waiting' = {}
        BY <1>1, <1>3, <1>5, <2>2 DEF QueueExact
      <3>2. QED
        BY <2>3, <3>1 DEF QueueExact
    <2>5. queue' # queue
      BY <2>1
    <2>6. QED
      BY <1>3, <2>2, <2>4, <2>5
  <1>6. QED
    BY <1>4, <1>5 DEF Asks

LEMMA TakesQueue ==
    ASSUME TypeOK, QueueExact, Takes
    PROVE  /\ QueueExact' /\ Busy' = Busy
           /\ Head(queue) \in Waiting /\ Waiting' = Waiting \ {Head(queue)}
  <1>1. /\ queue \in Seq(Callers) /\ queue # <<>> /\ queue' = Tail(queue)
    BY DEF TypeOK, Takes
  <1>2. /\ Len(queue) \in Nat \ {0} /\ DOMAIN queue = 1 .. Len(queue) /\ Head(queue) = queue[1]
        /\ DOMAIN queue' = 1 .. Len(queue) - 1
        /\ \A i \in 1 .. Len(queue) - 1 : queue'[i] = queue[i + 1]
    BY <1>1, HeadTailProperties
  <1>3. 1 \in DOMAIN queue /\ \A i \in DOMAIN queue' : i + 1 \in DOMAIN queue /\ i + 1 # 1
    BY <1>2
  <1>4. \A i \in DOMAIN queue : i # 1 => i - 1 \in DOMAIN queue' /\ queue'[i - 1] = queue[i]
    BY <1>2
  <1>5. Head(queue) \in Waiting
    BY <1>2, <1>3 DEF Waiting
  <1>6. \A i \in DOMAIN queue' : queue'[i] = queue[i + 1]
    BY <1>2
  <1>7. Waiting' = Waiting \ {Head(queue)}
    <2>1. ASSUME NEW i \in DOMAIN queue' PROVE queue'[i] \in Waiting \ {Head(queue)}
      BY <1>2, <1>3, <1>6 DEF Waiting, QueueExact
    <2>2. ASSUME NEW i \in DOMAIN queue, queue[i] # Head(queue) PROVE queue[i] \in Waiting'
      BY <1>2, <1>4, <2>2 DEF Waiting
    <2>3. QED
      BY <2>1, <2>2 DEF Waiting
  <1>8. Busy' = Busy
    BY DEF Takes, Busy
  <1>9. QueueExact'
    <2>1. Busy' = calling' \cup Waiting' /\ calling' \cap Waiting' = {}
      BY <1>5, <1>7, <1>8 DEF QueueExact, Takes
    <2>2. ASSUME NEW i \in DOMAIN queue', NEW j \in DOMAIN queue', queue'[i] = queue'[j]
          PROVE  i = j
      <3>1. queue[i + 1] = queue[j + 1] /\ i + 1 \in DOMAIN queue /\ j + 1 \in DOMAIN queue
        BY <1>3, <1>6, <2>2
      <3>2. i + 1 = j + 1 /\ i \in Int /\ j \in Int
        BY <1>2, <3>1 DEF QueueExact
      <3>3. QED
        BY <3>2
    <2>3. QED
      BY <2>1, <2>2 DEF QueueExact
  <1>10. QED
    BY <1>5, <1>7, <1>8, <1>9

LEMMA EndsQueue ==
    ASSUME TypeOK, QueueExact, NEW c \in Callers, Ends(c)
    PROVE  QueueExact' /\ Busy' = Busy \ {c} /\ c \in Busy /\ Waiting' = Waiting
  <1>1. key \in [Callers -> Keys \cup {None}]
    BY DEF TypeOK
  <1>2. Waiting' = Waiting
    BY DEF Ends, Waiting
  <1>3. c \in Busy /\ c \notin Waiting
    BY DEF Ends, QueueExact
  <1>4. Busy' = Busy \ {c}
    BY <1>1 DEF Ends, Busy
  <1>5. QED
    BY <1>2, <1>3, <1>4 DEF Ends, QueueExact

LEMMA GivesUpQueue ==
    ASSUME TypeOK, QueueExact, NEW i \in DOMAIN queue, queue[i] \in Callers, GivesUp(i)
    PROVE  /\ QueueExact' /\ Busy' = Busy \ {queue[i]}
           /\ queue[i] \in Busy /\ Waiting' = Waiting \ {queue[i]}
  <1>1. queue \in Seq(Callers) /\ key \in [Callers -> Keys \cup {None}]
    BY DEF TypeOK
  <1>2. /\ queue' \in Seq(Callers) /\ Len(queue') = Len(queue) - 1
        /\ \A j \in 1 .. Len(queue) - 1 : queue'[j] = IF j < i THEN queue[j] ELSE queue[j + 1]
    BY <1>1, RemovedAt DEF GivesUp
  <1>3. /\ DOMAIN queue = 1 .. Len(queue) /\ Len(queue) \in Nat /\ i \in 1 .. Len(queue)
        /\ DOMAIN queue' = 1 .. Len(queue) - 1
    BY <1>1, <1>2
  <1> DEFINE Old(j) == IF j < i THEN j ELSE j + 1
  <1>4. ASSUME NEW j \in DOMAIN queue'
        PROVE  Old(j) \in DOMAIN queue /\ Old(j) # i /\ queue'[j] = queue[Old(j)]
    BY <1>2, <1>3
  <1>5. ASSUME NEW m \in DOMAIN queue, m # i PROVE \E j \in DOMAIN queue' : Old(j) = m
    <2>1. CASE m < i
      <3>1. m \in DOMAIN queue' /\ Old(m) = m
        BY <1>3, <2>1
      <3>2. QED
        BY <3>1
    <2>2. CASE ~(m < i)
      <3>1. m - 1 \in DOMAIN queue' /\ Old(m - 1) = m
        BY <1>3, <1>5, <2>2
      <3>2. QED
        BY <3>1
    <2>3. QED
      BY <2>1, <2>2
  <1>6. \A j, m \in DOMAIN queue' : Old(j) = Old(m) => j = m
    BY <1>3
  <1> HIDE DEF Old
  <1>7. queue[i] \in Waiting
    BY DEF Waiting
  <1>8. Waiting' = Waiting \ {queue[i]}
    <2>1. ASSUME NEW j \in DOMAIN queue' PROVE queue'[j] \in Waiting \ {queue[i]}
      BY <1>4 DEF Waiting, QueueExact
    <2>2. ASSUME NEW m \in DOMAIN queue, queue[m] # queue[i] PROVE queue[m] \in Waiting'
      BY <1>4, <1>5, <2>2 DEF Waiting
    <2>3. QED
      BY <2>1, <2>2 DEF Waiting
  <1>9. queue[i] \in Busy /\ queue[i] \notin calling
    BY <1>7 DEF QueueExact
  <1>10. Busy' = Busy \ {queue[i]}
    BY <1>1 DEF GivesUp, Busy
  <1>11. QueueExact'
    <2>1. Busy' = calling' \cup Waiting' /\ calling' \cap Waiting' = {}
      BY <1>8, <1>9, <1>10 DEF QueueExact, GivesUp
    <2>2. \A j, m \in DOMAIN queue' : queue'[j] = queue'[m] => j = m
      BY <1>4, <1>6 DEF QueueExact
    <2>3. QED
      BY <2>1, <2>2 DEF QueueExact
  <1>12. QED
    BY <1>8, <1>9, <1>10, <1>11

LEMMA QueueExactKept == ASSUME IInv, [Next]_vars PROVE QueueExact'
  <1>1. TypeOK /\ QueueExact
    BY DEF IInv
  <1>2. CASE Rests
    BY <1>1, <1>2 DEF Rests, QueueExact, Busy, Waiting
  <1>3. QED
    BY <1>1, <1>2, CallerStep, AsksQueue, TakesQueue, EndsQueue, GivesUpQueue

-----------------------------------------------------------------------------
(* The types.                                                              *)

LEMMA Later == ASSUME TypeOK, QueueExact, [Next]_vars
               PROVE  now' \in Nat /\ now \in Nat /\ now <= now' /\ Held \subseteq Held'
  <1>1. now \in Nat
    BY DEF TypeOK
  <1>2. now' \in {now, now + 1}
    BY CallStep DEF Quiet, Sends
  <1>3. now' \in Nat /\ now <= now'
    BY <1>1, <1>2
  <1>4. 0 .. now \subseteq 0 .. now'
    BY <1>1, <1>3
  <1>5. QED
    BY <1>1, <1>3, <1>4 DEF Held

LEMMA NumbersKept == ASSUME TypeOK, QueueExact, [Next]_vars PROVE Numbers'
  <1>1. now \in Nat /\ session \in Nat /\ spent \in Nat /\ day \in Nat
    BY DEF TypeOK
  <1>2. session' \in Nat
    BY <1>1, CallStep DEF Quiet, Sends
  <1>3. spent' \in Nat
    <2>1. \/ spent' \in {spent, SpentToday}
          \/ \E n \in 1 .. MaxUsage : spent' = SpentToday + n
      BY StepCost DEF CostStep, Unspent
    <2>2. QED
      BY <1>1, <2>1, SpentLess
  <1>4. day' \in {day, now \div Day}
    BY DEF Next, vars, budget, FromCache, Refused, Checked, LetThrough, Answered, RecordUsage,
       Failed, TimedOut, Cancelled, TakeSlot, Tick
  <1>5. now \div Day \in Nat
    BY <1>1, Limits, DivNat
  <1>6. QED
    BY <1>1, <1>2, <1>3, <1>4, <1>5, Later DEF Numbers

LEMMA RequestedKept == ASSUME TypeOK, QueueExact, [Next]_vars PROVE Requested'
  <1>1. key \in [Callers -> Keys \cup {None}] /\ asked \in [Callers -> 0 .. now]
    BY DEF TypeOK
  <1>2. key' \in [Callers -> Keys \cup {None}]
    BY <1>1, CallerStep DEF Rests, Asks, Takes, Ends, GivesUp
  <1>3. asked' = asked \/ \E c \in Callers : asked' = [asked EXCEPT ![c] = now]
    BY DEF Next, vars, request, FromCache, Refused, LetThrough, Answered, Failed, TimedOut,
       Cancelled, TakeSlot, Tick
  <1>4. now \in 0 .. now /\ 0 .. now \subseteq 0 .. now'
    BY Later
  <1>5. asked' \in [Callers -> 0 .. now]
    BY <1>1, <1>3, <1>4
  <1>6. asked' \in [Callers -> 0 .. now']
    BY <1>4, <1>5
  <1>7. QED
    BY <1>2, <1>6 DEF Requested

LEMMA CachedKept == ASSUME TypeOK, QueueExact, [Next]_vars PROVE Cached'
  <1>1. cache \in Seq(Held) /\ Len(cache) <= Entries /\ Entries \in Nat
    BY BudgetAssumption DEF TypeOK, Held
  <1>2. ASSUME NEW k \in Keys, Places(k) # {}, cache' = Append(Without(k), cache[Entry(k)])
        PROVE  cache' \in Seq(Held) /\ Len(cache') <= Entries
    <2>1. /\ Without(k) \in Seq(Held) /\ Len(Without(k)) < Entries /\ Len(Without(k)) \in Nat
          /\ cache[Entry(k)] \in Held
      BY <1>2, WithoutType, EntryPlace
    <2>2. cache' \in Seq(Held) /\ Len(cache') = Len(Without(k)) + 1
      BY <1>2, <2>1, AppendProperties
    <2>3. QED
      BY <1>1, <2>1, <2>2
  <1>3. ASSUME NEW c \in calling, cache' = Stored(key[c], asked[c])
        PROVE  cache' \in Seq(Held) /\ Len(cache') <= Entries
    <2>1. c \in Callers /\ asked[c] \in 0 .. now /\ key[c] \in Keys \cup {None}
      BY DEF TypeOK
    <2>2. key[c] \in Keys
      BY <2>1 DEF QueueExact, Busy
    <2>3. QED
      BY <1>3, <2>1, <2>2, StoredType
  <1>4. ASSUME NEW k \in Keys, cache' = Without(k)
        PROVE  cache' \in Seq(Held) /\ Len(cache') <= Entries
    BY <1>4, WithoutType
  <1>5. \/ UNCHANGED cache
        \/ \E k \in Keys : Places(k) # {} /\ cache' = Append(Without(k), cache[Entry(k)])
        \/ \E k \in Keys : cache' = Without(k)
        \/ \E c \in calling : cache' = Stored(key[c], asked[c])
    <2>1. ASSUME NEW c \in Callers, NEW k \in Keys, FromCache(c, k)
          PROVE  Places(k) # {} /\ cache' = Append(Without(k), cache[Entry(k)])
      BY <2>1 DEF FromCache, Fresh
    <2>2. ASSUME NEW c \in Callers, NEW k \in Keys, Refused(c, k) \/ LetThrough(c, k)
          PROVE  cache' = Without(k)
      BY <2>2 DEF Refused, LetThrough
    <2>3. ASSUME NEW c \in Callers, NEW n \in 1 .. MaxUsage, Answered(c, n)
          PROVE  \/ UNCHANGED cache
                 \/ c \in calling /\ cache' = Stored(key[c], asked[c])
      BY <2>3 DEF Answered
    <2>4. CASE \/ \E c \in Callers : Failed(c) \/ TimedOut(c) \/ Cancelled(c)
               \/ TakeSlot \/ Tick \/ UNCHANGED vars
      BY <2>4 DEF Failed, TimedOut, Cancelled, TakeSlot, Tick, vars
    <2>5. QED
      BY <2>1, <2>2, <2>3, <2>4 DEF Next
  <1>6. cache' \in Seq(Held) /\ Len(cache') <= Entries
    BY <1>1, <1>2, <1>3, <1>4, <1>5
  <1>7. cache' \in Seq(Held')
    BY <1>6, Later, SeqMonotonic
  <1>8. QED
    BY <1>6, <1>7 DEF Cached

LEMMA QueuedKept == ASSUME TypeOK, QueueExact, [Next]_vars PROVE Queued'
  <1>1. queue \in Seq(Callers)
    BY DEF TypeOK
  <1>2. CASE Takes
    BY <1>1, <1>2, HeadTailProperties DEF Takes, Queued
  <1>3. ASSUME NEW i \in DOMAIN queue, GivesUp(i) PROVE Queued'
    BY <1>1, <1>3, RemovedAt DEF GivesUp, Queued
  <1>4. ASSUME NEW c \in Callers, Asks(c) \/ Ends(c) PROVE Queued'
    BY <1>1, <1>4, AppendProperties DEF Asks, Ends, Queued
  <1>5. CASE Rests
    BY <1>1, <1>5 DEF Rests, Queued
  <1>6. QED
    BY <1>2, <1>3, <1>4, <1>5, CallerStep

LEMMA SlottedKept == ASSUME TypeOK, QueueExact, [Next]_vars PROVE Slotted'
  <1>1. calling \subseteq Callers /\ Cardinality(calling) <= Slots /\ Slots \in Nat
    BY Limits DEF TypeOK
  <1>2. IsFiniteSet(calling) /\ Cardinality(calling) \in Nat
    BY <1>1, Limits, FS_Subset, FS_CardinalityType
  <1>3. ASSUME NEW c \in Callers, Cardinality(calling) < Slots, calling' = calling \cup {c}
        PROVE  Slotted'
    <2>1. Cardinality(calling \cup {c}) \in {Cardinality(calling), Cardinality(calling) + 1}
      BY <1>2, FS_AddElement, Zenon
    <2>2. Cardinality(calling') <= Slots
      BY <1>1, <1>2, <1>3, <2>1
    <2>3. QED
      BY <1>1, <1>3, <2>2 DEF Slotted
  <1>4. ASSUME NEW c, calling' = calling \ {c} PROVE Slotted'
    <2>1. Cardinality(calling \ {c}) \in {Cardinality(calling), Cardinality(calling) - 1}
      BY <1>2, FS_RemoveElement, Zenon
    <2>2. Cardinality(calling') <= Slots
      BY <1>1, <1>2, <1>4, <2>1
    <2>3. QED
      BY <1>1, <1>4, <2>2 DEF Slotted
  <1>5. CASE calling' = calling
    BY <1>1, <1>5 DEF Slotted
  <1>6. Takes => Head(queue) \in Callers
    BY HeadTailProperties DEF Takes, TypeOK
  <1>7. QED
    BY <1>3, <1>4, <1>5, <1>6, CallerStep DEF Rests, Takes, Asks, Ends, GivesUp

LEMMA WindowKept == ASSUME TypeOK, QueueExact, [Next]_vars PROVE Window'
  <1>1. made \in Seq(Held) /\ minute \subseteq DOMAIN made
    BY DEF TypeOK, Held
  <1>2. made \in Seq(Held')
    BY <1>1, Later, SeqMonotonic
  <1>3. Recent \subseteq minute
    BY DEF Recent
  <1>4. CASE Quiet
    BY <1>1, <1>2, <1>3, <1>4 DEF Quiet, Window
  <1>5. CASE Sends
    <2>1. PICK c \in Callers : /\ key'[c] \in Keys
                               /\ made' = Append(made, [key |-> key'[c], at |-> now])
      BY <1>5 DEF Sends
    <2>2. PICK window \in {minute, Recent} : minute' = window \cup {Len(made) + 1}
      BY <1>5 DEF Sends
    <2>3. [key |-> key'[c], at |-> now] \in Held'
      BY <2>1, Later DEF Held
    <2>4. /\ made' \in Seq(Held') /\ DOMAIN made = 1 .. Len(made) /\ Len(made) \in Nat
          /\ DOMAIN made' = 1 .. Len(made) + 1
      BY <1>2, <2>1, <2>3, AppendProperties
    <2>5. QED
      BY <1>1, <1>3, <2>2, <2>4 DEF Window
  <1>6. QED
    BY <1>4, <1>5, CallStep

LEMMA TypeKept == ASSUME TypeOK, QueueExact, [Next]_vars PROVE TypeOK'
  <1>1. Numbers' /\ Window' /\ Requested' /\ Cached' /\ Queued' /\ Slotted'
    BY NumbersKept, WindowKept, RequestedKept, CachedKept, QueuedKept, SlottedKept
  <1>2. QED
    BY <1>1 DEF TypeOK, Held, Numbers, Window, Requested, Cached, Queued, Slotted

-----------------------------------------------------------------------------
(* Calls and tokens.                                                       *)

\* The stamps of made are numbers.
LEMMA Stamps == ASSUME TypeOK, NEW i \in DOMAIN made
                PROVE  made[i].at \in Nat /\ i \in 1 .. Len(made) /\ Len(made) \in Nat
  <1>1. made \in Seq(Held) /\ now \in Nat
    BY DEF TypeOK, Held
  <1>2. made[i] \in Held
    BY <1>1, ElementOfSeq
  <1>3. QED
    BY <1>1, <1>2 DEF Held

LEMMA LastMinuteFinite ==
    ASSUME TypeOK PROVE IsFiniteSet(LastMinute) /\ Cardinality(LastMinute) \in Nat
  <1>1. LastMinute \subseteq 1 .. Len(made) /\ Len(made) \in Nat
    BY DEF TypeOK, LastMinute
  <1>2. IsFiniteSet(1 .. Len(made))
    BY <1>1, FS_Interval
  <1>3. QED
    BY <1>1, <1>2, FS_Subset, FS_CardinalityType

\* A call of the last minute is one that was, or the one just sent.
LEMMA LastMinuteStep ==
    ASSUME TypeOK, QueueExact, Counted, [Next]_vars
    PROVE  /\ Counted'
           /\ Quiet => LastMinute' \subseteq LastMinute
           /\ Sends => LastMinute' \subseteq LastMinute \cup {Len(made) + 1}
  <1>1. now \in Nat /\ Minute \in Nat /\ made \in Seq(Held) /\ DOMAIN made = 1 .. Len(made)
    BY Limits DEF TypeOK, Held
  <1>2. LastMinute \subseteq Recent
    BY DEF Counted, LastMinute, Recent
  <1>3. CASE Quiet
    <2>1. ASSUME NEW i \in LastMinute' PROVE i \in LastMinute
      <3>1. i \in DOMAIN made /\ made[i].at + Minute > now'
        BY <1>3, <2>1 DEF LastMinute, Quiet
      <3>2. made[i].at \in Nat /\ now' >= now /\ now' \in Nat
        BY <3>1, Stamps, Later
      <3>3. made[i].at + Minute > now
        BY <1>1, <3>1, <3>2
      <3>4. QED
        BY <3>1, <3>3 DEF LastMinute
    <2>2. Counted'
      BY <1>2, <1>3, <2>1 DEF Counted, Quiet
    <2>3. ~Sends
      BY <1>3 DEF Quiet, Sends, TypeOK
    <2>4. QED
      BY <2>1, <2>2, <2>3
  <1>4. CASE Sends
    <2>1. PICK c \in Callers : /\ key'[c] \in Keys
                               /\ made' = Append(made, [key |-> key'[c], at |-> now])
      BY <1>4 DEF Sends
    <2>2. /\ DOMAIN made' = 1 .. Len(made) + 1 /\ Len(made) \in Nat
          /\ \A i \in 1 .. Len(made) : made'[i] = made[i]
      <3>1. [key |-> key'[c], at |-> now] \in Held
        BY <1>1, <2>1 DEF Held
      <3>2. QED
        BY <1>1, <2>1, <3>1, AppendProperties
    <2>3. ASSUME NEW i \in LastMinute', i # Len(made) + 1 PROVE i \in LastMinute
      <3>1. i \in DOMAIN made /\ made'[i] = made[i]
        BY <1>1, <2>2, <2>3 DEF LastMinute
      <3>2. QED
        BY <1>4, <2>3, <3>1 DEF LastMinute, Sends
    <2>4. Counted'
      <3>1. LastMinute \subseteq minute /\ Len(made) + 1 \in minute' /\ Recent \cup minute' # {}
        BY <1>4 DEF Counted, Sends
      <3>2. LastMinute \subseteq minute'
        BY <1>2, <1>4, <3>1 DEF Sends
      <3>3. QED
        BY <2>3, <3>1, <3>2 DEF Counted
    <2>5. ~Quiet
      BY <1>4 DEF Quiet, Sends, TypeOK
    <2>6. QED
      BY <2>3, <2>4, <2>5
  <1>5. QED
    BY <1>3, <1>4, CallStep

LEMMA Apart == ASSUME TypeOK, Quiet, Sends PROVE FALSE
  <1>1. session \in Nat /\ session' = session /\ session' = session + 1
    BY DEF TypeOK, Quiet, Sends
  <1>2. QED
    BY <1>1

LEMMA LastMinuteCount ==
    ASSUME TypeOK, QueueExact, Counted, [Next]_vars
    PROVE  /\ Cardinality(LastMinute') \in Nat
           /\ Quiet => Cardinality(LastMinute') <= Cardinality(LastMinute)
           /\ Sends => Cardinality(LastMinute') <= Cardinality(LastMinute) + 1
  <1>1. IsFiniteSet(LastMinute) /\ Cardinality(LastMinute) \in Nat
    BY LastMinuteFinite
  <1>2. CASE Quiet
    <2>1. LastMinute' \subseteq LastMinute /\ ~Sends
      BY <1>2, LastMinuteStep, Apart
    <2>2. QED
      BY <1>1, <2>1, FS_Subset, FS_CardinalityType
  <1>3. CASE Sends
    <2>1. LastMinute' \subseteq LastMinute \cup {Len(made) + 1} /\ ~Quiet
      BY <1>3, LastMinuteStep, Apart
    <2>2. IsFiniteSet(LastMinute \cup {Len(made) + 1})
      BY <1>1, FS_AddElement
    <2>3. Cardinality(LastMinute \cup {Len(made) + 1})
            \in {Cardinality(LastMinute), Cardinality(LastMinute) + 1}
      BY <1>1, FS_AddElement, Zenon
    <2>4. Cardinality(LastMinute') <= Cardinality(LastMinute \cup {Len(made) + 1})
      BY <2>1, <2>2, FS_Subset
    <2>5. Cardinality(LastMinute') \in Nat
      BY <2>1, <2>2, FS_Subset, FS_CardinalityType
    <2>6. QED
      BY <1>1, <2>1, <2>3, <2>4, <2>5
  <1>4. QED
    BY <1>2, <1>3, CallStep

\* The window is finite, and holds the calls of the last minute.
LEMMA RecentCount == ASSUME TypeOK, Counted, Affordable
                     PROVE  Cardinality(LastMinute) < PerMinute /\ session < PerSession
  <1>1. Recent \subseteq 1 .. Len(made) /\ Len(made) \in Nat
    BY DEF TypeOK, Recent
  <1>2. IsFiniteSet(1 .. Len(made))
    BY <1>1, FS_Interval
  <1>3. IsFiniteSet(Recent) /\ Cardinality(Recent) \in Nat
    BY <1>1, <1>2, FS_Subset, FS_CardinalityType
  <1>4. LastMinute \subseteq Recent
    BY DEF Counted, LastMinute, Recent
  <1>5. Cardinality(LastMinute) <= Cardinality(Recent)
    BY <1>3, <1>4, FS_Subset
  <1>6. Cardinality(Recent) < PerMinute /\ session < PerSession
    BY DEF Affordable
  <1>7. QED
    BY <1>3, <1>5, <1>6, LastMinuteFinite, Limits

LEMMA FewerFit ==
    ASSUME NEW l \in Nat, NEW m \in Nat, NEW p \in Nat, NEW q \in Nat, NEW n \in Nat,
           l + p < n, m <= l, q <= p
    PROVE  m + q < n
  OBVIOUS

LEMMA OneSentFits ==
    ASSUME NEW l \in Nat, NEW m \in Nat, NEW p \in Nat, NEW q \in Nat, NEW n \in Nat,
           l + p < n, m <= l + 1, q = p - 1
    PROVE  m + q < n
  OBVIOUS

LEMMA OneLetThroughFits ==
    ASSUME NEW l \in Nat, NEW m \in Nat, NEW p \in Nat, NEW q \in Nat, NEW a \in Nat,
           NEW k \in Nat, l < a, p + 1 <= k,
           (m <= l + 1 /\ q <= p) \/ (m <= l /\ q <= p + 1)
    PROVE  m + q < a + k
  OBVIOUS

LEMMA CallsFitKept == ASSUME IInv, [Next]_vars PROVE CallsFit'
  <1>1. TypeOK /\ QueueExact /\ Counted /\ CallsFit
    BY DEF IInv
  <1> DEFINE L == Cardinality(LastMinute)
             minutes == PerMinute + N
             sessions == PerSession + N
             Fits == L' + Pending' < minutes /\ session' + Pending' < sessions
  <1>2. /\ L \in Nat /\ Pending \in Nat /\ N \in Nat /\ session \in Nat
        /\ L + Pending < minutes /\ session + Pending < sessions
    BY <1>1, LastMinuteFinite, QueueFinite DEF CallsFit, TypeOK
  <1>3. TypeOK' /\ QueueExact'
    BY <1>1, TypeKept, QueueExactKept DEF IInv
  <1>4. L' \in Nat /\ Pending' \in Nat /\ session' \in Nat
    <2>1. L' \in Nat
      BY <1>1, LastMinuteCount
    <2>2. Waiting' \subseteq Callers
      BY <1>3, ElementOfSeq DEF TypeOK, Waiting
    <2>3. Pending' \in Nat
      BY <2>2, Limits, FS_Subset, FS_CardinalityType DEF Pending
    <2>4. QED
      BY <1>3, <2>1, <2>3 DEF TypeOK
  <1>5. Quiet => L' <= L /\ session' = session
    BY <1>1, LastMinuteCount DEF Quiet
  <1>6. Sends => L' <= L + 1 /\ session' = session + 1
    BY <1>1, LastMinuteCount DEF Sends
  <1>7. IsFiniteSet(Waiting)
    BY <1>1, QueueFinite
  <1>8. minutes \in Nat /\ sessions \in Nat /\ minutes = PerMinute + N /\ sessions = PerSession + N
        /\ PerMinute \in Nat /\ PerSession \in Nat
    BY <1>2, Limits
  <1>9. SUFFICES Fits
    BY DEF CallsFit, N
  <1> HIDE DEF L, minutes, sessions
  <1>10. ASSUME Quiet, Pending' <= Pending PROVE Fits
    <2>1. L' <= L /\ session' <= session
      BY <1>2, <1>5, <1>10
    <2>2. L' + Pending' < minutes
      BY <1>2, <1>4, <1>8, <1>10, <2>1, FewerFit
    <2>3. session' + Pending' < sessions
      BY <1>2, <1>4, <1>8, <1>10, <2>1, FewerFit
    <2>4. QED
      BY <2>2, <2>3
  <1>11. ASSUME NEW w, Waiting' = Waiting \ {w} PROVE Pending' <= Pending
    <2>1. Cardinality(Waiting \ {w}) \in {Cardinality(Waiting), Cardinality(Waiting) - 1}
      BY <1>7, FS_RemoveElement, Zenon
    <2>2. QED
      BY <1>2, <1>11, <2>1 DEF Pending
  <1>12. CASE Rests /\ Unspent
    <2>1. Pending' = Pending
      BY <1>12 DEF Rests, Pending, Waiting
    <2>2. Quiet /\ Pending' <= Pending
      BY <1>2, <1>12, <2>1 DEF Unspent
    <2>3. QED
      BY <1>10, <2>2
  <1>13. CASE Takes /\ Sends
    <2>1. Head(queue) \in Waiting /\ Waiting' = Waiting \ {Head(queue)}
      BY <1>1, <1>13, TakesQueue
    <2>2. Pending' = Pending - 1
      BY <1>7, <2>1, FS_RemoveElement DEF Pending
    <2>3. L' <= L + 1 /\ session' <= session + 1
      BY <1>2, <1>6, <1>13
    <2>4. L' + Pending' < minutes
      BY <1>2, <1>4, <1>8, <2>2, <2>3, OneSentFits
    <2>5. session' + Pending' < sessions
      BY <1>2, <1>4, <1>8, <2>2, <2>3, OneSentFits
    <2>6. QED
      BY <2>4, <2>5
  <1>14. ASSUME NEW c \in Callers, Asks(c), Affordable,
                \/ Sends /\ queue' = queue
                \/ Quiet /\ calling' = calling
         PROVE  Fits
    <2>1. L < PerMinute /\ session < PerSession
      BY <1>1, <1>14, RecentCount DEF L
    <2>2. Pending + 1 <= N /\ c \notin Waiting
      BY <1>1, <1>14, IdleApart DEF Asks
    <2>3. CASE Sends /\ queue' = queue
      <3>1. Pending' <= Pending
        BY <1>2, <2>3 DEF Pending, Waiting
      <3>2. L' <= L + 1 /\ session' <= session + 1
        BY <1>2, <1>6, <2>3
      <3>3. L' + Pending' < minutes
        BY <1>2, <1>4, <1>8, <2>1, <2>2, <3>1, <3>2, OneLetThroughFits
      <3>4. session' + Pending' < sessions
        BY <1>2, <1>4, <1>8, <2>1, <2>2, <3>1, <3>2, OneLetThroughFits
      <3>5. QED
        BY <3>3, <3>4
    <2>4. CASE Quiet
      <3>1. Cardinality(Waiting \cup {c}) = Cardinality(Waiting) + 1
        BY <1>7, <2>2, FS_AddElement
      <3>2. Waiting' \in {Waiting, Waiting \cup {c}}
        BY <1>1, <1>14, AsksQueue
      <3>3. Pending' \in {Pending, Pending + 1}
        BY <3>1, <3>2, Zenon DEF Pending
      <3>4. L' <= L /\ session' <= session /\ Pending' <= Pending + 1
        BY <1>2, <1>5, <2>4, <3>3
      <3>5. L' + Pending' < minutes
        BY <1>2, <1>4, <1>8, <2>1, <2>2, <3>4, OneLetThroughFits
      <3>6. session' + Pending' < sessions
        BY <1>2, <1>4, <1>8, <2>1, <2>2, <3>4, OneLetThroughFits
      <3>7. QED
        BY <3>5, <3>6
    <2>5. QED
      BY <1>14, <2>3, <2>4
  <1>15. ASSUME NEW c \in Callers, Ends(c), Quiet PROVE Fits
    <2>1. Pending' = Pending
      BY <1>15 DEF Ends, Pending, Waiting
    <2>2. Pending' <= Pending
      BY <1>2, <2>1
    <2>3. QED
      BY <1>10, <1>15, <2>2
  <1>16. ASSUME NEW i \in DOMAIN queue, queue[i] \in Callers, GivesUp(i), Unspent PROVE Fits
    <2>1. Waiting' = Waiting \ {queue[i]}
      BY <1>1, <1>16, GivesUpQueue
    <2>2. Pending' <= Pending /\ Quiet
      BY <1>11, <1>16, <2>1 DEF Unspent
    <2>3. QED
      BY <1>10, <2>2
  <1> HIDE DEF Fits
  <1>17. QED
    BY <1>1, <1>12, <1>13, <1>14, <1>15, <1>16, StepCost DEF CostStep

\* What the callers with a request may still cost.
LEMMA Product == ASSUME NEW a \in Nat, NEW b \in Nat, NEW m \in Nat, a <= b
                 PROVE  a * m \in Nat /\ a * m <= b * m
  <1>1. PICK d \in Nat : b = a + d
    <2>1. b - a \in Nat /\ b = a + (b - a)
      OBVIOUS
    <2>2. QED
      BY <2>1
  <1>2. (a + d) * m = a * m + d * m /\ a * m \in Nat /\ d * m \in Nat
    OBVIOUS
  <1>3. QED
    BY <1>1, <1>2

LEMMA OneLess == ASSUME NEW b \in Nat, NEW m \in Nat, b > 0
                 PROVE  (b - 1) * m \in Nat /\ (b - 1) * m + m = b * m
  <1>1. PICK d \in Nat : b = d + 1
    <2>1. b - 1 \in Nat /\ b = (b - 1) + 1
      OBVIOUS
    <2>2. QED
      BY <2>1
  <1>2. (d + 1) * m = d * m + m /\ d * m \in Nat /\ (d + 1) - 1 = d
    OBVIOUS
  <1>3. QED
    BY <1>1, <1>2

\* What a step does to the busy callers and the tokens.
TokenStep ==
    \/ Busy' \subseteq Busy /\ spent' <= spent
    \/ SpentToday + Estimate <= Daily /\ spent' = SpentToday
    \/ \E c \in Busy : Busy' = Busy \ {c} /\ spent' <= spent + MaxUsage

LEMMA TokenSteps == ASSUME TypeOK, QueueExact, [Next]_vars PROVE TokenStep
  <1>1. /\ key \in [Callers -> Keys \cup {None}] /\ spent \in Nat /\ MaxUsage \in Nat
        /\ SpentToday \in Nat /\ SpentToday <= spent
    BY SpentLess, Limits DEF TypeOK
  <1>2. CASE Rests /\ Unspent
    <2>1. Busy' = Busy
      BY <1>2 DEF Rests, Busy
    <2>2. spent' <= spent
      BY <1>1, <1>2 DEF Unspent
    <2>3. QED
      BY <2>1, <2>2 DEF TokenStep
  <1>3. CASE Takes /\ spent' = spent
    <2>1. Busy' = Busy /\ spent' <= spent
      BY <1>1, <1>3 DEF Takes, Busy
    <2>2. QED
      BY <2>1 DEF TokenStep
  <1>4. CASE Affordable /\ spent' = SpentToday
    BY <1>4 DEF Affordable, TokenStep
  <1>5. ASSUME NEW c \in Callers, Ends(c),
               \/ spent' = spent
               \/ \E n \in 1 .. MaxUsage : spent' = SpentToday + n
        PROVE  TokenStep
    <2>1. c \in Busy
      BY <1>5 DEF Ends, QueueExact
    <2>2. Busy' = Busy \ {c}
      BY <1>1, <1>5 DEF Ends, Busy
    <2>3. spent' <= spent + MaxUsage
      BY <1>1, <1>5
    <2>4. QED
      BY <2>1, <2>2, <2>3 DEF TokenStep
  <1>6. ASSUME NEW i \in DOMAIN queue, GivesUp(i), Unspent PROVE TokenStep
    <2>1. Busy' \subseteq Busy
      BY <1>1, <1>6 DEF GivesUp, Busy
    <2>2. spent' <= spent
      BY <1>1, <1>6 DEF Unspent
    <2>3. QED
      BY <2>1, <2>2 DEF TokenStep
  <1>7. QED
    BY <1>2, <1>3, <1>4, <1>5, <1>6, StepCost DEF CostStep

LEMMA TokensFitKept == ASSUME IInv, [Next]_vars PROVE TokensFit'
  <1>1. TypeOK /\ QueueExact /\ TokensFit /\ TypeOK'
    BY TypeKept DEF IInv
  <1> DEFINE B == Cardinality(Busy)
  <1>2. /\ spent \in Nat /\ spent' \in Nat /\ MaxUsage \in Nat /\ Estimate \in Nat /\ Daily \in Nat
        /\ N \in Nat /\ B \in Nat /\ B <= N /\ IsFiniteSet(Busy) /\ SpentToday \in Nat
    BY <1>1, Limits, QueueFinite, SpentLess DEF TypeOK
  <1>3. IsFiniteSet(Busy') /\ B' \in Nat /\ B' <= N
    <2>1. Busy' \subseteq Callers
      BY DEF Busy
    <2>2. QED
      BY <2>1, Limits, FS_Subset, FS_CardinalityType DEF N
  <1>4. N * MaxUsage \in Nat /\ B' * MaxUsage \in Nat /\ B' * MaxUsage <= N * MaxUsage
        /\ B * MaxUsage \in Nat
    BY <1>2, <1>3, Product
  <1>5. CASE Busy' \subseteq Busy /\ spent' <= spent
    <2>1. B' <= B
      BY <1>2, <1>5, FS_Subset
    <2>2. B' * MaxUsage <= B * MaxUsage
      BY <1>2, <1>3, <2>1, Product
    <2>3. CASE Busy = {} /\ spent = 0
      BY <1>2, <1>5, <2>3 DEF TokensFit
    <2>4. CASE spent + Estimate + B * MaxUsage <= Daily + N * MaxUsage
      <3> HIDE DEF B
      <3>1. spent' + Estimate + B' * MaxUsage <= Daily + N * MaxUsage
        BY <1>2, <1>4, <1>5, <2>2, <2>4
      <3>2. QED
        BY <3>1 DEF TokensFit, N, B
    <2>5. QED
      BY <1>1, <2>3, <2>4 DEF TokensFit
  <1>6. CASE SpentToday + Estimate <= Daily /\ spent' = SpentToday
    <2> HIDE DEF B
    <2>1. spent' + Estimate + B' * MaxUsage <= Daily + N * MaxUsage
      BY <1>2, <1>4, <1>6
    <2>2. QED
      BY <2>1 DEF TokensFit, N, B
  <1>7. ASSUME NEW c \in Busy, Busy' = Busy \ {c}, spent' <= spent + MaxUsage PROVE TokensFit'
    <2>1. B' = B - 1 /\ B > 0
      <3>1. Cardinality(Busy \ {c}) = Cardinality(Busy) - 1
        BY <1>2, FS_RemoveElement
      <3>2. B' = B - 1
        BY <1>7, <3>1
      <3>3. QED
        BY <1>2, <1>3, <3>2
    <2>2. B' * MaxUsage + MaxUsage = B * MaxUsage
      BY <1>2, <2>1, OneLess
    <2>3. spent + Estimate + B * MaxUsage <= Daily + N * MaxUsage
      BY <1>1, <1>7 DEF TokensFit
    <2> HIDE DEF B
    <2>4. spent' + Estimate + B' * MaxUsage <= Daily + N * MaxUsage
      BY <1>2, <1>4, <1>7, <2>2, <2>3
    <2>5. QED
      BY <2>4 DEF TokensFit, N, B
  <1>8. QED
    BY <1>1, <1>5, <1>6, <1>7, TokenSteps DEF TokenStep

-----------------------------------------------------------------------------
(* The theorems.                                                           *)

LEMMA InitIInv == ASSUME Init PROVE IInv
  <1>1. TypeOK
    BY BudgetAssumption, FS_EmptySet DEF Init, TypeOK
  <1>2. Busy = {} /\ Waiting = {} /\ LastMinute = {} /\ QueueExact
    BY DEF Init, Busy, Waiting, LastMinute, QueueExact
  <1>3. Counted /\ TokensFit
    BY <1>2 DEF Init, Counted, TokensFit
  <1>4. Pending = 0 /\ Cardinality(LastMinute) = 0
    BY <1>2, FS_EmptySet DEF Pending
  <1>5. CallsFit
    BY <1>1, <1>4, Limits, QueueFinite DEF Init, CallsFit
  <1>6. QED
    BY <1>1, <1>2, <1>3, <1>5 DEF IInv

LEMMA NextIInv == ASSUME IInv, [Next]_vars PROVE IInv'
  <1>1. TypeOK' /\ QueueExact' /\ Counted'
    BY TypeKept, QueueExactKept, LastMinuteStep DEF IInv
  <1>2. QED
    BY <1>1, CallsFitKept, TokensFitKept DEF IInv

\* The bookkeeping of generation_policy.py, with what its suspended callers are
\* still going to spend, in every reachable state.
THEOREM SpecIInv == Spec => []IInv
  <1>1. Init => IInv
    BY InitIInv
  <1>2. IInv /\ [Next]_vars => IInv'
    BY NextIInv
  <1>3. QED
    BY <1>1, <1>2, PTL DEF Spec

\* The limits of a minute, of the session and of the day are exceeded by no more
\* than overlapping callers can add, who are checked before the semaphore of
\* compose and counted behind it (services/generation_policy.py).
THEOREM BudgetIsHeld == Spec => []BudgetHeld
  <1>1. IInv => BudgetHeld
    <2>1. SUFFICES ASSUME IInv PROVE BudgetHeld
      OBVIOUS
    <2>2. TypeOK /\ QueueExact /\ CallsFit /\ TokensFit
      BY <2>1 DEF IInv
    <2>3. /\ Cardinality(LastMinute) \in Nat /\ Pending \in Nat /\ N \in Nat
          /\ PerMinute \in Nat /\ PerSession \in Nat /\ session \in Nat
      BY <2>2, LastMinuteFinite, QueueFinite, Limits DEF TypeOK
    <2>4. CallsNear
      BY <2>2, <2>3 DEF CallsFit, CallsNear, WithWaiters, N
    <2>5. TokensNear
      <3>1. /\ Cardinality(Busy) \in Nat /\ MaxUsage \in Nat /\ Estimate \in Nat /\ Daily \in Nat
            /\ spent \in Nat
        BY <2>2, QueueFinite, Limits DEF TypeOK
      <3>2. Cardinality(Busy) * MaxUsage \in Nat /\ N * MaxUsage \in Nat
        BY <2>3, <3>1, Product
      <3>3. CASE spent + Estimate + Cardinality(Busy) * MaxUsage <= Daily + N * MaxUsage
        <4>1. spent + Estimate <= Daily + N * MaxUsage
          BY <3>1, <3>2, <3>3
        <4>2. QED
          BY <4>1 DEF TokensNear, N
      <3>4. QED
        BY <2>2, <3>3 DEF TokensFit, TokensNear
    <2>6. QED
      BY <2>2, <2>4, <2>5 DEF BudgetHeld
  <1>2. QED
    BY <1>1, SpecIInv, PTL

=============================================================================
