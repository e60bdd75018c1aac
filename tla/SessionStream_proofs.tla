------------------------ MODULE SessionStream_proofs ------------------------
(***************************************************************************)
(* The event stream of a session for any number of events, any bundles and *)
(* pages, any losses, drops and seeks.                                     *)
(*                                                                         *)
(* The stream is exact because every page and every frame begins where the *)
(* cursor is: IInv says what a catch-up still has to bring, for which      *)
(* record, and that it lies in the durable log.                            *)
(* A replay that only seeks forward keeps everything at or before its      *)
(* position (Announced, Following), so its feed is bounded too.            *)
(***************************************************************************)
EXTENDS SessionStream, SequenceTheorems, TLAPS

Events(d) == [kind : {"event"}, seq : 1 .. d]
States(d) == [kind : {"state"}, seq : 0 .. d, replay : BOOLEAN]
Known(d) == Events(d) \cup States(d)

\* Nothing is on its way that is not durable.
Produced ==
    /\ durable \in 0 .. MaxSeq /\ public \in [seq : 0 .. durable, replay : BOOLEAN]
    /\ pending \in Seq(Known(durable))
    /\ events \in Seq(Events(durable)) /\ states \in Seq(States(durable))

\* A read is a part of the event stream, then one of the state stream.
BatchOf(m) ==
    /\ \A i \in 1 .. Len(batch) : batch[i].kind = "event" <=> i <= m
    /\ eventId + m <= Len(events) /\ stateId + (Len(batch) - m) <= Len(states)
Fetched ==
    /\ batch \in Seq(Known(durable))
    /\ eventId \in Nat /\ stateId \in Nat
    /\ \E m \in 0 .. Len(batch) : BatchOf(m)

Placed ==
    /\ pc \in {"closed", "page", "frame", "next"}
    /\ cursor \in 0 .. durable /\ stateCursor \in 0 .. durable
    /\ bound \in {stateCursor, Unbounded}
    /\ catchTo \in 0 .. Unbounded /\ record \in Known(durable) \cup {NoRecord}

\* A catch-up ends right before its record, and a bounded one at the state that
\* the browser is about to see.
CatchingUp ==
    /\ pc = "page" =>
        /\ cursor < catchTo
        /\ bound # Unbounded => catchTo <= stateCursor
        /\ record.kind = "event" => catchTo = record.seq - 1
    /\ pc = "frame" /\ record.kind = "event" => record.seq = cursor + 1
    /\ pc \in {"page", "frame"} /\ record.kind = "event" /\ bound # Unbounded
        => record.seq <= stateCursor

Watched ==
    /\ last \in 0 .. durable
    /\ shown \in [seq : 0 .. durable, replay : BOOLEAN, shown : BOOLEAN]
    /\ shown.seq <= last
    /\ fetching \in BOOLEAN /\ playback \in 0 .. MaxSeq

Counted == lost \in 0 .. MaxLost /\ drops \in 0 .. MaxDrops /\ seeks \in 0 .. MaxSeeks

Exact == start \in 0 .. cursor /\ Contiguous

IInv ==
    /\ BoundsAssumption
    /\ Produced /\ Fetched /\ Placed /\ CatchingUp /\ Watched /\ Counted /\ Exact

-----------------------------------------------------------------------------
(* Constants, and the sequences.                                           *)

LEMMA Limits ==
    ASSUME BoundsAssumption
    PROVE
    /\ MaxSeq \in Nat /\ MaxBundle \in Nat /\ MaxLost \in Nat /\ MaxDrops \in Nat
    /\ MaxSeeks \in Nat /\ PageLimit \in Nat /\ PageLimit > 0 /\ Unbounded = MaxSeq + 1
  BY DEF BoundsAssumption, Unbounded

LEMMA KnownGrows ==
    ASSUME NEW d \in Nat, NEW e \in Nat, d <= e
    PROVE  /\ Known(d) \subseteq Known(e)
           /\ Events(d) \subseteq Events(e) /\ States(d) \subseteq States(e)
           /\ Events(d) \subseteq Known(d) /\ States(d) \subseteq Known(d)
  BY DEF Known, Events, States

LEMMA KnownParts ==
    ASSUME NEW d \in Nat, NEW r \in Known(d)
    PROVE  /\ r.kind \in {"event", "state"} /\ r.seq \in 0 .. d
           /\ r.kind = "event" => r \in Events(d) /\ r.seq \in 1 .. d
           /\ r.kind # "event" => r \in States(d) /\ r.replay \in BOOLEAN
  BY DEF Known, Events, States

\* The records of a bundle, and those of a page.
LEMMA CountUp ==
    ASSUME NEW k \in Nat, NEW a \in Nat, NEW S, \A i \in 1 .. k : a + i \in S
    PROVE  /\ [i \in 1 .. k |-> a + i] \in Seq(S)
           /\ Len([i \in 1 .. k |-> a + i]) = k
  OBVIOUS

\* A run of numbers, and the run behind it.
LEMMA RunOn ==
    ASSUME NEW a \in Nat, NEW k \in Nat, NEW n \in Nat
    PROVE  [i \in 1 .. k |-> a + i] \o [i \in 1 .. n |-> (a + k) + i]
             = [i \in 1 .. k + n |-> a + i]
  <1> DEFINE s == [i \in 1 .. k |-> a + i]
             t == [i \in 1 .. n |-> (a + k) + i]
             u == [i \in 1 .. k + n |-> a + i]
  <1>1. s \in Seq(Nat) /\ Len(s) = k /\ \A i \in 1 .. k : s[i] = a + i
    OBVIOUS
  <1>2. t \in Seq(Nat) /\ Len(t) = n /\ \A i \in 1 .. n : t[i] = (a + k) + i
    OBVIOUS
  <1>3. u \in Seq(Nat) /\ Len(u) = k + n /\ \A i \in 1 .. k + n : u[i] = a + i
    OBVIOUS
  <1> HIDE DEF s, t, u
  <1>4. /\ s \o t \in Seq(Nat) /\ Len(s \o t) = k + n
        /\ \A i \in 1 .. k + n : (s \o t)[i] = IF i <= k THEN s[i] ELSE t[i - k]
    BY <1>1, <1>2, ConcatProperties
  <1>5. ASSUME NEW i \in 1 .. k + n PROVE (s \o t)[i] = u[i]
    <2>1. CASE i <= k
      BY <1>1, <1>3, <1>4, <2>1
    <2>2. CASE ~(i <= k)
      <3>1. i - k \in 1 .. n /\ (a + k) + (i - k) = a + i
        BY <2>2
      <3>2. QED
        BY <1>2, <1>3, <1>4, <2>2, <3>1
    <2>3. QED
      BY <2>1, <2>2
  <1>6. s \o t = u
    BY <1>3, <1>4, <1>5, SeqEqual
  <1>7. QED
    BY <1>6 DEF s, t, u

LEMMA RunOnByOne ==
    ASSUME NEW a \in Nat, NEW k \in Nat
    PROVE  Append([i \in 1 .. k |-> a + i], (a + k) + 1) = [i \in 1 .. k + 1 |-> a + i]
  <1> DEFINE s == [i \in 1 .. k |-> a + i]
             u == [i \in 1 .. k + 1 |-> a + i]
  <1>1. s \in Seq(Nat) /\ Len(s) = k /\ \A i \in 1 .. k : s[i] = a + i
    OBVIOUS
  <1>2. u \in Seq(Nat) /\ Len(u) = k + 1 /\ \A i \in 1 .. k + 1 : u[i] = a + i
    OBVIOUS
  <1> DEFINE x == (a + k) + 1
             t == Append(s, x)
  <1>3. x \in Nat /\ x = a + (k + 1)
    OBVIOUS
  <1> HIDE DEF s, u, x
  <1>4. /\ t \in Seq(Nat) /\ Len(t) = k + 1 /\ t[k + 1] = x
        /\ \A i \in 1 .. k : t[i] = s[i]
    BY <1>1, <1>3, AppendProperties
  <1>5. ASSUME NEW i \in 1 .. k + 1 PROVE t[i] = u[i]
    BY <1>1, <1>2, <1>3, <1>4
  <1> HIDE DEF t
  <1>6. t = u
    BY <1>2, <1>4, <1>5, SeqEqual
  <1>7. QED
    BY <1>6 DEF s, t, u, x

-----------------------------------------------------------------------------
(* The producer.                                                           *)

\* What the producer leaves alone.
Watching == <<pc, cursors, browser, feed, start>>

LEMMA ProducerStep == ASSUME Producing \/ Publish PROVE UNCHANGED Watching
  BY DEF Producing, Publish, Commit, Expose, StartReplay, Play, Seek, PublishFails, Show,
         browser, history, Watching

LEMMA OtherStep == ASSUME [Next]_vars, ~(Producing \/ Publish)
                   PROVE  UNCHANGED producer
  BY DEF Next, vars, Streaming, Connect, Page, Frame, Read, Idle, Handle, FetchState,
         PlaybackSequence, Drop, Degraded

LEMMA ProducedKept == ASSUME BoundsAssumption, Produced, [Next]_vars
                     PROVE  Produced' /\ durable <= durable'
  <1>1. /\ durable \in Nat /\ durable <= MaxSeq /\ MaxSeq \in Nat
        /\ public.seq \in 0 .. durable /\ public.replay \in BOOLEAN
        /\ public = [seq |-> public.seq, replay |-> public.replay]
        /\ pending \in Seq(Known(durable))
        /\ events \in Seq(Events(durable)) /\ states \in Seq(States(durable))
    BY Limits DEF Produced
  <1>2. CASE Commit
    <2>1. durable' \in Nat /\ durable <= durable' /\ durable' <= MaxSeq
      <3>1. PICK n \in 1 .. MaxBundle : durable + n <= MaxSeq /\ durable' = durable + n
        BY <1>2 DEF Commit
      <3>2. n \in Nat
        BY Limits
      <3>3. QED
        BY <1>1, <3>1, <3>2
    <2>2. /\ pending \in Seq(Known(durable')) /\ events \in Seq(Events(durable'))
          /\ states \in Seq(States(durable'))
      BY <1>1, <2>1, KnownGrows, SeqMonotonic
    <2>3. public' \in [seq : 0 .. durable', replay : BOOLEAN]
      BY <1>1, <1>2, <2>1 DEF Commit, Produced
    <2>4. pending' = pending /\ events' = events /\ states' = states
      BY <1>2 DEF Commit
    <2>5. QED
      BY <1>1, <2>1, <2>2, <2>3, <2>4 DEF Produced
  <1>3. ASSUME NEW st \in [seq : 0 .. durable, replay : BOOLEAN],
               NEW queue \in Seq(Known(durable)), Show(st, queue), durable' = durable
        PROVE  Produced' /\ durable <= durable'
    BY <1>1, <1>3 DEF Show, Produced
  <1>4. \A n \in 1 .. durable : EventRecord(n) \in Known(durable)
    BY <1>1 DEF EventRecord, Known, Events
  <1>5. CASE Expose
    <2> DEFINE st == [seq |-> durable, replay |-> FALSE]
               evs == [i \in 1 .. durable - public.seq |-> EventRecord(public.seq + i)]
    <2>1. st \in [seq : 0 .. durable, replay : BOOLEAN] /\ StateRecord(st) \in Known(durable)
      BY <1>1 DEF StateRecord, Known, States
    <2>2. ASSUME NEW i \in 1 .. durable - public.seq
          PROVE  EventRecord(public.seq + i) \in Known(durable)
      <3>1. public.seq + i \in 1 .. durable
        BY <1>1
      <3>2. QED
        BY <1>4, <3>1
    <2>3. durable - public.seq \in Nat
      BY <1>1
    <2>4. evs \in Seq(Known(durable)) /\ <<StateRecord(st)>> \in Seq(Known(durable))
      BY <2>1, <2>2, <2>3
    <2>5. Show(st, evs \o <<StateRecord(st)>>) /\ durable' = durable
      BY <1>5 DEF Expose
    <2> HIDE DEF st, evs
    <2>6. evs \o <<StateRecord(st)>> \in Seq(Known(durable))
      BY <2>4, ConcatProperties
    <2>7. QED
      BY <1>3, <2>1, <2>5, <2>6
  <1>6. CASE StartReplay
    <2>1. Show([seq |-> 0, replay |-> TRUE], <<>>) /\ durable' = durable
      BY <1>6 DEF StartReplay
    <2>2. [seq |-> 0, replay |-> TRUE] \in [seq : 0 .. durable, replay : BOOLEAN]
      BY <1>1
    <2>3. <<>> \in Seq(Known(durable))
      BY EmptySeq
    <2>4. QED
      BY <1>3, <2>1, <2>2, <2>3
  <1>7. CASE Play
    <2> DEFINE n == public.seq + 1
               st == [seq |-> n, replay |-> TRUE]
    <2>1. n \in 0 .. durable /\ n > 0
      BY <1>1, <1>7 DEF Play
    <2>2. Show(st, <<EventRecord(n), StateRecord(st)>>) /\ durable' = durable
      BY <1>7 DEF Play
    <2>3. /\ st \in [seq : 0 .. durable, replay : BOOLEAN]
          /\ EventRecord(n) \in Known(durable) /\ StateRecord(st) \in Known(durable)
      BY <1>1, <2>1 DEF EventRecord, StateRecord, Known, Events, States
    <2> HIDE DEF n, st
    <2>4. <<EventRecord(n), StateRecord(st)>> \in Seq(Known(durable))
      BY <2>3
    <2>5. QED
      BY <1>3, <2>2, <2>3, <2>4
  <1>8. CASE Seek
    <2>1. PICK p \in 0 .. durable :
            Show([seq |-> p, replay |-> TRUE], <<StateRecord([seq |-> p, replay |-> TRUE])>>)
      BY <1>8 DEF Seek
    <2> DEFINE st == [seq |-> p, replay |-> TRUE]
    <2>2. Show(st, <<StateRecord(st)>>) /\ durable' = durable
      BY <1>8, <2>1 DEF Seek
    <2>3. st \in [seq : 0 .. durable, replay : BOOLEAN] /\ StateRecord(st) \in Known(durable)
      BY <1>1 DEF StateRecord, Known, States
    <2> HIDE DEF st
    <2>4. <<StateRecord(st)>> \in Seq(Known(durable))
      BY <2>3
    <2>5. QED
      BY <1>3, <2>2, <2>3, <2>4
  <1>9. CASE Publish
    <2>1. Head(pending) \in Known(durable) /\ Tail(pending) \in Seq(Known(durable))
      BY <1>1, <1>9, HeadTailProperties DEF Publish
    <2>2. pending' = Tail(pending) /\ durable' = durable /\ public' = public
      BY <1>9 DEF Publish
    <2>3. events' \in Seq(Events(durable)) /\ states' \in Seq(States(durable))
      <3>1. CASE Head(pending).kind = "event"
        <4>1. Head(pending) \in Events(durable)
          BY <1>1, <2>1, <3>1, KnownParts
        <4>2. Append(events, Head(pending)) \in Seq(Events(durable))
          BY <1>1, <4>1, AppendProperties
        <4>3. QED
          BY <1>1, <1>9, <3>1, <4>2 DEF Publish
      <3>2. CASE Head(pending).kind # "event"
        <4>1. Head(pending) \in States(durable)
          BY <1>1, <2>1, <3>2, KnownParts
        <4>2. Append(states, Head(pending)) \in Seq(States(durable))
          BY <1>1, <4>1, AppendProperties
        <4>3. QED
          BY <1>1, <1>9, <3>2, <4>2 DEF Publish
      <3>3. QED
        BY <3>1, <3>2
    <2>4. QED
      BY <1>1, <2>1, <2>2, <2>3 DEF Produced
  <1>10. CASE PublishFails
    <2>1. Tail(pending) \in Seq(Known(durable)) /\ <<>> \in Seq(Known(durable))
      BY <1>1, <1>10, HeadTailProperties, EmptySeq DEF PublishFails
    <2>2. QED
      BY <1>1, <1>10, <2>1 DEF PublishFails, Produced
  <1>11. CASE ~(Producing \/ Publish)
    BY <1>1, <1>11, OtherStep DEF producer, Produced
  <1>12. QED
    BY <1>2, <1>5, <1>6, <1>7, <1>8, <1>9, <1>10, <1>11 DEF Producing

LEMMA BusGrows ==
    ASSUME Produced, [Next]_vars
    PROVE  /\ Len(events) \in Nat /\ Len(events') \in Nat /\ Len(events) <= Len(events')
           /\ Len(states) \in Nat /\ Len(states') \in Nat /\ Len(states) <= Len(states')
  <1>1. Len(events) \in Nat /\ Len(states) \in Nat
    BY DEF Produced
  <1>2. \/ events' = events
        \/ Len(events') = Len(events) + 1
    <2>1. CASE Publish
      BY <2>1 DEF Publish, Produced
    <2>2. CASE Producing
      BY <2>2 DEF Producing, Commit, Expose, StartReplay, Play, Seek, PublishFails, Show
    <2>3. CASE ~(Producing \/ Publish)
      BY <2>3, OtherStep DEF producer
    <2>4. QED
      BY <2>1, <2>2, <2>3
  <1>3. \/ states' = states
        \/ Len(states') = Len(states) + 1
    <2>1. CASE Publish
      BY <2>1 DEF Publish, Produced
    <2>2. CASE Producing
      BY <2>2 DEF Producing, Commit, Expose, StartReplay, Play, Seek, PublishFails, Show
    <2>3. CASE ~(Producing \/ Publish)
      BY <2>3, OtherStep DEF producer
    <2>4. QED
      BY <2>1, <2>2, <2>3
  <1>4. QED
    BY <1>1, <1>2, <1>3

-----------------------------------------------------------------------------
(* The reads of the bus.                                                   *)

LEMMA UnreadPart ==
    ASSUME BoundsAssumption, NEW S, NEW s \in Seq(S), NEW id \in 0 .. Len(s)
    PROVE  /\ Unread(s, id) \in Seq(S) /\ Len(Unread(s, id)) \in Nat
           /\ id + Len(Unread(s, id)) <= Len(s)
  <1> DEFINE n == Smaller(Len(s), id + PageLimit)
  <1>1. Len(s) \in Nat /\ id \in Nat /\ n \in Int /\ n <= Len(s) /\ id <= n
    BY Limits DEF Smaller
  <1>2. Unread(s, id) = SubSeq(s, id + 1, n)
    BY DEF Unread
  <1> HIDE DEF n
  <1>3. \A i \in id + 1 .. n : s[i] \in S
    BY <1>1, ElementOfSeq
  <1>4. id + 1 \in Int
    BY <1>1
  <1>5. /\ SubSeq(s, id + 1, n) \in Seq(S)
        /\ Len(SubSeq(s, id + 1, n)) = IF id + 1 <= n THEN n - (id + 1) + 1 ELSE 0
    BY <1>1, <1>3, <1>4, SubSeqProperties
  <1>6. QED
    BY <1>1, <1>2, <1>5

LEMMA FetchedKept == ASSUME BoundsAssumption, Produced, Fetched, [Next]_vars PROVE Fetched'
  <1>1. /\ batch \in Seq(Known(durable)) /\ eventId \in Nat /\ stateId \in Nat
        /\ Len(batch) \in Nat /\ durable \in Nat
    BY DEF Fetched, Produced
  <1>2. Produced' /\ durable <= durable' /\ durable' \in Nat
    BY ProducedKept DEF Produced
  <1>3. batch \in Seq(Known(durable'))
    BY <1>1, <1>2, KnownGrows, SeqMonotonic
  <1>4. PICK m \in 0 .. Len(batch) : BatchOf(m)
    BY DEF Fetched
  <1>5. CASE UNCHANGED <<batch, eventId, stateId>>
    <2>1. BatchOf(m)'
      <3>1. \A i \in 1 .. Len(batch') : batch'[i].kind = "event" <=> i <= m
        BY <1>4, <1>5 DEF BatchOf
      <3>2. eventId' + m <= Len(events') /\ stateId' + (Len(batch') - m) <= Len(states')
        BY <1>1, <1>4, <1>5, BusGrows DEF BatchOf
      <3>3. QED
        BY <3>1, <3>2 DEF BatchOf
    <2>2. QED
      BY <1>1, <1>3, <1>4, <1>5, <2>1 DEF Fetched
  <1>6. CASE Connect
    <2>1. batch' = <<>> /\ eventId' = 0 /\ stateId' = 0
      BY <1>6 DEF Connect
    <2>2. <<>> \in Seq(Known(durable')) /\ Len(<<>>) = 0
      BY EmptySeq
    <2>3. BatchOf(0)'
      BY <2>1, <2>2, BusGrows DEF BatchOf
    <2>4. QED
      BY <2>1, <2>2, <2>3 DEF Fetched
  <1>7. CASE Read
    <2> DEFINE E == Unread(events, eventId)
               T == Unread(states, stateId)
    <2>1. /\ batch' = E \o T /\ eventId' = eventId /\ stateId' = stateId
          /\ events' = events /\ states' = states /\ durable' = durable
      BY <1>7 DEF Read, producer
    <2>2. eventId \in 0 .. Len(events) /\ stateId \in 0 .. Len(states)
      BY <1>1, <1>4, BusGrows DEF BatchOf
    <2>3. events \in Seq(Events(durable)) /\ states \in Seq(States(durable))
      BY DEF Produced
    <2>4. E \in Seq(Events(durable)) /\ Len(E) \in Nat /\ eventId + Len(E) <= Len(events)
      BY <2>2, <2>3, UnreadPart
    <2>5. T \in Seq(States(durable)) /\ Len(T) \in Nat /\ stateId + Len(T) <= Len(states)
      BY <2>2, <2>3, UnreadPart
    <2> HIDE DEF E, T
    <2>6. E \in Seq(Known(durable)) /\ T \in Seq(Known(durable))
      BY <1>1, <2>4, <2>5, KnownGrows, SeqMonotonic
    <2>7. /\ E \o T \in Seq(Known(durable)) /\ Len(E \o T) = Len(E) + Len(T)
          /\ \A i \in 1 .. Len(E) + Len(T) :
               (E \o T)[i] = IF i <= Len(E) THEN E[i] ELSE T[i - Len(E)]
      BY <2>6, ConcatProperties
    <2>8. ASSUME NEW i \in 1 .. Len(batch') PROVE batch'[i].kind = "event" <=> i <= Len(E)
      <3>1. i \in 1 .. Len(E) + Len(T)
        BY <2>1, <2>7
      <3>2. CASE i <= Len(E)
        <4>1. i \in 1 .. Len(E) /\ batch'[i] = E[i]
          BY <2>1, <2>4, <2>7, <3>1, <3>2
        <4>2. E[i] \in Events(durable)
          BY <2>4, <4>1, ElementOfSeq
        <4>3. QED
          BY <3>2, <4>1, <4>2 DEF Events
      <3>3. CASE ~(i <= Len(E))
        <4>1. i - Len(E) \in 1 .. Len(T) /\ batch'[i] = T[i - Len(E)]
          BY <2>1, <2>4, <2>5, <2>7, <3>1, <3>3
        <4>2. T[i - Len(E)] \in States(durable)
          BY <2>5, <4>1, ElementOfSeq
        <4>3. QED
          BY <3>3, <4>1, <4>2 DEF States
      <3>4. QED
        BY <3>2, <3>3
    <2>9. Len(batch') - Len(E) = Len(T) /\ Len(E) \in 0 .. Len(batch')
      BY <2>1, <2>4, <2>5, <2>7
    <2>10. PICK k \in 0 .. Len(batch') : k = Len(E)
      BY <2>9
    <2>11. BatchOf(k)'
      <3>1. \A i \in 1 .. Len(batch') : batch'[i].kind = "event" <=> i <= k
        BY <2>8, <2>10
      <3>2. eventId' + k <= Len(events') /\ stateId' + (Len(batch') - k) <= Len(states')
        BY <2>1, <2>4, <2>5, <2>9, <2>10
      <3>3. QED
        BY <3>1, <3>2 DEF BatchOf
    <2>12. QED
      BY <1>1, <2>1, <2>7, <2>10, <2>11 DEF Fetched
  <1>8. CASE Handle
    <2>1. batch # <<>> /\ batch' = Tail(batch) /\ events' = events /\ states' = states
      BY <1>8 DEF Handle, producer
    <2>2. /\ Tail(batch) \in Seq(Known(durable)) /\ Len(Tail(batch)) = Len(batch) - 1
          /\ \A i \in 1 .. Len(Tail(batch)) : Tail(batch)[i] = batch[i + 1]
      BY <1>1, <2>1, HeadTailProperties
    <2>3. Tail(batch) \in Seq(Known(durable'))
      BY <1>1, <1>2, <2>2, KnownGrows, SeqMonotonic
    <2>4. Len(batch) > 0 /\ Head(batch) = batch[1]
      BY <1>1, <2>1
    <2>5. CASE Head(batch).kind = "event"
      <3>1. eventId' = eventId + 1 /\ stateId' = stateId
        BY <1>8, <2>5 DEF Handle
      <3>2. m >= 1
        BY <1>1, <1>4, <2>4, <2>5 DEF BatchOf
      <3>3. m - 1 \in 0 .. Len(batch') /\ Len(batch') - (m - 1) = Len(batch) - m
        BY <1>1, <1>4, <2>1, <2>2, <2>4, <3>2
      <3>4. BatchOf(m - 1)'
        <4>1. \A i \in 1 .. Len(batch') : batch'[i].kind = "event" <=> i <= m - 1
          BY <1>1, <1>4, <2>1, <2>2 DEF BatchOf
        <4>2. eventId' + (m - 1) <= Len(events') /\ stateId' + (Len(batch') - (m - 1)) <= Len(states')
          BY <1>1, <1>4, <2>1, <3>1, <3>3, BusGrows DEF BatchOf
        <4>3. QED
          BY <4>1, <4>2 DEF BatchOf
      <3>5. QED
        BY <1>1, <2>1, <2>3, <3>1, <3>3, <3>4 DEF Fetched
    <2>6. CASE Head(batch).kind # "event"
      <3>1. eventId' = eventId /\ stateId' = stateId + 1
        BY <1>8, <2>6 DEF Handle
      <3>2. m = 0
        BY <1>1, <1>4, <2>4, <2>6 DEF BatchOf
      <3>3. 0 \in 0 .. Len(batch') /\ Len(batch') - 0 = Len(batch) - 1
        BY <1>1, <2>1, <2>2, <2>4
      <3>4. BatchOf(0)'
        <4>1. \A i \in 1 .. Len(batch') : batch'[i].kind = "event" <=> i <= 0
          BY <1>1, <1>4, <2>1, <2>2, <3>2 DEF BatchOf
        <4>2. eventId' + 0 <= Len(events') /\ stateId' + (Len(batch') - 0) <= Len(states')
          BY <1>1, <1>4, <2>1, <3>1, <3>2, <3>3, BusGrows DEF BatchOf
        <4>3. QED
          BY <4>1, <4>2 DEF BatchOf
      <3>5. QED
        BY <1>1, <2>1, <2>3, <3>1, <3>3, <3>4 DEF Fetched
    <2>7. QED
      BY <2>5, <2>6
  <1>9. CASE Producing \/ Publish
    BY <1>5, <1>9, ProducerStep DEF Watching, cursors
  <1>10. CASE FetchState \/ PlaybackSequence \/ Drop \/ Page \/ Frame \/ Idle \/ Degraded
    BY <1>5, <1>10 DEF FetchState, PlaybackSequence, Drop, Page, Frame, Idle, Degraded, cursors
  <1>11. CASE UNCHANGED vars
    BY <1>5, <1>11 DEF vars, cursors
  <1>12. QED
    BY <1>6, <1>7, <1>8, <1>9, <1>10, <1>11 DEF Next, Streaming

-----------------------------------------------------------------------------
(* The connection.                                                         *)

\* The numbers of a connection.
LEMMA Numbers ==
    ASSUME BoundsAssumption, Produced, Placed
    PROVE  /\ durable \in Nat /\ durable < Unbounded /\ Unbounded \in Nat
           /\ cursor \in Nat /\ cursor <= durable /\ stateCursor \in Nat
           /\ stateCursor <= durable /\ bound \in {stateCursor, Unbounded}
           /\ catchTo \in Nat /\ catchTo <= Unbounded
  BY Limits DEF Produced, Placed

\* A step of a connection that ends at a page, a frame or the next record.
Rolling == Placed' /\ CatchingUp'

\* Nothing of it moves.
LEMMA ConnectionRests ==
    ASSUME BoundsAssumption, Produced, Placed, CatchingUp, [Next]_vars,
           UNCHANGED <<cursors, pc>> \/ (UNCHANGED cursors /\ pc' = "closed")
    PROVE  Rolling
  <1>1. durable \in Nat /\ durable <= durable' /\ durable' \in Nat
    BY ProducedKept DEF Produced
  <1>2. /\ cursor' = cursor /\ stateCursor' = stateCursor /\ bound' = bound
        /\ catchTo' = catchTo /\ record' = record /\ pc' \in {pc, "closed"}
    BY DEF cursors
  <1>3. Placed'
    <2>1. record' \in Known(durable') \cup {NoRecord}
      BY <1>1, <1>2, KnownGrows DEF Placed
    <2>2. cursor' \in 0 .. durable' /\ stateCursor' \in 0 .. durable'
      BY <1>1, <1>2 DEF Placed
    <2>3. QED
      BY <1>2, <2>1, <2>2 DEF Placed
  <1>4. CatchingUp'
    BY <1>2 DEF CatchingUp
  <1>5. QED
    BY <1>3, <1>4 DEF Rolling

\* A catch-up begins in front of its record.
LEMMA CatchUpBegins ==
    ASSUME BoundsAssumption, Produced, Placed, durable' = durable, cursor' = cursor,
           stateCursor' \in 0 .. durable, bound' \in {stateCursor', Unbounded},
           NEW to \in 0 .. Unbounded, NEW rec \in Known(durable) \cup {NoRecord}, After(to, rec),
           bound' # Unbounded => to <= stateCursor',
           rec.kind = "event" =>
             /\ to = rec.seq - 1 /\ rec.seq > cursor
             /\ bound' # Unbounded => rec.seq <= stateCursor'
    PROVE  Rolling
  <1>1. /\ pc' = IF to # Unbounded /\ cursor >= to THEN "frame" ELSE "page"
        /\ catchTo' = to /\ record' = rec
    BY DEF After
  <1>2. Placed'
    BY <1>1 DEF Placed
  <1>3. rec.kind = "event" => rec.seq \in Nat /\ rec.seq <= durable
    <2>1. NoRecord.kind # "event"
      BY DEF NoRecord
    <2>2. QED
      BY <2>1, Numbers, KnownParts
  <1>4. pc' = "page" => cursor' < catchTo'
    BY <1>1, Numbers
  <1>5. pc' = "frame" /\ record'.kind = "event" => record'.seq = cursor' + 1
    BY <1>1, <1>3, Numbers
  <1>6. CatchingUp'
    BY <1>1, <1>4, <1>5 DEF CatchingUp
  <1>7. QED
    BY <1>2, <1>6 DEF Rolling

\* A page moves the cursor to its end, and not beyond.
LEMMA PageEnds ==
    ASSUME BoundsAssumption, Produced, Placed, CatchingUp, Page
    PROVE  /\ cursor' \in Nat /\ cursor <= cursor' /\ cursor' <= durable /\ cursor' <= catchTo
           /\ pc' \in {"page", "frame"}
           /\ pc' = "page" => cursor' < catchTo
           /\ pc' = "frame" /\ catchTo <= durable => cursor' = catchTo
  <1> DEFINE found == Smaller(durable, catchTo)
             until == Smaller(cursor + PageLimit, Larger(cursor, found))
  <1>1. /\ cursor' = until
        /\ pc' = IF catchTo = Unbounded \/ until < cursor + PageLimit \/ until >= catchTo
                 THEN "frame" ELSE "page"
        /\ cursor < catchTo
    BY DEF Page, CatchingUp
  <1>2. found \in Nat /\ found <= durable /\ found <= catchTo
        /\ (catchTo <= durable => found = catchTo)
    BY Numbers DEF Smaller
  <1> HIDE DEF found
  <1>3. /\ until \in Nat /\ cursor <= until /\ until <= durable /\ until <= catchTo
        /\ until < cursor + PageLimit => until = Larger(cursor, found)
        /\ until < cursor + PageLimit /\ catchTo <= durable => until = catchTo
    BY <1>1, <1>2, Numbers, Limits DEF Smaller, Larger
  <1> HIDE DEF until
  <1>4. pc' = "frame" /\ catchTo <= durable => until = catchTo
    BY <1>1, <1>3, Numbers
  <1>5. QED
    BY <1>1, <1>3, <1>4, Numbers

LEMMA ConnectionKept ==
    ASSUME BoundsAssumption, Produced, Fetched, Placed, CatchingUp, Watched, [Next]_vars
    PROVE  Placed' /\ CatchingUp'
  <1>1. SUFFICES Rolling
    BY DEF Rolling
  <1>2. CASE Producing \/ Publish
    BY <1>2, ProducerStep, ConnectionRests DEF Watching
  <1>3. CASE FetchState \/ PlaybackSequence \/ Drop \/ Read \/ UNCHANGED vars
    <2>1. CASE FetchState \/ PlaybackSequence \/ Drop \/ UNCHANGED vars
      BY <2>1, ConnectionRests DEF FetchState, PlaybackSequence, Drop, vars
    <2>2. CASE Read
      <3>1. /\ durable' = durable /\ cursor' = cursor /\ stateCursor' = stateCursor
            /\ bound' = bound /\ catchTo' = catchTo /\ record' = record /\ pc' = pc
        BY <2>2 DEF Read, producer
      <3>2. QED
        BY <3>1 DEF Placed, CatchingUp, Rolling
    <2>3. QED
      BY <1>3, <2>1, <2>2
  <1>4. CASE Connect
    <2>1. /\ durable' = durable /\ cursor' = last /\ stateCursor' = public.seq
          /\ bound' \in {stateCursor', Unbounded}
          /\ pc' = (IF last >= public.seq THEN "frame" ELSE "page")
          /\ catchTo' = public.seq /\ record' = StateRecord(public)
      BY <1>4 DEF Connect, producer
    <2>2. last \in Nat /\ last <= durable /\ public.seq \in Nat /\ public.seq <= durable
          /\ public.replay \in BOOLEAN /\ durable \in Nat /\ durable < Unbounded /\ Unbounded \in Nat
      BY Numbers DEF Watched, Produced
    <2>3. record' \in Known(durable) /\ record'.kind = "state"
      BY <2>1, <2>2 DEF StateRecord, Known, States
    <2>4. Placed'
      BY <2>1, <2>2, <2>3 DEF Placed
    <2>5. pc' = "page" => cursor' < catchTo'
      BY <2>1, <2>2
    <2>6. CatchingUp'
      BY <2>1, <2>2, <2>3, <2>5 DEF CatchingUp
    <2>7. QED
      BY <2>4, <2>6 DEF Rolling
  <1>5. CASE Page
    <2>1. /\ durable' = durable /\ stateCursor' = stateCursor /\ bound' = bound
          /\ catchTo' = catchTo /\ record' = record /\ pc = "page"
      BY <1>5 DEF Page, producer
    <2>2. Placed'
      BY <1>5, <2>1, PageEnds, Numbers DEF Placed
    <2>3. record.kind = "event" => catchTo = record.seq - 1 /\ record.seq \in 1 .. durable
      <3>1. NoRecord.kind # "event"
        BY DEF NoRecord
      <3>2. QED
        BY <2>1, <3>1, Numbers, KnownParts DEF CatchingUp, Placed
    <2>4. pc' = "frame" /\ record.kind = "event" => record.seq = cursor' + 1
      BY <1>5, <2>3, PageEnds, Numbers
    <2>5. CatchingUp'
      BY <1>5, <2>1, <2>4, PageEnds DEF CatchingUp
    <2>6. QED
      BY <2>2, <2>5 DEF Rolling
  <1>6. CASE Frame
    <2>1. /\ durable' = durable /\ stateCursor' = stateCursor /\ bound' = bound
          /\ catchTo' = catchTo /\ record' = NoRecord /\ pc' = "next"
          /\ cursor' = IF record.kind = "event" THEN record.seq ELSE cursor
      BY <1>6 DEF Frame, producer
    <2>2. record.kind = "event" => record.seq \in 0 .. durable
      <3>1. NoRecord.kind # "event"
        BY DEF NoRecord
      <3>2. QED
        BY <3>1, Numbers, KnownParts DEF Placed
    <2>3. cursor' \in 0 .. durable
      BY <2>1, <2>2, Numbers
    <2>4. QED
      BY <2>1, <2>3, Numbers DEF Placed, CatchingUp, Rolling
  <1>7. CASE Idle \/ Degraded
    <2>1. /\ durable' = durable /\ cursor' = cursor /\ stateCursor' = stateCursor
          /\ bound' = bound /\ After(bound, NoRecord)
      BY <1>7 DEF Idle, Degraded, producer
    <2>2. NoRecord.kind # "event" /\ bound \in 0 .. Unbounded
          /\ (bound # Unbounded => bound <= stateCursor) /\ stateCursor \in 0 .. durable
      BY Numbers DEF NoRecord
    <2>3. QED
      BY <2>1, <2>2, CatchUpBegins, Numbers
  <1>8. CASE Handle
    <2> DEFINE rec == Head(batch)
    <2>1. batch # <<>> /\ batch \in Seq(Known(durable)) /\ durable' = durable /\ cursor' = cursor
          /\ pc = "next"
      BY <1>8 DEF Handle, Fetched, producer
    <2>2. rec \in Known(durable)
      BY <2>1, HeadTailProperties
    <2>3. CASE rec.kind = "event"
      <3>1. HandleEvent(rec.seq) /\ stateCursor' = stateCursor /\ bound' = bound
        BY <1>8, <2>3 DEF Handle
      <3>2. rec.seq \in Nat /\ rec.seq >= 1 /\ rec.seq <= durable /\ rec = EventRecord(rec.seq)
        BY <2>2, <2>3, Numbers, KnownParts DEF EventRecord, Events
      <3> HIDE DEF rec
      <3>3. CASE rec.seq <= cursor \/ (bound # Unbounded /\ rec.seq > stateCursor)
        <4>1. pc' = pc /\ catchTo' = catchTo /\ record' = record
          BY <3>1, <3>3 DEF HandleEvent, Skip
        <4>2. QED
          BY <2>1, <3>1, <4>1 DEF Placed, CatchingUp, Rolling
      <3>4. CASE ~(rec.seq <= cursor \/ (bound # Unbounded /\ rec.seq > stateCursor))
        <4>1. After(rec.seq - 1, rec)
          BY <3>1, <3>2, <3>4 DEF HandleEvent
        <4>2. rec.seq > cursor /\ (bound # Unbounded => rec.seq <= stateCursor)
              /\ rec.seq - 1 \in 0 .. Unbounded /\ (bound # Unbounded => rec.seq - 1 <= stateCursor)
          BY <3>2, <3>4, Numbers
        <4>3. stateCursor' \in 0 .. durable /\ bound' \in {stateCursor', Unbounded}
          BY <3>1, Numbers
        <4>4. QED
          BY <2>1, <2>2, <3>1, <4>1, <4>2, <4>3, CatchUpBegins
      <3>5. QED
        BY <3>3, <3>4
    <2>4. CASE rec.kind # "event"
      <3>1. HandleState(rec)
        BY <1>8, <2>4 DEF Handle
      <3>2. rec.seq \in 0 .. durable /\ rec.replay \in BOOLEAN
        BY <2>2, <2>4, Numbers, KnownParts
      <3> HIDE DEF rec
      <3>3. CASE rec.seq <= stateCursor
        <4>1. /\ pc' = pc /\ catchTo' = catchTo /\ record' = record
              /\ stateCursor' = stateCursor /\ bound' = bound
          BY <3>1, <3>3 DEF HandleState, Skip
        <4>2. QED
          BY <2>1, <4>1 DEF Placed, CatchingUp, Rolling
      <3>4. CASE ~(rec.seq <= stateCursor) /\ rec.replay
        <4>1. stateCursor' = rec.seq /\ bound' = rec.seq /\ After(rec.seq, rec)
          BY <3>1, <3>4 DEF HandleState
        <4>2. rec.seq \in 0 .. Unbounded /\ rec.seq <= stateCursor'
          BY <3>2, <4>1, Numbers
        <4>3. QED
          BY <2>1, <2>2, <2>4, <3>2, <4>1, <4>2, CatchUpBegins
      <3>5. CASE ~(rec.seq <= stateCursor) /\ ~rec.replay
        <4>1. /\ stateCursor' = rec.seq /\ bound' = Unbounded /\ pc' = "frame"
              /\ record' = rec /\ catchTo' = catchTo
          BY <3>1, <3>5 DEF HandleState
        <4>2. Placed'
          BY <2>1, <2>2, <3>2, <4>1 DEF Placed
        <4>3. CatchingUp'
          BY <2>4, <4>1 DEF CatchingUp
        <4>4. QED
          BY <4>2, <4>3 DEF Rolling
      <3>6. QED
        BY <3>3, <3>4, <3>5
    <2>5. QED
      BY <2>3, <2>4
  <1>9. QED
    BY <1>2, <1>3, <1>4, <1>5, <1>6, <1>7, <1>8 DEF Next, Streaming

-----------------------------------------------------------------------------
(* The browser.                                                            *)

\* The state shown never goes back.
LEMMA NewestShown ==
    ASSUME Watched, durable \in Nat, durable' = durable, NEW st, SetNewest(st),
           st.seq \in 0 .. durable, st.replay \in BOOLEAN
    PROVE  /\ last' \in 0 .. durable /\ shown'.seq <= last'
           /\ shown' \in [seq : 0 .. durable, replay : BOOLEAN, shown : BOOLEAN]
           /\ shown'.seq >= shown.seq
  <1>1. /\ last \in Nat /\ last <= durable /\ shown.seq \in Nat /\ shown.seq <= last
        /\ shown \in [seq : 0 .. durable, replay : BOOLEAN, shown : BOOLEAN]
    BY DEF Watched
  <1>2. CASE st.seq < last \/ (shown.shown /\ st.seq = last)
    <2>1. last' = last /\ shown' = shown
      BY <1>2 DEF SetNewest
    <2>2. QED
      BY <1>1, <2>1
  <1>3. CASE ~(st.seq < last \/ (shown.shown /\ st.seq = last))
    <2>1. last' = st.seq /\ shown' = [seq |-> st.seq, replay |-> st.replay, shown |-> TRUE]
      BY <1>3 DEF SetNewest
    <2>2. ~(st.seq < last)
      BY <1>3
    <2>3. st.seq \in Nat /\ st.seq <= durable /\ st.seq >= last
      BY <1>1, <2>2
    <2>4. QED
      BY <1>1, <2>1, <2>3
  <1>4. QED
    BY <1>2, <1>3

LEMMA WatchedKept ==
    ASSUME BoundsAssumption, Produced, Placed, Watched, [Next]_vars
    PROVE  Watched' /\ (shown'.shown => shown'.seq >= shown.seq)
  <1>1. /\ durable \in Nat /\ durable <= durable' /\ durable' \in Nat
        /\ public.seq \in 0 .. durable /\ public.replay \in BOOLEAN
        /\ 0 .. durable \subseteq 0 .. MaxSeq
    BY ProducedKept, Limits DEF Produced
  <1>2. /\ last \in Nat /\ last <= durable /\ shown.seq \in Nat /\ shown.seq <= last
        /\ shown \in [seq : 0 .. durable, replay : BOOLEAN, shown : BOOLEAN]
        /\ fetching \in BOOLEAN /\ playback \in 0 .. MaxSeq
    BY DEF Watched
  <1>3. CASE UNCHANGED browser
    <2>1. last' = last /\ shown' = shown /\ fetching' = fetching /\ playback' = playback
      BY <1>3 DEF browser
    <2>2. shown' \in [seq : 0 .. durable', replay : BOOLEAN, shown : BOOLEAN]
      BY <1>1, <1>2, <2>1
    <2>3. QED
      BY <1>1, <1>2, <2>1, <2>2 DEF Watched
  <1>4. ASSUME NEW st, SetNewest(st), st.seq \in 0 .. durable, st.replay \in BOOLEAN,
               durable' = durable, fetching' \in BOOLEAN, playback' = playback
        PROVE  Watched' /\ (shown'.shown => shown'.seq >= shown.seq)
    BY <1>1, <1>2, <1>4, NewestShown DEF Watched
  <1>5. CASE FetchState
    <2>1. SetNewest(public) /\ fetching' = FALSE /\ playback' = playback /\ durable' = durable
      BY <1>5 DEF FetchState, producer
    <2>2. QED
      BY <1>1, <1>4, <2>1
  <1>6. CASE PlaybackSequence
    <2>1. playback' = public.seq /\ durable' = durable
          /\ IF Jumped(public.seq)
             THEN last' = 0 /\ shown' = NoState /\ fetching' = TRUE
             ELSE UNCHANGED <<last, shown, fetching>>
      BY <1>6 DEF PlaybackSequence, producer
    <2>2. CASE Jumped(public.seq)
      <3>1. shown' = NoState /\ last' = 0 /\ fetching' = TRUE
        BY <2>1, <2>2
      <3>2. QED
        BY <1>1, <2>1, <3>1 DEF NoState, Watched
    <2>3. CASE ~Jumped(public.seq)
      BY <1>1, <1>2, <2>1, <2>3 DEF Watched
    <2>4. QED
      BY <2>2, <2>3
  <1>7. CASE Frame
    <2>1. /\ durable' = durable /\ fetching' = fetching /\ playback' = playback
          /\ IF record.kind = "state"
             THEN SetNewest(record)
             ELSE UNCHANGED <<last, shown>>
      BY <1>7 DEF Frame, producer
    <2>2. CASE record.kind = "state"
      <3>1. record \in Known(durable)
        BY <2>2 DEF Placed, NoRecord
      <3>2. record.seq \in 0 .. durable /\ record.replay \in BOOLEAN
        BY <1>1, <2>2, <3>1, KnownParts
      <3>3. QED
        BY <1>2, <1>4, <2>1, <2>2, <3>2
    <2>3. CASE record.kind # "state"
      BY <1>3, <2>1, <2>3 DEF browser
    <2>4. QED
      BY <2>2, <2>3
  <1>8. CASE Producing \/ Publish
    BY <1>3, <1>8, ProducerStep DEF Watching
  <1>9. CASE Connect \/ Page \/ Read \/ Idle \/ Handle \/ Drop \/ Degraded \/ UNCHANGED vars
    BY <1>3, <1>9 DEF Connect, Page, Read, Idle, Handle, Drop, Degraded, vars
  <1>10. QED
    BY <1>5, <1>6, <1>7, <1>8, <1>9 DEF Next, Streaming

LEMMA CountedKept == ASSUME BoundsAssumption, Counted, [Next]_vars PROVE Counted'
  <1>1. /\ lost \in Nat /\ lost <= MaxLost /\ drops \in Nat /\ drops <= MaxDrops
        /\ seeks \in Nat /\ seeks <= MaxSeeks /\ MaxLost \in Nat /\ MaxDrops \in Nat
        /\ MaxSeeks \in Nat
    BY Limits DEF Counted
  <1>2. CASE Seek
    <2>1. seeks < MaxSeeks /\ seeks' = seeks + 1 /\ lost' = lost /\ drops' = drops
      BY <1>2 DEF Seek, Show, faults
    <2>2. QED
      BY <1>1, <2>1 DEF Counted
  <1>3. CASE PublishFails \/ Degraded
    <2>1. lost < MaxLost /\ lost' = lost + 1 /\ seeks' = seeks /\ drops' = drops
      BY <1>3 DEF PublishFails, Degraded, producer
    <2>2. QED
      BY <1>1, <2>1 DEF Counted
  <1>4. CASE Drop
    <2>1. drops < MaxDrops /\ drops' = drops + 1 /\ seeks' = seeks /\ lost' = lost
      BY <1>4 DEF Drop, producer
    <2>2. QED
      BY <1>1, <2>1 DEF Counted
  <1>5. CASE UNCHANGED <<lost, drops, seeks>>
    BY <1>5 DEF Counted
  <1>6. CASE Commit \/ Expose \/ StartReplay \/ Play \/ Publish
    BY <1>5, <1>6 DEF Commit, Expose, StartReplay, Play, Publish, Show, faults
  <1>7. CASE \/ Connect \/ Page \/ Frame \/ Read \/ Idle \/ Handle
             \/ FetchState \/ PlaybackSequence \/ UNCHANGED vars
    BY <1>5, <1>7 DEF Connect, Page, Frame, Read, Idle, Handle, FetchState, PlaybackSequence,
       producer, faults, vars
  <1>8. QED
    BY <1>2, <1>3, <1>4, <1>6, <1>7 DEF Next, Producing, Streaming

-----------------------------------------------------------------------------
(* What is sent.                                                           *)

\* A step sends nothing, begins anew, or sends what follows the cursor.
Sent(n) == /\ cursor' = cursor + n /\ start' = start
           /\ feed' = feed \o [i \in 1 .. n |-> cursor + i]
SentOne == /\ cursor' = cursor + 1 /\ start' = start /\ feed' = Append(feed, cursor + 1)
Anew == cursor' = start' /\ feed' = <<>> /\ start' \in Nat

LEMMA FeedStep ==
    ASSUME BoundsAssumption, Produced, Placed, CatchingUp, Watched, [Next]_vars
    PROVE  \/ UNCHANGED <<cursor, start, feed>>
           \/ Anew
           \/ Page /\ \E n \in Nat : Sent(n)
           \/ Frame /\ record.kind = "event" /\ SentOne
  <1>1. CASE Page
    <2>1. cursor' - cursor \in Nat /\ cursor' = cursor + (cursor' - cursor)
      BY <1>1, PageEnds, Numbers
    <2>2. start' = start /\ feed' = feed \o [i \in 1 .. cursor' - cursor |-> cursor + i]
      BY <1>1 DEF Page
    <2>3. Sent(cursor' - cursor)
      BY <2>1, <2>2 DEF Sent
    <2>4. QED
      BY <1>1, <2>1, <2>3
  <1>2. CASE Frame
    <2>1. CASE record.kind = "event"
      <3>1. record.seq = cursor + 1
        BY <1>2, <2>1 DEF Frame, CatchingUp
      <3>2. SentOne
        BY <1>2, <2>1, <3>1 DEF Frame, SentOne
      <3>3. QED
        BY <1>2, <2>1, <3>2
    <2>2. CASE record.kind # "event"
      BY <1>2, <2>2 DEF Frame
    <2>3. QED
      BY <2>1, <2>2
  <1>3. CASE Connect
    BY <1>3 DEF Connect, Anew, Watched
  <1>4. CASE Producing \/ Publish
    BY <1>4, ProducerStep DEF Watching, cursors
  <1>5. CASE \/ FetchState \/ PlaybackSequence \/ Drop \/ Degraded \/ Read \/ Idle \/ Handle
             \/ UNCHANGED vars
    BY <1>5 DEF FetchState, PlaybackSequence, Drop, Degraded, Read, Idle, Handle, cursors, history,
       vars
  <1>6. QED
    BY <1>1, <1>2, <1>3, <1>4, <1>5 DEF Next, Streaming

LEMMA NoDistance == ASSUME NEW a \in Nat PROVE a - a = 0 /\ a \in 0 .. a
  OBVIOUS

LEMMA ExactKept ==
    ASSUME BoundsAssumption, Produced, Placed, CatchingUp, Watched, Exact, [Next]_vars
    PROVE  Exact'
  <1>1. /\ cursor \in Nat /\ start \in Nat /\ start <= cursor /\ cursor - start \in Nat
        /\ start + (cursor - start) = cursor
        /\ feed = [i \in 1 .. cursor - start |-> start + i]
    BY Numbers DEF Exact, Contiguous
  <1>2. CASE UNCHANGED <<cursor, start, feed>>
    BY <1>2 DEF Exact, Contiguous
  <1>3. CASE Anew
    <2>1. cursor' = start' /\ start' \in Nat /\ feed' = <<>>
      BY <1>3 DEF Anew
    <2>2. cursor' - start' = 0 /\ start' \in 0 .. cursor'
      <3>1. start' - start' = 0 /\ start' \in 0 .. start'
        BY <2>1, NoDistance, Zenon
      <3>2. QED
        BY <2>1, <3>1, Zenon
    <2>3. [i \in 1 .. cursor' - start' |-> start' + i] = <<>>
      BY <2>2
    <2>4. QED
      BY <2>1, <2>2, <2>3 DEF Exact, Contiguous
  <1>4. ASSUME NEW n \in Nat, Sent(n) PROVE Exact'
    <2> DEFINE k == cursor - start
    <2>1. k \in Nat /\ start + k = cursor /\ start' = start /\ cursor' = cursor + n
          /\ cursor' - start' = k + n
      BY <1>1, <1>4 DEF Sent
    <2>2. feed = [i \in 1 .. k |-> start + i]
      BY <1>1
    <2>3. feed' = feed \o [i \in 1 .. n |-> cursor + i]
      BY <1>4 DEF Sent
    <2> HIDE DEF k
    <2>4. feed' = [i \in 1 .. k |-> start + i] \o [i \in 1 .. n |-> (start + k) + i]
      BY <2>1, <2>2, <2>3
    <2>5. feed' = [i \in 1 .. k + n |-> start + i]
      BY <1>1, <2>1, <2>4, RunOn
    <2>6. feed' = [i \in 1 .. cursor' - start' |-> start' + i]
      BY <2>1, <2>5
    <2>7. start' \in 0 .. cursor'
      BY <1>1, <2>1
    <2>8. QED
      BY <2>6, <2>7 DEF Exact, Contiguous
  <1>5. CASE SentOne
    <2> DEFINE k == cursor - start
    <2>1. k \in Nat /\ start + k = cursor /\ start' = start /\ cursor' = cursor + 1
          /\ cursor' - start' = k + 1
      BY <1>1, <1>5 DEF SentOne
    <2>2. feed = [i \in 1 .. k |-> start + i]
      BY <1>1
    <2>3. feed' = Append(feed, cursor + 1)
      BY <1>5 DEF SentOne
    <2> HIDE DEF k
    <2>4. feed' = Append([i \in 1 .. k |-> start + i], (start + k) + 1)
      BY <2>1, <2>2, <2>3
    <2>5. feed' = [i \in 1 .. k + 1 |-> start + i]
      BY <1>1, <2>1, <2>4, RunOnByOne
    <2>6. feed' = [i \in 1 .. cursor' - start' |-> start' + i]
      BY <2>1, <2>5
    <2>7. start' \in 0 .. cursor'
      BY <1>1, <2>1
    <2>8. QED
      BY <2>6, <2>7 DEF Exact, Contiguous
  <1>6. QED
    BY <1>2, <1>3, <1>4, <1>5, FeedStep

\* A bounded connection sends nothing past the state the browser will see.
LEMMA NothingAhead ==
    ASSUME IInv, [Next]_vars, bound' # Unbounded, Len(feed') > Len(feed)
    PROVE  cursor' <= stateCursor'
  <1>1. BoundsAssumption /\ Produced /\ Placed /\ CatchingUp /\ Watched /\ Exact
    BY DEF IInv
  <1>2. Len(feed) \in Nat
    <2>1. cursor - start \in Nat /\ feed = [i \in 1 .. cursor - start |-> start + i]
      BY <1>1, Numbers DEF Exact, Contiguous
    <2>2. QED
      BY <2>1
  <1>3. ~UNCHANGED <<cursor, start, feed>>
    BY <1>2
  <1>4. ~Anew
    <2>1. Len(<<>>) = 0
      OBVIOUS
    <2>2. QED
      BY <1>2, <2>1 DEF Anew
  <1>5. CASE Page
    <2>1. bound' = bound /\ stateCursor' = stateCursor /\ pc = "page"
      BY <1>5 DEF Page
    <2>2. catchTo <= stateCursor
      BY <1>1, <2>1 DEF CatchingUp
    <2>3. QED
      BY <1>1, <1>5, <2>1, <2>2, PageEnds, Numbers
  <1>6. CASE Frame /\ record.kind = "event"
    <2>1. bound' = bound /\ stateCursor' = stateCursor /\ pc = "frame" /\ cursor' = record.seq
      BY <1>6 DEF Frame
    <2>2. QED
      BY <1>1, <1>6, <2>1 DEF CatchingUp
  <1>7. QED
    BY <1>1, <1>3, <1>4, <1>5, <1>6, FeedStep

-----------------------------------------------------------------------------
(* The theorems.                                                           *)

LEMMA InitIInv == ASSUME BoundsAssumption, Init PROVE IInv
  <1>1. /\ durable \in 0 .. MaxSeq /\ public = [seq |-> 0, replay |-> Recorded]
        /\ Recorded \in BOOLEAN /\ durable \in Nat /\ MaxSeq \in Nat
    BY Limits DEF Init, Recorded
  <1>2. <<>> \in Seq(Known(durable)) /\ <<>> \in Seq(Events(durable))
        /\ <<>> \in Seq(States(durable)) /\ Len(<<>>) = 0
    BY EmptySeq
  <1>3. Produced
    BY <1>1, <1>2 DEF Init, Produced
  <1>4. Fetched
    <2>1. BatchOf(0)
      BY <1>2 DEF Init, BatchOf
    <2>2. QED
      BY <1>2, <2>1 DEF Init, Fetched
  <1>5. Placed /\ CatchingUp
    BY <1>1, Limits DEF Init, Placed, CatchingUp
  <1>6. Watched
    BY <1>1 DEF Init, NoState, Watched
  <1>7. Counted
    BY Limits DEF Init, Counted
  <1>8. Exact
    <2>1. [i \in 1 .. 0 |-> 0 + i] = <<>>
      OBVIOUS
    <2>2. QED
      BY <2>1 DEF Init, Exact, Contiguous
  <1>9. QED
    BY <1>3, <1>4, <1>5, <1>6, <1>7, <1>8 DEF IInv

LEMMA NextIInv == ASSUME IInv, [Next]_vars PROVE IInv'
  <1>1. BoundsAssumption /\ Produced /\ Fetched /\ Placed /\ CatchingUp /\ Watched /\ Counted /\ Exact
    BY DEF IInv
  <1>2. Produced' /\ Fetched' /\ Counted'
    BY <1>1, ProducedKept, FetchedKept, CountedKept
  <1>3. Placed' /\ CatchingUp'
    BY <1>1, ConnectionKept
  <1>4. Watched' /\ Exact'
    BY <1>1, WatchedKept, ExactKept
  <1>5. QED
    BY <1>1, <1>2, <1>3, <1>4 DEF IInv

\* What a connection and the bus hold at each await of _session_event_stream.
THEOREM SpecIInv == ASSUME BoundsAssumption PROVE Spec => []IInv
  <1>1. Init => IInv
    BY InitIInv
  <1>2. IInv /\ [Next]_vars => IInv'
    BY NextIInv
  <1>3. QED
    BY <1>1, <1>2, PTL DEF Spec

\* Every variable of the stream holds values of its type.
THEOREM TypeCorrect == ASSUME BoundsAssumption PROVE Spec => []TypeOK
  <1>1. IInv => TypeOK
    <2>1. SUFFICES ASSUME IInv PROVE TypeOK
      OBVIOUS
    <2>2. /\ BoundsAssumption /\ Produced /\ Fetched /\ Placed /\ Watched /\ Counted
          /\ durable \in Nat /\ durable <= MaxSeq /\ MaxSeq \in Nat
      BY <2>1, Limits DEF IInv, Produced
    <2>3. Known(durable) \subseteq Records
      BY <2>2 DEF Known, Events, States, Records
    <2>4. pending \in Seq(Records) /\ batch \in Seq(Records)
      BY <2>2, <2>3, SeqMonotonic DEF Produced, Fetched
    <2>5. eventId \in 0 .. Len(events) /\ stateId \in 0 .. Len(states)
      <3>1. PICK m \in 0 .. Len(batch) : BatchOf(m)
        BY <2>2 DEF Fetched
      <3>2. Len(batch) \in Nat /\ Len(events) \in Nat /\ Len(states) \in Nat
        BY <2>2 DEF Produced, Fetched
      <3>3. /\ eventId \in Nat /\ stateId \in Nat /\ m \in Nat /\ Len(batch) - m \in Nat
            /\ eventId + m <= Len(events) /\ stateId + (Len(batch) - m) <= Len(states)
        BY <2>2, <3>1, <3>2 DEF Fetched, BatchOf
      <3> DEFINE k == Len(batch) - m
      <3> HIDE DEF k
      <3>4. k \in Nat /\ stateId + k <= Len(states)
        BY <3>3 DEF k
      <3>5. eventId <= Len(events)
        BY <3>2, <3>3
      <3>6. stateId <= Len(states)
        BY <3>2, <3>3, <3>4
      <3>7. QED
        BY <3>2, <3>3, <3>5, <3>6
    <2>6. bound \in 0 .. Unbounded /\ cursor \in 0 .. durable /\ stateCursor \in 0 .. durable
      BY <2>2, Numbers
    <2>7. record \in Records \cup {NoRecord} /\ catchTo \in 0 .. Unbounded
      BY <2>2, <2>3 DEF Placed
    <2>8. last \in 0 .. durable /\ shown.seq \in 0 .. durable
      BY <2>2 DEF Watched
    <2>9. QED
      BY <2>2, <2>4, <2>5, <2>6, <2>7, <2>8 DEF TypeOK, Produced, Placed, Watched, Counted
  <1>2. QED
    BY <1>1, SpecIInv, PTL

\* The events of a connection follow each other without a gap, a repetition or a
\* swap, whatever the bus loses, repeats or still holds (api/streaming.py).
THEOREM StreamIsContiguous == ASSUME BoundsAssumption PROVE Spec => []Contiguous
  <1>1. IInv => Contiguous
    BY DEF IInv, Exact
  <1>2. QED
    BY <1>1, SpecIInv, PTL

\* While a replay bound is in force a connection sends no event past the state the
\* browser is about to see (api/streaming.py).
THEOREM SpoilersAreHeld == ASSUME BoundsAssumption PROVE Spec => NoSpoilers
  <1>1. IInv /\ [Next]_vars
          => [bound' # Unbounded /\ Len(feed') > Len(feed) => cursor' <= stateCursor']_vars
    BY NothingAhead
  <1>2. QED
    BY <1>1, SpecIInv, PTL DEF Spec, NoSpoilers

\* The state on display never goes back, except by starting afresh
\* (live-command-center.tsx).
THEOREM DisplayAdvances == ASSUME BoundsAssumption PROVE Spec => ShownAdvances
  <1>1. IInv /\ [Next]_vars => [shown'.shown => shown'.seq >= shown.seq]_vars
    BY WatchedKept DEF IInv
  <1>2. QED
    BY <1>1, SpecIInv, PTL DEF Spec, ShownAdvances

-----------------------------------------------------------------------------
(* A replay without backward seeks.                                        *)

\* Nothing that was announced lies behind the position of the room, and nothing
\* a connection or the browser holds does.
Told(p) == Events(p) \cup {st \in States(p) : st.replay}
Announced ==
    /\ public.replay /\ ceiling = public.seq
    /\ pending \in Seq(Told(public.seq))
    /\ events \in Seq(Told(public.seq)) /\ states \in Seq(Told(public.seq))
Following ==
    /\ batch \in Seq(Told(public.seq)) /\ record \in Told(public.seq) \cup {NoRecord}
    /\ cursor <= public.seq /\ stateCursor <= public.seq /\ last <= public.seq
    /\ pc # "closed" => bound # Unbounded

LEMMA ToldGrows ==
    ASSUME NEW p \in Nat, NEW q \in Nat, p <= q
    PROVE  /\ Told(p) \subseteq Told(q)
           /\ \A s : s \in Seq(Told(p)) => s \in Seq(Told(q))
  <1>1. Events(p) \subseteq Events(q) /\ States(p) \subseteq States(q)
    BY KnownGrows
  <1>2. Told(p) \subseteq Told(q)
    BY <1>1 DEF Told
  <1>3. QED
    BY <1>2, SeqMonotonic

LEMMA ToldParts ==
    ASSUME NEW p \in Nat, NEW r \in Told(p)
    PROVE  /\ r.seq \in Nat /\ r.seq <= p
           /\ r.kind # "event" => r \in States(p) /\ r.replay
  BY DEF Told, Events, States

LEMMA AnnouncedKept ==
    ASSUME Produced, ~SeekBack, Announced, [Next]_vars
    PROVE  Announced' /\ public'.seq \in Nat /\ public.seq <= public'.seq
  <1>1. /\ public.seq \in Nat /\ durable \in Nat /\ public.replay
        /\ ceiling = public.seq /\ pending \in Seq(Told(public.seq))
        /\ events \in Seq(Told(public.seq)) /\ states \in Seq(Told(public.seq))
    BY DEF Produced, Announced
  <1>2. ASSUME NEW p \in Nat, public.seq <= p, NEW queue \in Seq(Told(p)),
               Show([seq |-> p, replay |-> TRUE], queue)
        PROVE  Announced' /\ public'.seq \in Nat /\ public.seq <= public'.seq
    <2>1. /\ public' = [seq |-> p, replay |-> TRUE] /\ pending' = queue
          /\ ceiling' = Larger(ceiling, p) /\ events' = events /\ states' = states
      BY <1>2 DEF Show
    <2>2. ceiling' = p
      BY <1>1, <1>2, <2>1 DEF Larger
    <2>3. events \in Seq(Told(p)) /\ states \in Seq(Told(p))
      BY <1>1, <1>2, ToldGrows
    <2>4. QED
      BY <1>2, <2>1, <2>2, <2>3 DEF Announced
  <1>3. CASE Play
    <2> DEFINE n == public.seq + 1
               st == [seq |-> n, replay |-> TRUE]
    <2>1. n \in Nat /\ public.seq <= n /\ n > 0
      BY <1>1
    <2>2. Show(st, <<EventRecord(n), StateRecord(st)>>)
      BY <1>3 DEF Play
    <2>3. EventRecord(n) \in Told(n) /\ StateRecord(st) \in Told(n)
      <3>1. EventRecord(n) \in Events(n)
        BY <2>1 DEF EventRecord, Events
      <3>2. StateRecord(st) \in States(n) /\ StateRecord(st).replay
        BY <2>1 DEF StateRecord, States
      <3>3. QED
        BY <3>1, <3>2 DEF Told
    <2>4. <<EventRecord(n), StateRecord(st)>> \in Seq(Told(n))
      BY <2>3
    <2> HIDE DEF n
    <2>5. QED
      BY <1>2, <2>1, <2>2, <2>4
  <1>4. CASE Seek
    <2>1. PICK p \in 0 .. durable :
            /\ p < public.seq => SeekBack
            /\ Show([seq |-> p, replay |-> TRUE], <<StateRecord([seq |-> p, replay |-> TRUE])>>)
      BY <1>4 DEF Seek
    <2>2. p \in Nat /\ public.seq <= p
      BY <1>1, <2>1
    <2>3. StateRecord([seq |-> p, replay |-> TRUE]) \in Told(p)
      BY <2>2 DEF StateRecord, States, Told
    <2>4. <<StateRecord([seq |-> p, replay |-> TRUE])>> \in Seq(Told(p))
      BY <2>3
    <2>5. QED
      BY <1>2, <2>1, <2>2, <2>4
  <1>5. CASE Publish
    <2>1. Head(pending) \in Told(public.seq) /\ Tail(pending) \in Seq(Told(public.seq))
      BY <1>1, <1>5, HeadTailProperties DEF Publish
    <2>2. /\ Append(events, Head(pending)) \in Seq(Told(public.seq))
          /\ Append(states, Head(pending)) \in Seq(Told(public.seq))
      BY <1>1, <2>1, AppendProperties
    <2>3. /\ pending' = Tail(pending) /\ public' = public /\ ceiling' = ceiling
          /\ events' \in {events, Append(events, Head(pending))}
          /\ states' \in {states, Append(states, Head(pending))}
      BY <1>5 DEF Publish, history
    <2>4. /\ pending' \in Seq(Told(public'.seq))
          /\ events' \in Seq(Told(public'.seq)) /\ states' \in Seq(Told(public'.seq))
      BY <1>1, <2>1, <2>2, <2>3
    <2>5. QED
      BY <1>1, <2>3, <2>4 DEF Announced
  <1>6. CASE PublishFails
    <2>1. Tail(pending) \in Seq(Told(public.seq)) /\ <<>> \in Seq(Told(public.seq))
      BY <1>1, <1>6, HeadTailProperties, EmptySeq DEF PublishFails
    <2>2. pending' \in {<<>>, Tail(pending)} /\ public' = public /\ ceiling' = ceiling
          /\ events' = events /\ states' = states
      BY <1>6 DEF PublishFails, history
    <2>3. /\ pending' \in Seq(Told(public'.seq))
          /\ events' \in Seq(Told(public'.seq)) /\ states' \in Seq(Told(public'.seq))
      BY <1>1, <2>1, <2>2
    <2>4. QED
      BY <1>1, <2>2, <2>3 DEF Announced
  <1>7. CASE Commit \/ Expose \/ StartReplay
    BY <1>1, <1>7 DEF Commit, Expose, StartReplay
  <1>8. CASE ~(Producing \/ Publish)
    <2>1. UNCHANGED producer
      BY <1>8, OtherStep
    <2>2. ceiling' = ceiling \/ ceiling' = public.seq
      BY <1>8 DEF Next, Streaming, Connect, Page, Frame, Read, Idle, Handle, FetchState,
         PlaybackSequence, Drop, Degraded, history, vars
    <2>3. QED
      BY <1>1, <2>1, <2>2 DEF producer, Announced
  <1>9. QED
    BY <1>3, <1>4, <1>5, <1>6, <1>7, <1>8 DEF Producing

LEMMA FollowingKept ==
    ASSUME IInv, ~SeekBack, Announced, Following, [Next]_vars
    PROVE  Following'
  <1>1. /\ public.seq \in Nat /\ public.replay /\ durable \in Nat
        /\ events \in Seq(Told(public.seq)) /\ states \in Seq(Told(public.seq))
    BY DEF IInv, Produced, Announced
  <1>2. /\ batch \in Seq(Told(public.seq)) /\ record \in Told(public.seq) \cup {NoRecord}
        /\ cursor \in Nat /\ cursor <= public.seq /\ stateCursor \in Nat
        /\ stateCursor <= public.seq /\ last \in Nat /\ last <= public.seq
        /\ pc # "closed" => bound # Unbounded
    BY Numbers DEF IInv, Watched, Following
  <1>3. public'.seq \in Nat /\ public.seq <= public'.seq
    BY AnnouncedKept DEF IInv
  <1>4. public.seq < Unbounded /\ Unbounded \in Nat
    <2>1. durable < Unbounded /\ Unbounded \in Nat /\ durable \in Nat
      BY Numbers DEF IInv
    <2>2. public.seq \in Nat /\ public.seq <= durable
      BY DEF IInv, Produced
    <2>3. QED
      BY <2>1, <2>2
  <1>5. ASSUME UNCHANGED <<cursors, last>>, pc' \in {pc, "closed"}
        PROVE  Following'
    <2>1. batch' = batch /\ record' = record /\ cursor' = cursor /\ stateCursor' = stateCursor
          /\ bound' = bound /\ last' = last
      BY <1>5 DEF cursors
    <2>2. batch \in Seq(Told(public'.seq)) /\ record \in Told(public'.seq) \cup {NoRecord}
      BY <1>1, <1>2, <1>3, ToldGrows
    <2>3. cursor <= public'.seq /\ stateCursor <= public'.seq /\ last <= public'.seq
      BY <1>1, <1>2, <1>3
    <2>4. QED
      BY <1>2, <1>5, <2>1, <2>2, <2>3 DEF Following
  <1>6. CASE Producing \/ Publish
    BY <1>5, <1>6, ProducerStep DEF Watching, browser
  <1>7. CASE Drop \/ UNCHANGED vars
    BY <1>5, <1>7 DEF Drop, browser, vars
  <1>8. ASSUME NEW st, SetNewest(st), st.seq \in Nat, st.seq <= public.seq
        PROVE  last' <= public.seq
    BY <1>2, <1>8 DEF SetNewest
  <1>9. CASE FetchState
    <2>1. last' <= public.seq
      BY <1>1, <1>8, <1>9 DEF FetchState
    <2>2. UNCHANGED <<cursors, pc, public>>
      BY <1>9 DEF FetchState, producer
    <2>3. QED
      BY <1>2, <2>1, <2>2 DEF cursors, Following
  <1>10. CASE PlaybackSequence
    <2>1. last' \in {0, last} /\ pc' \in {pc, "closed"} /\ UNCHANGED <<cursors, public>>
      BY <1>10 DEF PlaybackSequence, producer
    <2>2. last' <= public.seq
      BY <1>1, <1>2, <2>1
    <2>3. QED
      BY <1>2, <2>1, <2>2 DEF cursors, Following
  <1>11. CASE Connect
    <2>1. /\ batch' = <<>> /\ record' = StateRecord(public) /\ cursor' = last
          /\ stateCursor' = public.seq /\ bound' = public.seq /\ last' = last /\ public' = public
      BY <1>1, <1>11 DEF Connect, producer, browser
    <2>2. StateRecord(public) \in Told(public.seq)
      BY <1>1 DEF StateRecord, States, Told
    <2>3. public.seq # Unbounded
      BY <1>1, <1>4
    <2>4. public.seq <= public.seq /\ <<>> \in Seq(Told(public.seq))
      BY <1>1, EmptySeq
    <2>5. QED
      BY <1>2, <2>1, <2>2, <2>3, <2>4 DEF Following
  <1>12. CASE Page
    <2>1. /\ pc = "page" /\ bound # Unbounded
          /\ UNCHANGED <<batch, record, stateCursor, bound, last, public>>
      BY <1>2, <1>12 DEF Page, producer, browser
    <2>2. cursor' \in Nat /\ cursor' <= catchTo /\ catchTo <= stateCursor /\ catchTo \in Nat
      BY <1>12, <2>1, PageEnds, Numbers DEF IInv, CatchingUp
    <2>3. cursor' <= public.seq
      BY <1>1, <1>2, <2>2
    <2>4. QED
      BY <1>2, <2>1, <2>3 DEF Following
  <1>13. CASE Frame
    <2>1. /\ pc = "frame" /\ record' = NoRecord
          /\ cursor' = IF record.kind = "event" THEN record.seq ELSE cursor
          /\ IF record.kind = "state" THEN SetNewest(record) ELSE last' = last
          /\ UNCHANGED <<batch, stateCursor, bound, public>>
      BY <1>13 DEF Frame, producer
    <2>2. record.kind \in {"event", "state"} => record.seq \in Nat /\ record.seq <= public.seq
      BY <1>1, <1>2, ToldParts DEF NoRecord
    <2>3. cursor' <= public.seq
      BY <1>2, <2>1, <2>2
    <2>4. last' <= public.seq
      BY <1>2, <1>8, <2>1, <2>2
    <2>5. QED
      BY <1>2, <2>1, <2>3, <2>4 DEF Following
  <1>14. CASE Read
    <2>1. /\ batch' = Unread(events, eventId) \o Unread(states, stateId)
          /\ UNCHANGED <<pc, cursor, stateCursor, bound, record, last, public>>
      BY <1>14 DEF Read, producer, browser
    <2>2. eventId \in 0 .. Len(events) /\ stateId \in 0 .. Len(states)
      <3>1. PICK m \in 0 .. Len(batch) : BatchOf(m)
        BY DEF IInv, Fetched
      <3>2. Len(batch) \in Nat /\ Len(events) \in Nat /\ Len(states) \in Nat
            /\ eventId \in Nat /\ stateId \in Nat
        BY <1>1, <1>2 DEF IInv, Fetched
      <3>3. QED
        BY <3>1, <3>2 DEF BatchOf
    <2>3. /\ Unread(events, eventId) \in Seq(Told(public.seq))
          /\ Unread(states, stateId) \in Seq(Told(public.seq))
      BY <1>1, <2>2, UnreadPart DEF IInv
    <2>4. batch' \in Seq(Told(public.seq))
      BY <2>1, <2>3, ConcatProperties
    <2>5. QED
      BY <1>2, <2>1, <2>4 DEF Following
  <1>15. CASE Idle \/ Degraded
    <2>1. /\ pc = "next" /\ record' = NoRecord
          /\ UNCHANGED <<batch, cursor, stateCursor, bound, last, public>>
      BY <1>15 DEF Idle, Degraded, After, producer, browser
    <2>2. QED
      BY <1>2, <2>1 DEF Following
  <1>16. CASE Handle
    <2> DEFINE rec == Head(batch)
    <2>1. /\ pc = "next" /\ batch # <<>> /\ batch' = Tail(batch)
          /\ UNCHANGED <<cursor, last, public>>
      BY <1>16 DEF Handle, producer, browser
    <2>2. rec \in Told(public.seq) /\ Tail(batch) \in Seq(Told(public.seq))
      BY <1>2, <2>1, HeadTailProperties
    <2>3. rec.seq \in Nat /\ rec.seq <= public.seq /\ (rec.kind # "event" => rec.replay)
      BY <1>1, <2>2, ToldParts
    <2>4. CASE rec.kind = "event"
      <3>1. HandleEvent(rec.seq) /\ stateCursor' = stateCursor /\ bound' = bound
        BY <1>16, <2>4 DEF Handle
      <3>2. EventRecord(rec.seq) \in Told(public.seq)
        BY <1>1, <2>2, <2>4, ToldParts DEF EventRecord, Told, Events, States
      <3>3. record' \in {record, EventRecord(rec.seq)}
        BY <3>1 DEF HandleEvent, Skip, After
      <3>4. QED
        BY <1>2, <2>1, <2>2, <3>1, <3>2, <3>3 DEF Following
    <2>5. CASE rec.kind # "event"
      <3>1. HandleState(rec) /\ rec.replay
        BY <1>16, <2>3, <2>5 DEF Handle
      <3>2. \/ record' = record /\ stateCursor' = stateCursor /\ bound' = bound
            \/ record' = rec /\ stateCursor' = rec.seq /\ bound' = rec.seq
        BY <3>1 DEF HandleState, Skip, After
      <3>3. rec.seq # Unbounded
        BY <1>1, <1>4, <2>3
      <3>4. QED
        BY <1>2, <2>1, <2>2, <2>3, <3>2, <3>3 DEF Following
    <2>6. QED
      BY <2>4, <2>5
  <1>17. QED
    BY <1>6, <1>7, <1>9, <1>10, <1>11, <1>12, <1>13, <1>14, <1>15, <1>16 DEF Next, Streaming

LEMMA InitFollows ==
    ASSUME BoundsAssumption, Recorded, Init
    PROVE  Announced /\ Following
  <1>1. <<>> \in Seq(Told(0))
    BY EmptySeq
  <1>2. QED
    BY <1>1 DEF Init, Announced, Following

\* In a replay whose seeks only go forward a connection brings no event that lies
\* beyond every state the session has had since it began (api/streaming.py).
THEOREM FeedIsBounded ==
    ASSUME BoundsAssumption, Recorded, ~SeekBack
    PROVE  Spec => []FeedBounded
  <1>1. Init => Announced /\ Following
    BY InitFollows
  <1>2. IInv /\ Announced /\ Following /\ [Next]_vars => Announced' /\ Following'
    <2>1. SUFFICES ASSUME IInv, Announced, Following, [Next]_vars PROVE Announced' /\ Following'
      OBVIOUS
    <2>2. Announced'
      BY <2>1, AnnouncedKept DEF IInv
    <2>3. QED
      BY <2>1, <2>2, FollowingKept
  <1>3. IInv /\ Announced /\ Following => FeedBounded
    <2>1. SUFFICES ASSUME IInv, Announced, Following, NEW i \in 1 .. Len(feed)
                   PROVE  feed[i] <= ceiling
      BY DEF FeedBounded
    <2>2. cursor \in Nat /\ start \in 0 .. cursor /\ cursor - start \in Nat
          /\ feed = [j \in 1 .. cursor - start |-> start + j]
      <3>1. cursor \in Nat
        BY <2>1, Numbers DEF IInv
      <3>2. start \in 0 .. cursor /\ feed = [j \in 1 .. cursor - start |-> start + j]
        BY <2>1 DEF IInv, Exact, Contiguous
      <3>3. QED
        BY <3>1, <3>2
    <2>3. Len(feed) = cursor - start
      BY <2>2
    <2>4. feed[i] = start + i /\ start + i <= cursor /\ start + i \in Nat
      BY <2>1, <2>2, <2>3
    <2>5. cursor <= ceiling /\ ceiling \in Nat
      BY <2>1 DEF Announced, Following, IInv, Produced
    <2>6. QED
      BY <2>2, <2>4, <2>5
  <1>4. QED
    BY <1>1, <1>2, <1>3, SpecIInv, PTL DEF Spec

=============================================================================
