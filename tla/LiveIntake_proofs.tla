------------------------- MODULE LiveIntake_proofs -------------------------
(***************************************************************************)
(* Safety of the live intake, for any rows, times, callers and bounds: an  *)
(* inductive invariant of each of the five parts, and what the run checks  *)
(* of them side by side.                                                   *)
(***************************************************************************)
EXTENDS MCLiveIntake, FiniteSetTheorems, WellFoundedInduction, TLAPS

(***************************************************************************)
(* The queue.  IInv adds to the properties what ties the flag, the         *)
(* callback and the task together.                                         *)
(***************************************************************************)

Control ==
    /\ ~scheduled => callbacks = 0 /\ task = "none"
    /\ scheduled /\ ~closing => callbacks > 0 \/ task # "none"
    /\ ~closing /\ queue # <<>> => scheduled
    /\ cancelled => closing

PendingReset == task \in {"none", "created"} => ~unflushed

\* The message in the callback and the one that is handled are messages.
InHand ==
    /\ receiving => arrived \in Messages
    /\ task \in {"handling", "handled"} => current \in Messages

IInv ==
    /\ TypeOK /\ RowsBounded /\ OneDispatcher
    /\ Control /\ PendingReset /\ InHand /\ UnflushedCounted

\* What the operations on the queue return.
LEMMA QueueOps ==
    ASSUME queue \in Seq(Messages), NEW m \in Messages
    PROVE  /\ Append(queue, m) \in Seq(Messages)
           /\ Append(queue, m) # <<>>
           /\ Len(Append(queue, m)) = Len(queue) + 1
  <1>1. Append(queue, m) \in Seq(Messages) /\ Len(Append(queue, m)) = Len(queue) + 1
    OBVIOUS
  <1>2. Len(queue) + 1 # 0 /\ Len(<<>>) = 0
    OBVIOUS
  <1> QED
    BY <1>1, <1>2

LEMMA QueueHead ==
    ASSUME queue \in Seq(Messages), queue # <<>>
    PROVE  /\ Head(queue) \in Messages
           /\ Tail(queue) \in Seq(Messages)
           /\ Len(Tail(queue)) = Len(queue) - 1
  OBVIOUS

LEMMA QueueLen ==
    ASSUME queue \in Seq(Messages)
    PROVE  Len(queue) \in Nat /\ (queue = <<>> <=> Len(queue) = 0)
  OBVIOUS

LEMMA NoMessages == <<>> \in Seq(Messages) /\ Len(<<>>) = 0
  OBVIOUS

LEMMA InitInv == Init => IInv
  <1> SUFFICES ASSUME Init PROVE IInv
    OBVIOUS
  <1> USE MaxRowsAssumption, MaxMessagesAssumption, NoMessages DEF Init
  <1>1. TypeOK
    <2>1. /\ queue \in Seq(Messages) /\ rows \in Nat /\ scheduled \in BOOLEAN
          /\ closing \in BOOLEAN /\ receiving \in BOOLEAN
      OBVIOUS
    <2>2. arrived \in 0 .. MaxMessages /\ current \in 0 .. MaxMessages /\ batch \in 0 .. MaxRows
      OBVIOUS
    <2>3. callbacks \in Nat /\ unpersisted \in Nat /\ failures \in Nat
      OBVIOUS
    <2>4. task \in Labels /\ cancelled \in BOOLEAN /\ unflushed \in BOOLEAN
      BY DEF Labels
    <2>5. ingested \subseteq Messages /\ refused \subseteq Messages /\ buffered \subseteq ingested
      OBVIOUS
    <2> QED
      BY <2>1, <2>2, <2>3, <2>4, <2>5 DEF TypeOK
  <1>2. RowsBounded
    BY DEF RowsBounded, InFlight
  <1>3. OneDispatcher /\ Control /\ PendingReset /\ InHand /\ UnflushedCounted
    BY DEF OneDispatcher, Control, PendingReset, InHand, UnflushedCounted
  <1> QED
    BY <1>1, <1>2, <1>3 DEF IInv

\* Steps of the thread.
LEMMA ArriveKeeps == ASSUME IInv, Arrive PROVE IInv'
  <1> USE MaxMessagesAssumption DEF Arrive, shared, locals, outcome
  <1>1. arrived' \in Messages
    BY DEF IInv, TypeOK, Messages
  <1>2. TypeOK'
    BY <1>1 DEF IInv, TypeOK, Messages
  <1>3. RowsBounded'
    BY DEF IInv, RowsBounded, InFlight
  <1>4. OneDispatcher' /\ Control' /\ PendingReset' /\ InHand'
    BY <1>1 DEF IInv, OneDispatcher, Control, PendingReset, InHand
  <1>5. UnflushedCounted'
    BY DEF IInv, UnflushedCounted, GapReported
  <1> QED
    BY <1>2, <1>3, <1>4, <1>5 DEF IInv

LEMMA OverflowKeeps == ASSUME IInv, Overflow PROVE IInv'
  <1> USE DEF Overflow, shared, locals, outcome
  <1>1. TypeOK'
    <2>1. unpersisted' \in Nat
      BY DEF IInv, TypeOK
    <2>2. receiving' \in BOOLEAN
      OBVIOUS
    <2> QED
      BY <2>1, <2>2 DEF IInv, TypeOK
  <1>2. RowsBounded'
    BY DEF IInv, RowsBounded, InFlight
  <1>3. OneDispatcher' /\ Control' /\ PendingReset' /\ InHand'
    BY DEF IInv, OneDispatcher, Control, PendingReset, InHand
  <1>4. UnflushedCounted'
    BY DEF IInv, TypeOK, UnflushedCounted, GapReported
  <1> QED
    BY <1>1, <1>2, <1>3, <1>4 DEF IInv

LEMMA EnqueueKeeps == ASSUME IInv, Enqueue PROVE IInv'
  <1> USE MaxRowsAssumption DEF Enqueue, locals, outcome
  <1>0. /\ queue' \in Seq(Messages) /\ queue' # <<>> /\ Len(queue') = Len(queue) + 1
        /\ Len(queue) \in Nat
    BY QueueOps, QueueLen DEF IInv, TypeOK, InHand
  <1>1. TypeOK'
    <2>1. rows' \in Nat /\ callbacks' \in Nat
      BY DEF IInv, TypeOK
    <2>2. scheduled' \in BOOLEAN /\ receiving' \in BOOLEAN
      OBVIOUS
    <2> QED
      BY <1>0, <2>1, <2>2 DEF IInv, TypeOK
  <1>2. RowsBounded'
    BY <1>0 DEF IInv, TypeOK, RowsBounded, InFlight
  <1>3. OneDispatcher'
    BY DEF IInv, TypeOK, OneDispatcher, Control
  <1>4. Control'
    BY <1>0 DEF IInv, TypeOK, Control
  <1>5. PendingReset' /\ InHand' /\ UnflushedCounted'
    BY DEF IInv, PendingReset, InHand, UnflushedCounted, GapReported
  <1> QED
    BY <1>1, <1>2, <1>3, <1>4, <1>5 DEF IInv

\* Steps of the event loop.
LEMMA Discards ==
    ASSUME IInv, Discard
    PROVE  /\ queue' = <<>> /\ queue' \in Seq(Messages) /\ Len(queue') = 0
           /\ rows' = InFlight /\ rows' \in Nat
           /\ unpersisted' \in Nat /\ unpersisted' >= unpersisted
  <1>1. queue' = <<>> /\ queue' \in Seq(Messages) /\ Len(queue') = 0
    BY NoMessages DEF Discard
  <1>2. Len(queue) \in Nat
    BY QueueLen DEF IInv, TypeOK
  <1>3. rows' = InFlight /\ rows' \in Nat
    BY <1>2 DEF Discard, IInv, TypeOK, RowsBounded, InFlight
  <1>4. unpersisted' \in Nat /\ unpersisted' >= unpersisted
    BY <1>2 DEF Discard, IInv, TypeOK
  <1> QED
    BY <1>1, <1>3, <1>4

LEMMA StartDispatchKeeps == ASSUME IInv, StartDispatch PROVE IInv'
  <1> USE MaxRowsAssumption DEF StartDispatch, thread, locals, outcome
  <1>0. scheduled /\ callbacks = 1 /\ callbacks' = 0 /\ task = "none" /\ ~unflushed
    BY DEF IInv, TypeOK, Control, OneDispatcher, PendingReset
  <1>1. CASE closing
    <2> USE <1>0, <1>1
    <2>1. Discard /\ scheduled' = FALSE /\ UNCHANGED <<task, cancelled>>
      OBVIOUS
    <2>2. TypeOK'
      <3>1. /\ queue' \in Seq(Messages) /\ rows' \in Nat /\ unpersisted' \in Nat
            /\ callbacks' \in Nat
        BY <2>1, Discards
      <3>2. scheduled' \in BOOLEAN
        BY <2>1
      <3> QED
        BY <2>1, <3>1, <3>2 DEF IInv, TypeOK
    <2>3. RowsBounded'
      BY <2>1, Discards DEF RowsBounded, InFlight
    <2>4. OneDispatcher' /\ Control' /\ PendingReset' /\ InHand'
      BY <2>1 DEF IInv, OneDispatcher, Control, PendingReset, InHand
    <2>5. UnflushedCounted'
      BY <2>1, Discards DEF IInv, TypeOK, UnflushedCounted, GapReported
    <2> QED
      BY <2>2, <2>3, <2>4, <2>5 DEF IInv
  <1>2. CASE ~closing
    <2> USE <1>0, <1>2 DEF shared
    <2>1. task' = "created" /\ cancelled' = FALSE /\ UNCHANGED <<shared, unpersisted>>
      OBVIOUS
    <2>2. TypeOK'
      <3>1. task' \in Labels /\ cancelled' \in BOOLEAN
        BY <2>1 DEF Labels, Awaiting
      <3> QED
        BY <2>1, <3>1 DEF IInv, TypeOK
    <2>3. RowsBounded'
      BY <2>1 DEF IInv, RowsBounded, InFlight
    <2>4. OneDispatcher' /\ Control' /\ PendingReset' /\ InHand'
      BY <2>1 DEF IInv, OneDispatcher, Control, PendingReset, InHand
    <2>5. UnflushedCounted'
      BY <2>1 DEF IInv, UnflushedCounted, GapReported
    <2> QED
      BY <2>2, <2>3, <2>4, <2>5 DEF IInv
  <1> QED
    BY <1>1, <1>2

\* Steps of the task that only go to another label.
LEMMA MoveKeeps ==
    ASSUME IInv, Enter \/ Top \/ Order \/ FlushCancelled \/ Check \/ NeverRan
    PROVE  IInv'
  <1> USE MaxRowsAssumption DEF shared, thread, locals, outcome, Goto
  <1>1. /\ UNCHANGED <<queue, rows, scheduled, closing, arrived, receiving, callbacks, cancelled,
                       current, unpersisted, failures, ingested, refused, buffered>>
        /\ batch' = batch \/ batch' = 0
    BY DEF Enter, Top, Order, FlushCancelled, Check, NeverRan
  <1>2. task # "none"
    BY DEF Enter, Top, Order, FlushCancelled, Check, NeverRan
  <1>3. task' \in Labels \ {"handling", "handled", "created"}
    BY DEF Enter, Top, Order, FlushCancelled, Check, NeverRan, Labels, Awaiting
  <1>4. InFlight = 0 /\ InFlight' = 0
    BY <1>3 DEF InFlight, Enter, Top, Order, FlushCancelled, Check, NeverRan
  <1>5. unflushed' \in BOOLEAN /\ (unflushed => unflushed')
    BY DEF Enter, Top, Order, FlushCancelled, Check, NeverRan, IInv, TypeOK, PendingReset
  <1>6. task' = "none" => ~unflushed' /\ cancelled
    BY DEF Enter, Top, Order, FlushCancelled, Check, NeverRan, IInv, PendingReset
  <1>7. TypeOK'
    <2>1. task' \in Labels /\ batch' \in 0 .. MaxRows
      BY <1>1, <1>3 DEF IInv, TypeOK
    <2> QED
      BY <1>1, <1>5, <2>1 DEF IInv, TypeOK
  <1>8. RowsBounded'
    BY <1>1, <1>4 DEF IInv, RowsBounded
  <1>9. OneDispatcher'
    BY <1>1, <1>2 DEF IInv, TypeOK, OneDispatcher
  <1>10. Control'
    BY <1>1, <1>2, <1>6 DEF IInv, Control
  <1>11. PendingReset' /\ InHand' /\ UnflushedCounted'
    BY <1>1, <1>3, <1>5, <1>6 DEF IInv, PendingReset, InHand, UnflushedCounted, GapReported
  <1> QED
    BY <1>7, <1>8, <1>9, <1>10, <1>11 DEF IInv

LEMMA PopKeeps == ASSUME IInv, Pop PROVE IInv'
  <1> USE MaxRowsAssumption DEF Pop, shared, thread, outcome, Goto
  <1>1. CASE queue # <<>> /\ batch < MaxRows
    <2> USE <1>1
    <2>1. /\ task = "popping" /\ task' = "handling" /\ batch' = batch + 1
          /\ current' = Head(queue) /\ queue' = Tail(queue)
      OBVIOUS
    <2>2. /\ current' \in Messages /\ queue' \in Seq(Messages) /\ Len(queue') = Len(queue) - 1
          /\ Len(queue) \in Nat
      BY <2>1, QueueHead, QueueLen DEF IInv, TypeOK
    <2>3. TypeOK'
      <3>1. task' \in Labels
        BY <2>1 DEF Labels, Awaiting
      <3>2. batch' \in 0 .. MaxRows
        BY <2>1 DEF IInv, TypeOK
      <3>3. current' \in 0 .. MaxMessages
        BY <2>2, MaxMessagesAssumption DEF Messages
      <3> QED
        BY <2>2, <3>1, <3>2, <3>3 DEF IInv, TypeOK
    <2>4. RowsBounded'
      BY <2>1, <2>2 DEF IInv, TypeOK, RowsBounded, InFlight
    <2>5. OneDispatcher' /\ PendingReset' /\ UnflushedCounted'
      BY <2>1 DEF IInv, OneDispatcher, PendingReset, UnflushedCounted, GapReported
    <2>6. Control' /\ InHand'
      BY <2>1, <2>2 DEF IInv, Control, InHand
    <2> QED
      BY <2>3, <2>4, <2>5, <2>6 DEF IInv
  <1>2. CASE ~(queue # <<>> /\ batch < MaxRows)
    <2>1. task = "popping" /\ task' \in {"ordering", "checking"} /\ UNCHANGED <<queue, current, batch>>
      BY <1>2
    <2>2. TypeOK'
      <3>1. task' \in Labels
        BY <2>1 DEF Labels, Awaiting
      <3> QED
        BY <2>1, <3>1 DEF IInv, TypeOK
    <2>3. RowsBounded'
      BY <2>1 DEF IInv, RowsBounded, InFlight
    <2>4. OneDispatcher' /\ PendingReset' /\ UnflushedCounted' /\ Control' /\ InHand'
      BY <2>1 DEF IInv, OneDispatcher, PendingReset, UnflushedCounted, GapReported, Control, InHand
    <2> QED
      BY <2>2, <2>3, <2>4 DEF IInv
  <1> QED
    BY <1>1, <1>2

LEMMA HandleKeeps == ASSUME IInv, Handle \/ HandleCancelled PROVE IInv'
  <1> USE DEF shared, thread, locals, outcome, Goto
  <1>1. /\ UNCHANGED <<queue, rows, scheduled, closing, arrived, receiving, callbacks, cancelled,
                       current, batch, failures>>
        /\ task = "handling" /\ task' = "handled"
    BY DEF Handle, HandleCancelled
  <1>2. current \in Messages
    BY <1>1 DEF IInv, InHand
  <1>3. unpersisted' \in Nat /\ unflushed' \in BOOLEAN
    <2>1. unpersisted' = unpersisted \/ unpersisted' = unpersisted + 1
      BY DEF Handle, HandleCancelled
    <2>2. unpersisted' \in Nat
      BY <2>1 DEF IInv, TypeOK
    <2>3. unflushed' = unflushed \/ unflushed' = TRUE
      BY DEF Handle, HandleCancelled
    <2> QED
      BY <2>2, <2>3 DEF IInv, TypeOK
  <1>4. ingested' \subseteq Messages /\ refused' \subseteq Messages /\ buffered' \subseteq ingested'
    BY <1>2 DEF Handle, HandleCancelled, Abort, IInv, TypeOK
  <1>5. TypeOK'
    <2>1. task' \in Labels
      BY <1>1 DEF Labels, Awaiting
    <2> QED
      BY <1>1, <1>3, <1>4, <2>1 DEF IInv, TypeOK
  <1>6. RowsBounded'
    BY <1>1 DEF IInv, RowsBounded, InFlight
  <1>7. OneDispatcher' /\ Control' /\ PendingReset' /\ InHand'
    BY <1>1 DEF IInv, OneDispatcher, Control, PendingReset, InHand
  <1>8. UnflushedCounted'
    <2>1. unflushed' \/ unpersisted' > 0 \/ (UNCHANGED <<unflushed, unpersisted, buffered>>)
      BY DEF Handle, HandleCancelled, IInv, TypeOK
    <2> QED
      BY <1>1, <2>1 DEF IInv, UnflushedCounted, GapReported
  <1> QED
    BY <1>5, <1>6, <1>7, <1>8 DEF IInv

LEMMA SettleKeeps == ASSUME IInv, Settle PROVE IInv'
  <1> USE DEF Settle, thread, locals, outcome, Goto
  <1>1. task = "handled" /\ task' \in {"ending", "popping"} /\ rows' = rows - 1
    OBVIOUS
  <1>2. Len(queue) \in Nat /\ rows = Len(queue) + 1
    BY <1>1, QueueLen DEF IInv, TypeOK, RowsBounded, InFlight
  <1>3. TypeOK'
    <2>1. task' \in Labels /\ rows' \in Nat
      BY <1>1, <1>2 DEF Labels, Awaiting
    <2> QED
      BY <2>1 DEF IInv, TypeOK
  <1>4. RowsBounded'
    BY <1>1, <1>2, MaxRowsAssumption DEF IInv, RowsBounded, InFlight
  <1>5. OneDispatcher' /\ Control' /\ PendingReset' /\ InHand' /\ UnflushedCounted'
    BY <1>1 DEF IInv, OneDispatcher, Control, PendingReset, InHand, UnflushedCounted, GapReported
  <1> QED
    BY <1>3, <1>4, <1>5 DEF IInv

LEMMA FlushKeeps == ASSUME IInv, Flush PROVE IInv'
  <1> USE DEF Flush, shared, thread, Goto
  <1>1. task = "flushing" /\ task' = "checking" /\ unflushed' = FALSE
    OBVIOUS
  <1>2. failures' \in Nat /\ (buffered' = {} \/ (failures' > 0 /\ buffered' = buffered))
    BY DEF IInv, TypeOK
  <1>3. TypeOK'
    <2>1. task' \in Labels /\ unflushed' \in BOOLEAN /\ buffered' \subseteq ingested'
      BY <1>1, <1>2 DEF Labels, IInv, TypeOK
    <2> QED
      BY <1>2, <2>1 DEF IInv, TypeOK
  <1>4. RowsBounded'
    BY <1>1 DEF IInv, RowsBounded, InFlight
  <1>5. OneDispatcher' /\ Control' /\ PendingReset' /\ InHand'
    BY <1>1 DEF IInv, OneDispatcher, Control, PendingReset, InHand
  <1>6. UnflushedCounted'
    BY <1>2 DEF UnflushedCounted, GapReported
  <1> QED
    BY <1>3, <1>4, <1>5, <1>6 DEF IInv

\* The finally block: it either drops the flag or hands it to the next callback.
LEMMA EndKeeps == ASSUME IInv, End PROVE IInv'
  <1> USE DEF End, thread, outcome, Goto
  <1>1. task = "ending" /\ task' = "none" /\ unflushed' = FALSE
    OBVIOUS
  <1>2. callbacks = 0 /\ scheduled
    BY <1>1 DEF IInv, TypeOK, OneDispatcher, Control
  <1>3. InFlight = 0 /\ InFlight' = 0
    BY <1>1 DEF InFlight
  <1>4. /\ queue' \in Seq(Messages) /\ rows' = Len(queue') /\ rows' \in Nat /\ rows' <= MaxRows
        /\ unpersisted' \in Nat /\ unpersisted' >= unpersisted
    <2>1. CASE closing
      BY <1>3, <2>1, Discards, MaxRowsAssumption
    <2>2. CASE ~closing
      <3>1. UNCHANGED <<queue, rows, unpersisted>>
        BY <2>2
      <3>2. Len(queue) \in Nat
        BY QueueLen DEF IInv, TypeOK
      <3> QED
        BY <1>3, <3>1, <3>2 DEF IInv, TypeOK, RowsBounded
    <2> QED
      BY <2>1, <2>2
  <1>5. failures' \in Nat /\ failures' >= failures /\ (unflushed => failures' > 0)
    BY DEF IInv, TypeOK
  <1>6. \/ callbacks' = 1 /\ scheduled'
        \/ callbacks' = 0 /\ ~scheduled' /\ (queue = <<>> \/ closing)
    <2>1. CASE queue # <<>> /\ ~closing
      BY <1>2, <2>1
    <2>2. CASE ~(queue # <<>> /\ ~closing)
      BY <1>2, <2>2
    <2> QED
      BY <2>1, <2>2
  <1>7. TypeOK'
    <2>1. task' \in Labels /\ unflushed' \in BOOLEAN
      BY <1>1 DEF Labels
    <2>2. callbacks' \in Nat
      BY <1>6
    <2>3. scheduled' \in BOOLEAN
      BY DEF IInv, TypeOK
    <2> QED
      BY <1>4, <1>5, <2>1, <2>2, <2>3 DEF IInv, TypeOK
  <1>8. RowsBounded'
    BY <1>3, <1>4 DEF RowsBounded, TypeOK
  <1>9. OneDispatcher'
    BY <1>1, <1>6 DEF OneDispatcher
  <1>10. Control'
    <2>1. ~closing => queue' = queue
      OBVIOUS
    <2> QED
      BY <1>1, <1>2, <1>6, <2>1 DEF IInv, Control
  <1>11. PendingReset' /\ InHand'
    BY <1>1 DEF IInv, PendingReset, InHand
  <1>12. UnflushedCounted'
    BY <1>4, <1>5 DEF IInv, TypeOK, UnflushedCounted, GapReported
  <1> QED
    BY <1>7, <1>8, <1>9, <1>10, <1>11, <1>12 DEF IInv

LEMMA DisconnectKeeps == ASSUME IInv, Disconnect PROVE IInv'
  <1> USE DEF Disconnect, thread, locals, outcome
  <1>1. TypeOK'
    <2>1. cancelled' \in BOOLEAN /\ closing' \in BOOLEAN
      OBVIOUS
    <2> QED
      BY <2>1, Discards DEF IInv, TypeOK
  <1>2. RowsBounded'
    <2>1. InFlight' = InFlight /\ InFlight \in 0 .. 1
      BY DEF InFlight
    <2> QED
      BY <2>1, Discards, MaxRowsAssumption DEF RowsBounded
  <1>3. OneDispatcher' /\ PendingReset' /\ InHand'
    BY DEF IInv, OneDispatcher, PendingReset, InHand
  <1>4. Control'
    BY DEF IInv, Control
  <1>5. UnflushedCounted'
    BY Discards DEF IInv, TypeOK, UnflushedCounted, GapReported
  <1> QED
    BY <1>1, <1>2, <1>3, <1>4, <1>5 DEF IInv

LEMMA StutterKeeps == ASSUME IInv, UNCHANGED vars PROVE IInv'
  <1> USE DEF vars
  <1>1. TypeOK'
    BY DEF IInv, TypeOK
  <1>2. RowsBounded' /\ OneDispatcher' /\ Control' /\ PendingReset' /\ InHand'
    BY DEF IInv, RowsBounded, InFlight, OneDispatcher, Control, PendingReset, InHand
  <1>3. UnflushedCounted'
    BY DEF IInv, UnflushedCounted, GapReported
  <1> QED
    BY <1>1, <1>2, <1>3 DEF IInv

LEMMA NextKeeps == ASSUME IInv, [Next]_vars PROVE IInv'
  <1>1. CASE Arrive \/ Overflow \/ Enqueue
    BY <1>1, ArriveKeeps, OverflowKeeps, EnqueueKeeps
  <1>2. CASE StartDispatch \/ Disconnect
    BY <1>2, StartDispatchKeeps, DisconnectKeeps
  <1>3. CASE Dispatch
    BY <1>3, MoveKeeps, PopKeeps, HandleKeeps, SettleKeeps, FlushKeeps, EndKeeps DEF Dispatch
  <1>4. CASE UNCHANGED vars
    BY <1>4, StutterKeeps
  <1> QED
    BY <1>1, <1>2, <1>3, <1>4 DEF Next

\* The inductive invariant holds in every reachable state.
THEOREM SpecIInv == Spec => []IInv
  <1>1. Init => IInv
    BY InitInv
  <1>2. IInv /\ [Next]_vars => IInv'
    BY NextKeeps
  <1> QED
    BY <1>1, <1>2, PTL DEF Spec

\* The variables of the intake keep their types; in particular a counter of
\* reservations is never negative (openf1.py:646, 607).
THEOREM TypeCorrect == Spec => []TypeOK
  <1>1. IInv => TypeOK
    BY DEF IInv
  <1> QED
    BY <1>1, SpecIInv, PTL

\* Whatever the bound of the queue, the reservations are exactly the messages that
\* are queued or being handled and never exceed it (openf1.py:587, 646).
THEOREM RowsAreBounded == Spec => []RowsBounded
  <1>1. IInv => RowsBounded
    BY DEF IInv
  <1> QED
    BY <1>1, SpecIInv, PTL

\* However the thread, the callbacks and a shutdown interleave, at most one
\* dispatcher runs or is about to be started (openf1.py:596, 674).
THEOREM OneDispatcherRuns == Spec => []OneDispatcher
  <1>1. IInv => OneDispatcher
    BY DEF IInv
  <1> QED
    BY <1>1, SpecIInv, PTL

\* A message put into the queue between the last look at it and the end of the
\* task still has a dispatcher (openf1.py:662, 671).
THEOREM WakeupsKept == Spec => []NoLostWakeup
  <1>1. IInv => NoLostWakeup
    BY DEF IInv, Control, NoLostWakeup
  <1> QED
    BY <1>1, SpecIInv, PTL

\* Events left in the ordering buffer by a failed or cancelled dispatch are
\* visible in a counter (openf1.py:656, 667).
THEOREM UnflushedAreCounted == Spec => []UnflushedCounted
  <1>1. IInv => UnflushedCounted
    BY DEF IInv
  <1> QED
    BY <1>1, SpecIInv, PTL

-----------------------------------------------------------------------------
(* What was lost against what was counted.                                 *)

\* What is newly lost is counted.
LEMMA LossKept ==
    ASSUME IInv, IInv', LossCounted, NEW X, IsFiniteSet(X),
           unpersisted + Cardinality(X) <= unpersisted', Lost' \subseteq Lost \cup X
    PROVE  LossCounted'
  <1>1. IsFiniteSet(1 .. arrived)
    BY FS_Interval DEF IInv, TypeOK
  <1>2. IsFiniteSet(Lost)
    BY <1>1, FS_Subset DEF Lost
  <1>3. /\ IsFiniteSet(Lost \cup X)
        /\ Cardinality(Lost \cup X)
             = Cardinality(Lost) + Cardinality(X) - Cardinality(Lost \cap X)
    BY <1>2, FS_Union
  <1>4. IsFiniteSet(Lost \cap X)
    BY <1>2, FS_Subset
  <1>5. IsFiniteSet(Lost') /\ Cardinality(Lost') <= Cardinality(Lost \cup X)
    BY <1>3, FS_Subset
  <1>6. /\ Cardinality(Lost) \in Nat /\ Cardinality(X) \in Nat /\ Cardinality(Lost') \in Nat
        /\ Cardinality(Lost \cap X) \in Nat /\ Cardinality(Lost \cup X) \in Nat
    BY <1>2, <1>3, <1>4, <1>5, FS_CardinalityType
  <1>7. unpersisted \in Nat /\ unpersisted' \in Nat
    BY DEF IInv, TypeOK
  <1>8. QED
    BY <1>3, <1>5, <1>6, <1>7 DEF LossCounted

LEMMA NothingLost ==
    ASSUME IInv, IInv', LossCounted, unpersisted <= unpersisted', Lost' \subseteq Lost
    PROVE  LossCounted'
  <1>1. IsFiniteSet({}) /\ Cardinality({}) = 0
    BY FS_EmptySet
  <1>2. unpersisted + Cardinality({}) <= unpersisted'
    <2>1. unpersisted \in Nat /\ unpersisted' \in Nat
      BY DEF IInv, TypeOK
    <2>2. QED
      BY <1>1, <2>1
  <1>3. Lost' \subseteq Lost \cup {}
    OBVIOUS
  <1>4. QED
    BY <1>1, <1>2, <1>3, LossKept

LEMMA OneLost ==
    ASSUME IInv, IInv', LossCounted, NEW m, unpersisted' = unpersisted + 1,
           Lost' \subseteq Lost \cup {m}
    PROVE  LossCounted'
  <1>1. IsFiniteSet({m}) /\ Cardinality({m}) = 1
    BY FS_Singleton
  <1>2. unpersisted + Cardinality({m}) <= unpersisted'
    BY <1>1 DEF IInv, TypeOK
  <1>3. QED
    BY <1>1, <1>2, LossKept

\* The queue holds at most as many messages as it is long.
LEMMA QueuedBounded ==
    ASSUME queue \in Seq(Messages)
    PROVE  IsFiniteSet(Queued) /\ Cardinality(Queued) <= Len(queue)
  <1>1. Len(queue) \in Nat
    OBVIOUS
  <1>2. ExistsSurjection(1 .. Len(queue), Queued)
    <2> DEFINE f == [i \in 1 .. Len(queue) |-> queue[i]]
    <2>1. f \in [1 .. Len(queue) -> Queued]
      BY DEF Queued
    <2>2. \A m \in Queued : \E i \in 1 .. Len(queue) : f[i] = m
      BY DEF Queued
    <2>3. QED
      BY <2>1, <2>2 DEF ExistsSurjection, Surjection
  <1>3. QED
    BY <1>1, <1>2, FS_NatSurjection, FS_SurjCardinalityBound

\* Discarding the queue counts what was in it.
LEMMA DiscardCounts ==
    ASSUME IInv, IInv', LossCounted, Discard, UNCHANGED <<arrived, receiving, ingested, refused>>,
           task' = "handling" <=> task = "handling", current' = current
    PROVE  LossCounted'
  <1>1. IsFiniteSet(Queued) /\ Cardinality(Queued) <= Len(queue)
    BY QueuedBounded DEF IInv, TypeOK
  <1>2. Cardinality(Queued) \in Nat /\ Len(queue) \in Nat
    BY <1>1, FS_CardinalityType, QueueLen DEF IInv, TypeOK
  <1>3. unpersisted + Cardinality(Queued) <= unpersisted'
    <2>1. unpersisted \in Nat /\ unpersisted' = unpersisted + Len(queue)
      BY DEF Discard, IInv, TypeOK
    <2>2. QED
      BY <1>1, <1>2, <2>1
  <1>4. Lost' \subseteq Lost \cup Queued
    BY DEF Lost
  <1>5. QED
    BY <1>1, <1>3, <1>4, LossKept

\* The messages that a step of the queue leaves in it.
LEMMA QueuedAppend ==
    ASSUME queue \in Seq(Messages), NEW m \in Messages, queue' = Append(queue, m)
    PROVE  Queued' = Queued \cup {m}
  <1>1. Len(queue) \in Nat /\ Len(queue') = Len(queue) + 1
    OBVIOUS
  <1>2. /\ \A i \in 1 .. Len(queue) : queue'[i] = queue[i]
        /\ queue'[Len(queue) + 1] = m
    OBVIOUS
  <1>3. 1 .. Len(queue') = (1 .. Len(queue)) \cup {Len(queue) + 1}
    BY <1>1
  <1>4. QED
    BY <1>2, <1>3 DEF Queued

LEMMA QueuedTail ==
    ASSUME queue \in Seq(Messages), queue # <<>>, queue' = Tail(queue)
    PROVE  Queued \subseteq Queued' \cup {Head(queue)}
  <1>1. /\ Len(queue) \in Nat /\ Len(queue') = Len(queue) - 1
        /\ \A i \in 1 .. Len(queue) - 1 : queue'[i] = queue[i + 1]
    OBVIOUS
  <1>2. ASSUME NEW i \in 1 .. Len(queue)
        PROVE  queue[i] \in Queued' \cup {Head(queue)}
    <2>1. CASE i = 1
      BY <2>1
    <2>2. CASE i # 1
      <3>1. i - 1 \in 1 .. Len(queue') /\ i - 1 \in 1 .. Len(queue) - 1 /\ (i - 1) + 1 = i
        BY <1>1, <2>2
      <3>2. queue'[i - 1] = queue[i]
        BY <1>1, <3>1
      <3>3. QED
        BY <3>1, <3>2 DEF Queued
    <2>3. QED
      BY <2>1, <2>2
  <1>3. QED
    BY <1>2 DEF Queued

\* Every step counts what it loses.
LEMMA LossSteps ==
    ASSUME IInv, IInv', LossCounted, Next
    PROVE  LossCounted'
  <1>0. unpersisted \in Nat /\ arrived \in Nat /\ queue \in Seq(Messages)
    BY DEF IInv, TypeOK
  <1>1. CASE Arrive
    <2>1. arrived' = arrived + 1 /\ receiving' = TRUE /\ unpersisted' = unpersisted
      BY <1>1 DEF Arrive
    <2>2. 1 .. arrived' = (1 .. arrived) \cup {arrived'}
      BY <1>0, <2>1
    <2>3. Lost' \subseteq Lost
      BY <1>1, <2>1, <2>2 DEF Arrive, shared, locals, outcome, Lost, Queued
    <2>4. QED
      BY <1>0, <2>1, <2>3, NothingLost
  <1>2. CASE Overflow
    BY <1>2, OneLost DEF Overflow, shared, locals, outcome, Lost, Queued
  <1>3. CASE Enqueue
    <2>1. arrived \in Messages
      BY <1>3 DEF Enqueue, IInv, InHand
    <2>2. Queued' = Queued \cup {arrived}
      BY <1>0, <1>3, <2>1, QueuedAppend DEF Enqueue
    <2>3. Lost' \subseteq Lost
      BY <1>3, <2>2 DEF Enqueue, locals, outcome, Lost
    <2>4. QED
      BY <1>0, <1>3, <2>3, NothingLost DEF Enqueue
  <1>4. CASE StartDispatch
    <2>1. /\ UNCHANGED <<arrived, receiving, ingested, refused, current>>
          /\ task = "none" /\ task' \in {"none", "created"}
      BY <1>4 DEF StartDispatch, thread, locals, outcome, IInv, Control, OneDispatcher, TypeOK
    <2>2. CASE closing
      BY <1>4, <2>1, <2>2, DiscardCounts DEF StartDispatch
    <2>3. CASE ~closing
      <3>1. UNCHANGED <<queue, unpersisted>>
        BY <1>4, <2>3 DEF StartDispatch, shared
      <3>2. QED
        BY <1>0, <2>1, <3>1, NothingLost DEF Lost, Queued
    <2>4. QED
      BY <2>2, <2>3
  <1>5. CASE Pop
    <2>1. /\ UNCHANGED <<arrived, receiving, ingested, refused, unpersisted>> /\ task = "popping"
      BY <1>5 DEF Pop, thread, outcome
    <2>2. CASE queue # <<>> /\ batch < MaxRows
      <3>1. queue' = Tail(queue) /\ current' = Head(queue) /\ task' = "handling"
        BY <1>5, <2>2 DEF Pop, Goto
      <3>2. Queued \subseteq Queued' \cup {current'}
        BY <1>0, <2>2, <3>1, QueuedTail
      <3>3. Lost' \subseteq Lost
        BY <2>1, <3>1, <3>2 DEF Lost
      <3>4. QED
        BY <1>0, <2>1, <3>3, NothingLost
    <2>3. CASE ~(queue # <<>> /\ batch < MaxRows)
      <3>1. queue' = queue
        BY <1>5, <2>3 DEF Pop
      <3>2. Lost' \subseteq Lost
        BY <2>1, <3>1 DEF Lost, Queued
      <3>3. QED
        BY <1>0, <2>1, <3>2, NothingLost
    <2>4. QED
      BY <2>2, <2>3
  <1>6. CASE Handle \/ HandleCancelled
    <2>1. /\ UNCHANGED <<queue, arrived, receiving, current>> /\ task = "handling"
          /\ ingested \subseteq ingested' /\ refused \subseteq refused'
          /\ \/ unpersisted' = unpersisted + 1
             \/ unpersisted' = unpersisted /\ current \in ingested' \cup refused'
      BY <1>6 DEF Handle, HandleCancelled, Abort, shared, thread, locals
    <2>2. Lost' \subseteq Lost \cup {current}
      BY <2>1 DEF Lost, Queued
    <2>3. CASE unpersisted' = unpersisted + 1
      BY <2>2, <2>3, OneLost
    <2>4. CASE unpersisted' = unpersisted /\ current \in ingested' \cup refused'
      <3>1. Lost' \subseteq Lost
        BY <2>1, <2>4 DEF Lost, Queued
      <3>2. QED
        BY <1>0, <2>4, <3>1, NothingLost
    <2>5. QED
      BY <2>1, <2>3, <2>4
  <1>7. CASE Enter \/ Top \/ Settle \/ Order \/ Flush \/ FlushCancelled \/ Check \/ NeverRan
    <2>1. /\ UNCHANGED <<queue, arrived, receiving, current, unpersisted, ingested, refused>>
          /\ task # "handling"
      BY <1>7 DEF Enter, Top, Settle, Order, Flush, FlushCancelled, Check, NeverRan, shared,
                  thread, locals, outcome
    <2>2. Lost' \subseteq Lost
      BY <2>1 DEF Lost, Queued
    <2>3. QED
      BY <1>0, <2>1, <2>2, NothingLost
  <1>8. CASE End
    <2>1. /\ UNCHANGED <<arrived, receiving, ingested, refused, current>>
          /\ task = "ending" /\ task' = "none"
      BY <1>8 DEF End, thread, outcome, Goto
    <2>2. CASE closing
      BY <1>8, <2>1, <2>2, DiscardCounts DEF End
    <2>3. CASE ~closing
      <3>1. UNCHANGED <<queue, unpersisted>>
        BY <1>8, <2>3 DEF End
      <3>2. QED
        BY <1>0, <2>1, <3>1, NothingLost DEF Lost, Queued
    <2>4. QED
      BY <2>2, <2>3
  <1>9. CASE Disconnect
    BY <1>9, DiscardCounts DEF Disconnect, thread, locals, outcome
  <1>10. QED
    BY <1>1, <1>2, <1>3, <1>4, <1>5, <1>6, <1>7, <1>8, <1>9 DEF Next, Dispatch

\* A message that is dropped, by a full queue, by a failing or cancelled handler or by
\* a shutdown, is counted (openf1.py: _on_message, _dispatch, _discard_dispatch_queue).
THEOREM LossesCounted == Spec => []LossCounted
  <1>1. Init => LossCounted
    <2>1. SUFFICES ASSUME Init PROVE LossCounted
      OBVIOUS
    <2>2. Lost = {} /\ unpersisted = 0
      BY <2>1 DEF Init, Lost
    <2>3. Cardinality(Lost) = 0
      BY <2>2, FS_EmptySet
    <2>4. QED
      BY <2>2, <2>3 DEF LossCounted
  <1>2. IInv /\ IInv' /\ LossCounted /\ [Next]_vars => LossCounted'
    <2>1. ASSUME LossCounted, UNCHANGED vars PROVE LossCounted'
      BY <2>1 DEF vars, LossCounted, Lost, Queued
    <2>2. QED
      BY <2>1, LossSteps
  <1>3. QED
    BY <1>1, <1>2, SpecIInv, PTL DEF Spec

\* Between the thread and the loop nothing is lost unseen (openf1.py: _on_message,
\* _start_dispatch, _dispatch, disconnect).
THEOREM IntakeIsSafe == Spec => []IntakeSafe
  BY TypeCorrect, RowsAreBounded, OneDispatcherRuns, WakeupsKept, LossesCounted,
     UnflushedAreCounted, PTL DEF IntakeSafe

(***************************************************************************)
(* Induction and recursion over the numbers.                               *)
(***************************************************************************)

\* Whatever holds of 0 and of each successor holds of every number.
LEMMA NatBySet ==
    ASSUME NEW S, 0 \in S, \A n \in Nat : n \in S => n + 1 \in S
    PROVE  Nat \subseteq S
  <1> DEFINE Bad == Nat \ S
             Upto == {1 .. n : n \in Bad}
  <1>1. SUFFICES ASSUME Bad # {}
                 PROVE  FALSE
    OBVIOUS
  <1>2. Upto \subseteq FiniteSubsetsOf(Nat) /\ Upto # {}
    <2>1. \A n \in Bad : IsFiniteSet(1 .. n) /\ 1 .. n \subseteq Nat
      BY FS_Interval
    <2>2. QED
      BY <1>1, <2>1 DEF FiniteSubsetsOf
  <1>3. PICK x \in Upto : \A y \in Upto : ~(<<y, x>> \in StrictSubsetOrdering(Nat))
    <2> HIDE DEF Upto
    <2>1. QED
      BY <1>2, FS_StrictSubsetOrderingWellFounded, WFMin
  <1>4. PICK m \in Bad : x = 1 .. m
    BY <1>3
  <1>5. m # 0 /\ m - 1 \in Nat
    BY <1>4
  <1>6. m - 1 \in Bad
    BY <1>4, <1>5
  <1>7. 1 .. (m - 1) \in Upto
    BY <1>6
  <1>8. 1 .. (m - 1) \subseteq 1 .. m /\ 1 .. (m - 1) # 1 .. m
    BY <1>4, <1>5
  <1>9. <<1 .. (m - 1), 1 .. m>> \in StrictSubsetOrdering(Nat)
    BY <1>8, <1>5, <1>4 DEF StrictSubsetOrdering
  <1>10. QED
    BY <1>3, <1>4, <1>7, <1>9

(***************************************************************************)
(* The heap.                                                               *)
(***************************************************************************)

Sorted(heap) == \A i, j \in 1 .. Len(heap) : i <= j => Time[heap[i]] <= Time[heap[j]]

\* A set of places that is closed downwards is an initial segment.
LEMMA Segment ==
    ASSUME NEW n \in Nat, NEW S \in SUBSET (1 .. n),
           \A i \in S : \A j \in 1 .. i : j \in S
    PROVE  /\ Cardinality(S) \in 0 .. n
           /\ S = 1 .. Cardinality(S)
  <1>1. IsFiniteSet(1 .. n) /\ Cardinality(1 .. n) = n
    BY FS_Interval
  <1>2. IsFiniteSet(S) /\ Cardinality(S) <= n
    BY <1>1, FS_Subset
  <1>3. Cardinality(S) \in Nat
    BY <1>2, FS_CardinalityType
  <1>4. ASSUME NEW i \in S
        PROVE  i <= Cardinality(S)
    <2>1. 1 .. i \in SUBSET S
      BY <1>4
    <2>2. Cardinality(1 .. i) <= Cardinality(S)
      BY <2>1, <1>2, FS_Subset
    <2>3. Cardinality(1 .. i) = i
      BY <1>4, FS_Interval
    <2>4. QED
      BY <2>2, <2>3
  <1>5. S \in SUBSET (1 .. Cardinality(S))
    BY <1>3, <1>4
  <1>6. IsFiniteSet(1 .. Cardinality(S)) /\ Cardinality(1 .. Cardinality(S)) = Cardinality(S)
    BY <1>3, FS_Interval
  <1>7. S = 1 .. Cardinality(S)
    BY <1>5, <1>6, FS_Subset
  <1>8. QED
    BY <1>2, <1>3, <1>7

LEMMA HeapParts ==
    ASSUME NEW heap \in Seq(Rows), NEW n \in 0 .. Len(heap)
    PROVE  /\ Buffering!FirstOf(heap, n) \in Seq(Rows)
           /\ Len(Buffering!FirstOf(heap, n)) = n
           /\ \A i \in 1 .. n : Buffering!FirstOf(heap, n)[i] = heap[i]
           /\ Buffering!Rest(heap, n) \in Seq(Rows)
           /\ Len(Buffering!Rest(heap, n)) = Len(heap) - n
           /\ \A i \in 1 .. (Len(heap) - n) : Buffering!Rest(heap, n)[i] = heap[n + i]
  BY DEF Buffering!FirstOf, Buffering!Rest

\* How many rows are not later than a time says which.
LEMMA HowManyIs ==
    ASSUME NEW heap \in Seq(Rows), Sorted(heap), Time \in [Rows -> Nat], NEW until \in Nat
    PROVE  /\ Buffering!HowMany(heap, until) \in 0 .. Len(heap)
           /\ \A i \in 1 .. Len(heap) :
                i <= Buffering!HowMany(heap, until) <=> Time[heap[i]] <= until
  <1> DEFINE S == {i \in DOMAIN heap : Time[heap[i]] <= until}
  <1>1. S \in SUBSET (1 .. Len(heap)) /\ Len(heap) \in Nat
    OBVIOUS
  <1>2. ASSUME NEW i \in S, NEW j \in 1 .. i
        PROVE  j \in S
    <2>1. j \in 1 .. Len(heap) /\ i \in 1 .. Len(heap)
      OBVIOUS
    <2>2. Time[heap[j]] <= Time[heap[i]] /\ Time[heap[i]] <= until
      BY <2>1 DEF Sorted
    <2>3. heap[i] \in Rows /\ heap[j] \in Rows
      BY <2>1
    <2>4. Time[heap[i]] \in Nat /\ Time[heap[j]] \in Nat
      BY <2>3
    <2>5. QED
      BY <2>1, <2>2, <2>4
  <1>3. Cardinality(S) \in 0 .. Len(heap) /\ S = 1 .. Cardinality(S)
    <2> HIDE DEF S
    <2>1. QED
      BY <1>1, <1>2, Segment
  <1>4. Buffering!HowMany(heap, until) = Cardinality(S)
    BY Zenon DEF Buffering!HowMany, Buffering!Cardinality, Cardinality,
            Buffering!IsFiniteSet, IsFiniteSet
  <1>5. \A i \in 1 .. Len(heap) : i \in S <=> Time[heap[i]] <= until
    OBVIOUS
  <1>6. QED
    <2> HIDE DEF S
    <2>1. QED
      BY <1>3, <1>4, <1>5

\* What is put into a list after its first n entries.
Inserted(p, h, m, n, r) ==
    /\ \A i \in 1 .. n : p[i] = h[i]
    /\ p[n + 1] = r
    /\ \A i \in (n + 1) .. m : p[i + 1] = h[i]

\* The entries of a list.
Entries(p, m) == {p[i] : i \in 1 .. m}

Spliced(whole, R, first, r, rest) ==
    /\ whole \in Seq(R) /\ Len(whole) = Len(first) + Len(rest) + 1
    /\ \A i \in 1 .. Len(first) : whole[i] = first[i]
    /\ whole[Len(first) + 1] = r
    /\ \A i \in 1 .. Len(rest) : whole[Len(first) + 1 + i] = rest[i]

LEMMA InsertedIs ==
    ASSUME NEW R, NEW first \in Seq(R), NEW rest \in Seq(R), NEW r \in R
    PROVE  Spliced(first \o <<r>> \o rest, R, first, r, rest)
  <1> DEFINE head == first \o <<r>>
             whole == head \o rest
  <1>1. head \in Seq(R) /\ Len(head) = Len(first) + 1
    OBVIOUS
  <1>2. \A i \in 1 .. Len(first) : head[i] = first[i]
    OBVIOUS
  <1>3. head[Len(first) + 1] = r
    OBVIOUS
  <1>4. /\ whole \in Seq(R) /\ Len(whole) = Len(head) + Len(rest)
        /\ \A i \in 1 .. Len(head) : whole[i] = head[i]
        /\ \A i \in 1 .. Len(rest) : whole[Len(head) + i] = rest[i]
    <2> HIDE DEF head
    <2>1. QED
      BY <1>1
  <1>5. Len(first) \in Nat /\ Len(rest) \in Nat
    OBVIOUS
  <1>6. \A i \in 1 .. Len(first) : i \in 1 .. Len(head)
    BY <1>1, <1>5
  <1>7. Len(first) + 1 \in 1 .. Len(head)
    BY <1>1, <1>5
  <1>8. QED
    <2> HIDE DEF head
    <2> SUFFICES /\ whole \in Seq(R) /\ Len(whole) = Len(first) + Len(rest) + 1
                 /\ \A i \in 1 .. Len(first) : whole[i] = first[i]
                 /\ whole[Len(first) + 1] = r
                 /\ \A i \in 1 .. Len(rest) : whole[Len(first) + 1 + i] = rest[i]
      BY DEF head, Spliced
    <2> HIDE DEF whole
    <2>1. \A i \in 1 .. Len(first) : whole[i] = first[i]
      BY <1>2, <1>4, <1>6
    <2>2. whole[Len(first) + 1] = r
      BY <1>3, <1>4, <1>7
    <2>3. \A i \in 1 .. Len(rest) : whole[Len(first) + 1 + i] = rest[i]
      BY <1>1, <1>4
    <2>4. Len(whole) = Len(first) + Len(rest) + 1
      BY <1>1, <1>4, <1>5
    <2>5. QED
      BY <1>4, <2>1, <2>2, <2>3, <2>4

LEMMA InsertedRows ==
    ASSUME NEW m \in Nat, NEW n \in 0 .. m, NEW p, NEW h, NEW r, Inserted(p, h, m, n, r)
    PROVE  Entries(p, m + 1) = Entries(h, m) \cup {r}
  <1>1. ASSUME NEW i \in 1 .. (m + 1)
        PROVE  p[i] = r \/ \E k \in 1 .. m : p[i] = h[k]
    <2>1. CASE i <= n
      <3>1. i \in 1 .. n /\ i \in 1 .. m
        BY <2>1
      <3>2. p[i] = h[i]
        BY <3>1 DEF Inserted
      <3>3. QED
        BY <3>1, <3>2
    <2>2. CASE i = n + 1
      BY <2>2 DEF Inserted
    <2>3. CASE i > n + 1
      <3>1. i - 1 \in (n + 1) .. m /\ i - 1 \in 1 .. m /\ (i - 1) + 1 = i
        BY <2>3
      <3>2. p[(i - 1) + 1] = h[i - 1]
        BY <3>1 DEF Inserted
      <3>3. QED
        BY <3>1, <3>2
    <2>4. QED
      BY <2>1, <2>2, <2>3
  <1>2. ASSUME NEW k \in 1 .. m
        PROVE  \E i \in 1 .. (m + 1) : p[i] = h[k]
    <2>1. CASE k <= n
      <3>1. k \in 1 .. n /\ k \in 1 .. (m + 1)
        BY <2>1
      <3>2. p[k] = h[k]
        BY <3>1 DEF Inserted
      <3>3. QED
        BY <3>1, <3>2
    <2>2. CASE k > n
      <3>1. k \in (n + 1) .. m /\ k + 1 \in 1 .. (m + 1)
        BY <2>2
      <3>2. p[k + 1] = h[k]
        BY <3>1 DEF Inserted
      <3>3. QED
        BY <3>1, <3>2
    <2>3. QED
      BY <2>1, <2>2
  <1>3. n + 1 \in 1 .. (m + 1) /\ p[n + 1] = r
    BY DEF Inserted
  <1>4. QED
    BY <1>1, <1>2, <1>3 DEF Entries

\* It keeps the order if it is put behind what is not greater.
LEMMA InsertedSorted ==
    ASSUME NEW m \in Nat, NEW n \in 0 .. m, NEW p, NEW h, NEW r, Inserted(p, h, m, n, r),
           NEW T, T[r] \in Nat, \A i \in 1 .. m : T[h[i]] \in Nat,
           \A i \in 1 .. m : i <= n <=> T[h[i]] <= T[r],
           \A i, j \in 1 .. m : i <= j => T[h[i]] <= T[h[j]]
    PROVE  \A i, j \in 1 .. (m + 1) : i <= j => T[p[i]] <= T[p[j]]
  <1> SUFFICES ASSUME NEW i \in 1 .. (m + 1), NEW j \in 1 .. (m + 1), i <= j
               PROVE  T[p[i]] <= T[p[j]]
    OBVIOUS
  <1>1. \A k \in 1 .. n : k \in 1 .. m /\ p[k] = h[k]
    BY DEF Inserted
  <1>2. p[n + 1] = r
    BY DEF Inserted
  <1>3. ASSUME NEW k \in 1 .. (m + 1), k > n + 1
        PROVE  k - 1 \in 1 .. m /\ ~(k - 1 <= n) /\ p[k] = h[k - 1]
    <2>1. k - 1 \in (n + 1) .. m /\ (k - 1) + 1 = k /\ k - 1 \in 1 .. m /\ ~(k - 1 <= n)
      BY <1>3
    <2>2. p[(k - 1) + 1] = h[k - 1]
      BY <2>1 DEF Inserted
    <2>3. QED
      BY <2>1, <2>2
  <1>4. CASE j <= n
    <2>1. i \in 1 .. n /\ j \in 1 .. n
      BY <1>4
    <2>2. p[i] = h[i] /\ p[j] = h[j] /\ i \in 1 .. m /\ j \in 1 .. m
      BY <1>1, <2>1
    <2>3. QED
      BY <2>2
  <1>5. CASE j = n + 1 /\ i # n + 1
    <2>1. i \in 1 .. n
      BY <1>5
    <2>2. p[i] = h[i] /\ i \in 1 .. m /\ i <= n
      BY <1>1, <2>1
    <2>3. QED
      BY <1>2, <1>5, <2>2
  <1>6. CASE j = n + 1 /\ i = n + 1
    BY <1>2, <1>6
  <1>7. CASE j > n + 1
    <2>1. j - 1 \in 1 .. m /\ ~(j - 1 <= n) /\ p[j] = h[j - 1]
      BY <1>3, <1>7
    <2>2. T[h[j - 1]] > T[r]
      BY <2>1
    <2>3. CASE i \in 1 .. n
      <3>1. p[i] = h[i] /\ i \in 1 .. m /\ i <= j - 1
        BY <1>1, <1>7, <2>3
      <3>2. QED
        BY <2>1, <3>1
    <2>4. CASE i = n + 1
      BY <1>2, <2>1, <2>2, <2>4
    <2>5. CASE i > n + 1
      <3>1. i - 1 \in 1 .. m /\ p[i] = h[i - 1] /\ i - 1 <= j - 1
        BY <1>3, <2>5
      <3>2. QED
        BY <2>1, <3>1
    <2>6. QED
      BY <2>3, <2>4, <2>5
  <1>8. QED
    BY <1>4, <1>5, <1>6, <1>7

\* A row is put behind the rows that are not later.
LEMMA PushKeeps ==
    ASSUME NEW heap \in Seq(Rows), Sorted(heap), Time \in [Rows -> Nat], NEW r \in Rows
    PROVE  /\ Buffering!Push(heap, r) \in Seq(Rows)
           /\ Len(Buffering!Push(heap, r)) = Len(heap) + 1
           /\ Sorted(Buffering!Push(heap, r))
           /\ Buffering!RowsOf(Buffering!Push(heap, r)) = Buffering!RowsOf(heap) \cup {r}
  <1> DEFINE m == Len(heap)
             n == Buffering!HowMany(heap, Time[r])
             pushed == Buffering!Push(heap, r)
             first == Buffering!FirstOf(heap, n)
             rest == Buffering!Rest(heap, n)
  <1>1. Time[r] \in Nat /\ m \in Nat
    OBVIOUS
  <1>2. /\ n \in 0 .. m
        /\ \A i \in 1 .. m : i <= n <=> Time[heap[i]] <= Time[r]
    BY <1>1, HowManyIs
  <1>3. /\ first \in Seq(Rows) /\ Len(first) = n
        /\ \A i \in 1 .. n : first[i] = heap[i]
        /\ rest \in Seq(Rows) /\ Len(rest) = m - n
        /\ \A i \in 1 .. (m - n) : rest[i] = heap[n + i]
    <2> HIDE DEF n
    <2>1. QED
      BY <1>2, HeapParts
  <1>4. pushed = first \o <<r>> \o rest
    BY DEF Buffering!Push
  <1>5. /\ pushed \in Seq(Rows) /\ Len(pushed) = Len(first) + Len(rest) + 1
        /\ \A i \in 1 .. Len(first) : pushed[i] = first[i]
        /\ pushed[Len(first) + 1] = r
        /\ \A i \in 1 .. Len(rest) : pushed[Len(first) + 1 + i] = rest[i]
    <2> HIDE DEF n, first, rest, pushed
    <2>1. Spliced(first \o <<r>> \o rest, Rows, first, r, rest)
      BY <1>3, InsertedIs
    <2>2. Spliced(pushed, Rows, first, r, rest)
      BY <1>4, <2>1
    <2>3. QED
      BY <2>2 DEF Spliced
  <1>6. pushed \in Seq(Rows) /\ Len(pushed) = m + 1 /\ Inserted(pushed, heap, m, n, r)
    <2> HIDE DEF m, n, first, rest, pushed
    <2>1. Len(pushed) = m + 1
      BY <1>1, <1>2, <1>3, <1>5
    <2>2. ASSUME NEW i \in (n + 1) .. m
          PROVE  pushed[i + 1] = heap[i]
      <3>1. i - n \in 1 .. (m - n) /\ n + 1 + (i - n) = i + 1 /\ n + (i - n) = i
        BY <1>1, <1>2
      <3>2. rest[i - n] = heap[n + (i - n)] /\ i - n \in 1 .. Len(rest)
        BY <1>3, <3>1
      <3>3. pushed[Len(first) + 1 + (i - n)] = rest[i - n]
        BY <1>5, <3>2
      <3>4. QED
        BY <1>3, <3>1, <3>2, <3>3
    <2>3. \A i \in 1 .. n : pushed[i] = heap[i]
      BY <1>3, <1>5
    <2>4. QED
      BY <1>3, <1>5, <2>1, <2>2, <2>3 DEF Inserted
  <1>7. \A i \in 1 .. m : Time[heap[i]] \in Nat
    OBVIOUS
  <1>8. Sorted(pushed)
    <2>1. \A i, j \in 1 .. m : i <= j => Time[heap[i]] <= Time[heap[j]]
      BY DEF Sorted
    <2>2. \A i, j \in 1 .. (m + 1) : i <= j => Time[pushed[i]] <= Time[pushed[j]]
      <3> HIDE DEF m, n, pushed
      <3>1. QED
        BY <1>1, <1>2, <1>6, <1>7, <2>1, InsertedSorted
    <2>3. QED
      <3> HIDE DEF m, pushed
      <3>1. QED
        BY <1>6, <2>2 DEF Sorted
  <1>9. Buffering!RowsOf(pushed) = Buffering!RowsOf(heap) \cup {r}
    <2>1. Entries(pushed, m + 1) = Entries(heap, m) \cup {r}
      <3> HIDE DEF m, n, pushed
      <3>1. QED
        BY <1>1, <1>2, <1>6, InsertedRows
    <2>2. Buffering!RowsOf(heap) = Entries(heap, m)
      BY DEF Buffering!RowsOf, Entries
    <2>3. Buffering!RowsOf(pushed) = Entries(pushed, m + 1)
      <3> HIDE DEF m, pushed
      <3>1. DOMAIN pushed = 1 .. (m + 1)
        BY <1>6
      <3>2. QED
        BY <3>1 DEF Buffering!RowsOf, Entries
    <2>4. QED
      BY <2>1, <2>2, <2>3
  <1>10. QED
    BY <1>6, <1>8, <1>9

\* The recursion of requeue has a value for every row that is put back.
LEMMA RequeuedIs ==
    ASSUME ready \in Seq(Rows)
    PROVE  Buffering!Requeued =
             [n \in 0 .. Len(ready) |->
               IF n = 0 THEN buffer ELSE Buffering!Push(Buffering!Requeued[n - 1], ready[n])]
  <1> DEFINE Fits(f, m) ==
               f = [n \in 0 .. m |->
                      IF n = 0 THEN buffer ELSE Buffering!Push(f[n - 1], ready[n])]
             S == {m \in Nat : \E f : Fits(f, m)}
  <1>1. 0 \in S
    <2> DEFINE f == [n \in 0 .. 0 |-> buffer]
    <2>1. Fits(f, 0)
      OBVIOUS
    <2>2. QED
      BY <2>1
  <1>2. ASSUME NEW m \in Nat, m \in S
        PROVE  m + 1 \in S
    <2>1. PICK f : Fits(f, m)
      BY <1>2
    <2> DEFINE g == [n \in 0 .. (m + 1) |->
                       IF n <= m THEN f[n] ELSE Buffering!Push(f[m], ready[m + 1])]
    <2>2. \A n \in 0 .. m : g[n] = f[n]
      OBVIOUS
    <2>3. g[m + 1] = Buffering!Push(f[m], ready[m + 1])
      OBVIOUS
    <2>4. ASSUME NEW n \in 0 .. (m + 1)
          PROVE  g[n] = IF n = 0 THEN buffer ELSE Buffering!Push(g[n - 1], ready[n])
      <3>1. CASE n = m + 1
        BY <2>2, <2>3, <3>1
      <3>2. CASE n <= m
        <4>1. f[n] = IF n = 0 THEN buffer ELSE Buffering!Push(f[n - 1], ready[n])
          BY <2>1, <3>2
        <4>2. n # 0 => n - 1 \in 0 .. m
          BY <3>2
        <4>3. QED
          BY <2>2, <3>2, <4>1, <4>2
      <3>3. QED
        BY <3>1, <3>2
    <2>5. Fits(g, m + 1)
      <3>1. g = [n \in 0 .. (m + 1) |-> g[n]]
        OBVIOUS
      <3>2. QED
        BY <2>4, <3>1
    <2>6. \E h : Fits(h, m + 1)
      <3> HIDE DEF Fits, g
      <3>1. QED
        BY <2>5
    <2>7. QED
      <3> HIDE DEF Fits
      <3>1. QED
        BY <1>2, <2>6
  <1>3. Nat \subseteq S
    <2> HIDE DEF S
    <2>1. QED
      BY <1>1, <1>2, NatBySet
  <1>4. \E f : Fits(f, Len(ready))
    BY <1>3
  <1>5. Buffering!Requeued = CHOOSE f : Fits(f, Len(ready))
    BY DEF Buffering!Requeued
  <1>6. Fits(Buffering!Requeued, Len(ready))
    <2> HIDE DEF Fits
    <2>1. QED
      BY <1>4, <1>5, Zenon
  <1>7. QED
    BY <1>6

\* The heap falls into what is due and the rest, none of which is earlier.
LEMMA SplitKeeps ==
    ASSUME NEW heap \in Seq(Rows), Sorted(heap), Time \in [Rows -> Nat], NEW n \in 0 .. Len(heap)
    PROVE  /\ Buffering!FirstOf(heap, n) \in Seq(Rows) /\ Sorted(Buffering!FirstOf(heap, n))
           /\ Buffering!Rest(heap, n) \in Seq(Rows) /\ Sorted(Buffering!Rest(heap, n))
           /\ Len(Buffering!FirstOf(heap, n)) = n
           /\ Len(Buffering!Rest(heap, n)) = Len(heap) - n
           /\ Buffering!RowsOf(Buffering!FirstOf(heap, n)) = Entries(heap, n)
           /\ Buffering!RowsOf(heap) = Entries(heap, n) \cup Buffering!RowsOf(Buffering!Rest(heap, n))
           /\ \A x \in Entries(heap, n), y \in Buffering!RowsOf(Buffering!Rest(heap, n)) :
                Time[x] <= Time[y]
  <1> DEFINE first == Buffering!FirstOf(heap, n)
             rest == Buffering!Rest(heap, n)
             m == Len(heap)
  <1>1. /\ first \in Seq(Rows) /\ Len(first) = n /\ \A i \in 1 .. n : first[i] = heap[i]
        /\ rest \in Seq(Rows) /\ Len(rest) = m - n
        /\ \A i \in 1 .. (m - n) : rest[i] = heap[n + i]
    BY HeapParts
  <1>2. m \in Nat /\ n \in 0 .. m
    OBVIOUS
  <1>3. \A i, j \in 1 .. m : i <= j => Time[heap[i]] <= Time[heap[j]]
    BY DEF Sorted
  <1>4. DOMAIN first = 1 .. n /\ DOMAIN rest = 1 .. (m - n) /\ DOMAIN heap = 1 .. m
    <2> HIDE DEF first, rest
    <2>1. QED
      BY <1>1
  <1> HIDE DEF first, rest, m
  <1>5. Sorted(first)
    <2>1. \A i \in 1 .. n : i \in 1 .. m
      BY <1>2
    <2>2. QED
      BY <1>1, <1>3, <2>1 DEF Sorted
  <1>6. Sorted(rest)
    <2>1. \A i \in 1 .. (m - n) : n + i \in 1 .. m
      BY <1>2
    <2>2. \A i, j \in 1 .. (m - n) : i <= j => n + i <= n + j
      BY <1>2
    <2>3. ASSUME NEW i \in 1 .. (m - n), NEW j \in 1 .. (m - n), i <= j
          PROVE  Time[rest[i]] <= Time[rest[j]]
      <3>1. rest[i] = heap[n + i] /\ rest[j] = heap[n + j]
        BY <1>1
      <3>2. Time[heap[n + i]] <= Time[heap[n + j]]
        BY <1>3, <2>1, <2>2, <2>3
      <3>3. QED
        BY <3>1, <3>2
    <2>4. Len(rest) = m - n
      BY <1>1
    <2>5. QED
      BY <2>3, <2>4 DEF Sorted
  <1>7. Buffering!RowsOf(first) = Entries(heap, n)
    BY <1>1, <1>4 DEF Buffering!RowsOf, Entries
  <1>8. ASSUME NEW y \in Buffering!RowsOf(rest)
        PROVE  \E j \in (n + 1) .. m : y = heap[j]
    <2>1. PICK i \in 1 .. (m - n) : y = rest[i]
      BY <1>4 DEF Buffering!RowsOf
    <2>2. n + i \in (n + 1) .. m /\ y = heap[n + i]
      BY <1>1, <1>2, <2>1
    <2>3. QED
      BY <2>2
  <1>9. ASSUME NEW i \in 1 .. m
        PROVE  heap[i] \in Entries(heap, n) \cup Buffering!RowsOf(rest)
    <2>1. CASE i <= n
      <3>1. i \in 1 .. n
        BY <2>1
      <3>2. QED
        BY <3>1 DEF Entries
    <2>2. CASE i > n
      <3>1. i - n \in 1 .. (m - n) /\ n + (i - n) = i
        BY <1>2, <2>2
      <3>2. rest[i - n] = heap[i]
        BY <1>1, <3>1
      <3>3. QED
        BY <1>4, <3>1, <3>2 DEF Buffering!RowsOf
    <2>3. QED
      BY <1>2, <2>1, <2>2
  <1>10. Buffering!RowsOf(heap) = Entries(heap, n) \cup Buffering!RowsOf(rest)
    <2>1. Buffering!RowsOf(heap) \subseteq Entries(heap, n) \cup Buffering!RowsOf(rest)
      BY <1>4, <1>9 DEF Buffering!RowsOf
    <2>2. Entries(heap, n) \subseteq Buffering!RowsOf(heap)
      <3>1. \A i \in 1 .. n : i \in 1 .. m
        BY <1>2
      <3>2. QED
        BY <1>4, <3>1 DEF Entries, Buffering!RowsOf
    <2>3. Buffering!RowsOf(rest) \subseteq Buffering!RowsOf(heap)
      <3>1. \A j \in (n + 1) .. m : j \in 1 .. m
        BY <1>2
      <3>2. \A j \in 1 .. m : heap[j] \in Buffering!RowsOf(heap)
        BY <1>4 DEF Buffering!RowsOf
      <3>3. QED
        BY <1>8, <3>1, <3>2
    <2>4. QED
      BY <2>1, <2>2, <2>3
  <1>11. ASSUME NEW x \in Entries(heap, n), NEW y \in Buffering!RowsOf(rest)
         PROVE  Time[x] <= Time[y]
    <2>1. PICK i \in 1 .. n : x = heap[i]
      BY DEF Entries
    <2>2. PICK j \in (n + 1) .. m : y = heap[j]
      BY <1>8
    <2>3. i \in 1 .. m /\ j \in 1 .. m /\ i <= j
      BY <1>2
    <2>4. QED
      BY <1>3, <2>1, <2>2, <2>3
  <1>12. QED
    BY <1>1, <1>5, <1>6, <1>7, <1>10, <1>11 DEF first, rest, m

\* What is put back is in the heap, in order.
LEMMA RequeuedKeeps ==
    ASSUME buffer \in Seq(Rows), ready \in Seq(Rows), Sorted(buffer), Time \in [Rows -> Nat]
    PROVE  LET heap == Buffering!Requeued[Len(ready)]
           IN  /\ heap \in Seq(Rows) /\ Sorted(heap)
               /\ Len(heap) = Len(buffer) + Len(ready)
               /\ Buffering!RowsOf(heap) = Buffering!RowsOf(buffer) \cup Buffering!RowsOf(ready)
  <1> DEFINE Q == Buffering!Requeued
             m == Len(ready)
             Good(n) ==
               /\ Q[n] \in Seq(Rows) /\ Sorted(Q[n]) /\ Len(Q[n]) = Len(buffer) + n
               /\ Buffering!RowsOf(Q[n]) = Buffering!RowsOf(buffer) \cup Entries(ready, n)
             S == {n \in Nat : n <= m => Good(n)}
  <1>1. m \in Nat /\ Len(buffer) \in Nat
    OBVIOUS
  <1>2. \A n \in 0 .. m :
          Q[n] = IF n = 0 THEN buffer ELSE Buffering!Push(Q[n - 1], ready[n])
    <2> DEFINE step[n \in 0 .. m] ==
                 IF n = 0 THEN buffer ELSE Buffering!Push(Q[n - 1], ready[n])
    <2>1. Q = [n \in 0 .. m |-> IF n = 0 THEN buffer ELSE Buffering!Push(Q[n - 1], ready[n])]
      BY RequeuedIs
    <2>2. QED
      <3> HIDE DEF Q
      <3>1. QED
        BY <2>1
  <1> HIDE DEF Q, m
  <1>3. Good(0)
    <2>1. Q[0] = buffer
      BY <1>1, <1>2
    <2>2. Entries(ready, 0) = {}
      BY DEF Entries
    <2>3. QED
      BY <1>1, <2>1, <2>2
  <1>4. ASSUME NEW n \in Nat, n + 1 <= m, Good(n)
        PROVE  Good(n + 1)
    <2>1. n + 1 \in 1 .. m
      BY <1>4
    <2>2. ready[n + 1] \in Rows
      BY <2>1 DEF m
    <2>3. Q[n + 1] = Buffering!Push(Q[n], ready[n + 1])
      <3>1. n + 1 \in 0 .. m /\ n + 1 # 0 /\ (n + 1) - 1 = n
        BY <1>1, <2>1
      <3>2. Q[n + 1] = IF n + 1 = 0 THEN buffer
                       ELSE Buffering!Push(Q[(n + 1) - 1], ready[n + 1])
        BY <1>2, <3>1
      <3>3. QED
        BY <3>1, <3>2
    <2>4. /\ Q[n + 1] \in Seq(Rows) /\ Len(Q[n + 1]) = Len(Q[n]) + 1 /\ Sorted(Q[n + 1])
          /\ Buffering!RowsOf(Q[n + 1]) = Buffering!RowsOf(Q[n]) \cup {ready[n + 1]}
      BY <1>4, <2>2, <2>3, PushKeeps
    <2>5. Entries(ready, n + 1) = Entries(ready, n) \cup {ready[n + 1]}
      <3>1. \A i \in 1 .. (n + 1) : i \in 1 .. n \/ i = n + 1
        OBVIOUS
      <3>2. \A i \in 1 .. n : i \in 1 .. (n + 1)
        OBVIOUS
      <3>3. n + 1 \in 1 .. (n + 1)
        OBVIOUS
      <3>4. QED
        BY <3>1, <3>2, <3>3 DEF Entries
    <2>6. Len(Q[n + 1]) = Len(buffer) + (n + 1)
      BY <1>1, <1>4, <2>4
    <2>7. QED
      BY <1>4, <2>4, <2>5, <2>6
  <1>5. 0 \in S
    BY <1>3
  <1>6. ASSUME NEW n \in Nat, n \in S
        PROVE  n + 1 \in S
    <2>1. n + 1 <= m => n <= m
      BY <1>1
    <2>2. n + 1 <= m => Good(n + 1)
      <3> HIDE DEF Good
      <3>1. QED
        BY <1>4, <1>6, <2>1
    <2>3. QED
      <3> HIDE DEF Good
      <3>1. QED
        BY <2>2
  <1>7. m \in S
    <2> HIDE DEF S
    <2>1. QED
      BY <1>1, <1>5, <1>6, NatBySet
  <1>8. Good(m)
    <2> HIDE DEF Good
    <2>1. QED
      BY <1>1, <1>7
  <1>9. Entries(ready, m) = Buffering!RowsOf(ready)
    <2>1. DOMAIN ready = 1 .. Len(ready)
      OBVIOUS
    <2>2. QED
      BY <2>1 DEF Entries, Buffering!RowsOf, m
  <1>10. QED
    BY <1>8, <1>9 DEF Q, m

\* The newest time is not before any.
LEMMA NewestIs ==
    ASSUME NEW t \in Nat, NEW list \in Seq(Rows), Time \in [Rows -> Nat]
    PROVE  /\ Buffering!Newest(t, list) \in Nat
           /\ t <= Buffering!Newest(t, list)
           /\ \A x \in Buffering!RowsOf(list) : Time[x] <= Buffering!Newest(t, list)
  <1> DEFINE L == Len(list)
             times(n) == {t} \cup {Time[r] : r \in Entries(list, n)}
             Highest(n, k) == k \in times(n) /\ \A j \in times(n) : j <= k
             S == {n \in Nat : n <= L => \E k : Highest(n, k)}
  <1>1. L \in Nat
    OBVIOUS
  <1>2. \A n \in 0 .. L : \A i \in 1 .. n : list[i] \in Rows /\ Time[list[i]] \in Nat
    OBVIOUS
  <1>3. \A n \in 0 .. L : times(n) \subseteq Nat
    BY <1>2 DEF Entries
  <1>4. 0 \in S
    <2>1. times(0) = {t}
      BY DEF Entries
    <2>2. Highest(0, t)
      <3> HIDE DEF times
      <3>1. QED
        BY <2>1
    <2>3. QED
      BY <2>2
  <1> HIDE DEF L
  <1>5. ASSUME NEW n \in Nat, n \in S
        PROVE  n + 1 \in S
    <2>1. SUFFICES ASSUME n + 1 <= L
                   PROVE  \E k : Highest(n + 1, k)
      OBVIOUS
    <2>2. n <= L /\ n \in 0 .. L /\ n + 1 \in 0 .. L
      BY <1>1, <2>1
    <2>3. PICK k : Highest(n, k)
      <3> HIDE DEF Highest
      <3>1. QED
        BY <1>5, <2>2
    <2>4. times(n + 1) = times(n) \cup {Time[list[n + 1]]}
      <3>1. \A i \in 1 .. (n + 1) : i \in 1 .. n \/ i = n + 1
        OBVIOUS
      <3>2. \A i \in 1 .. n : i \in 1 .. (n + 1)
        OBVIOUS
      <3>3. n + 1 \in 1 .. (n + 1)
        OBVIOUS
      <3>4. Entries(list, n + 1) = Entries(list, n) \cup {list[n + 1]}
        BY <3>1, <3>2, <3>3 DEF Entries
      <3>5. QED
        BY <3>4
    <2>5. Time[list[n + 1]] \in Nat /\ k \in Nat
      <3>1. n + 1 \in 1 .. (n + 1)
        OBVIOUS
      <3>2. Time[list[n + 1]] \in Nat
        BY <1>2, <2>2, <3>1
      <3>3. k \in Nat
        BY <1>3, <2>2, <2>3
      <3>4. QED
        BY <3>2, <3>3
    <2>6. \A j \in times(n) : j \in Nat
      BY <1>3, <2>2
    <2>7. CASE Time[list[n + 1]] <= k
      <3>1. Highest(n + 1, k)
        <4> HIDE DEF times
        <4>1. QED
          BY <2>3, <2>4, <2>7
      <3>2. QED
        BY <3>1
    <2>8. CASE k <= Time[list[n + 1]]
      <3>1. Highest(n + 1, Time[list[n + 1]])
        <4> HIDE DEF times
        <4>1. QED
          BY <2>3, <2>4, <2>5, <2>6, <2>8
      <3>2. QED
        BY <3>1
    <2>9. QED
      BY <2>5, <2>7, <2>8
  <1>6. L \in S
    <2> HIDE DEF S
    <2>1. QED
      BY <1>1, <1>4, <1>5, NatBySet
  <1>7. \E k : Highest(L, k)
    <2> HIDE DEF Highest
    <2>1. QED
      BY <1>1, <1>6
  <1>8. Entries(list, L) = Buffering!RowsOf(list)
    BY DEF Entries, Buffering!RowsOf, L
  <1>9. Buffering!Newest(t, list) =
          CHOOSE k \in times(L) : \A j \in times(L) : j <= k
    BY <1>8 DEF Buffering!Newest
  <1>10. Highest(L, Buffering!Newest(t, list))
    <2> HIDE DEF times
    <2>1. QED
      BY <1>7, <1>9
  <1>11. L \in 0 .. L
    BY <1>1
  <1>12. t \in times(L) /\ \A x \in Buffering!RowsOf(list) : Time[x] \in times(L)
    BY <1>8
  <1>13. QED
    <2> HIDE DEF times
    <2>1. QED
      BY <1>3, <1>10, <1>11, <1>12

(***************************************************************************)
(* The buffer of a session.                                                *)
(***************************************************************************)

\* Every row the operation has in hand will fit into the buffer.
Roomy == Len(buffer) + Len(ready) + Len(todo) <= MaxBuffered

Readiness ==
    /\ bufferPc \in {"idle", "next"} => ready = <<>>
    /\ bufferPc = "mark" => ready # <<>>

\* What is being appended is not later than what is held back.
InOrder ==
    /\ Sorted(buffer) /\ Sorted(ready)
    /\ \A x \in Buffering!RowsOf(ready), y \in Buffering!RowsOf(buffer) : Time[x] <= Time[y]

\* A row that will be appended behind a later one came late.
Behind ==
    \A x \in Buffering!InMemory : \A i \in 1 .. Len(log) :
        Time[log[i]] > Time[x] => x \in late

Seen == \A x \in Buffering!RowsOf(buffer) : Time[x] <= latest

\* What is being appended has been held for the window, or was flushed.
Waited == \A x \in Buffering!RowsOf(ready) : Time[x] <= early \/ Time[x] + Window <= latest

BufferInv ==
    /\ Buffering!TypeOK /\ Roomy /\ Readiness /\ InOrder /\ Behind /\ Seen /\ Waited
    /\ Buffering!PendingHeld /\ Buffering!InTimeOrder /\ Buffering!HeldForWindow

LEMMA TimeIs ==
    /\ Time \in [Rows -> Nat] /\ Window \in Nat /\ MaxBuffered \in Nat /\ MaxBatch \in Nat
    /\ MaxFaults \in Nat
  BY PartsAssumption DEF PartsAssumption, Buffering!TimeAssumption, Buffering!BoundsAssumption

LEMMA BufferTypes ==
    ASSUME BufferInv
    PROVE  /\ raw \in [Rows -> {"absent", "pending", "done"}]
           /\ log \in Seq(Rows) /\ buffer \in Seq(Rows) /\ ready \in Seq(Rows)
           /\ todo \in Seq(Rows)
           /\ latest \in Nat /\ early \in Nat /\ flushing \in BOOLEAN
           /\ bufferPc \in {"idle", "next", "append", "mark"}
           /\ faults \in 0 .. MaxFaults /\ stranded \subseteq Rows /\ late \subseteq Rows
  BY DEF BufferInv, Buffering!TypeOK

LEMMA RowsAre ==
    ASSUME NEW list \in Seq(Rows)
    PROVE  /\ Buffering!RowsOf(list) \subseteq Rows
           /\ \A i \in 1 .. Len(list) : list[i] \in Buffering!RowsOf(list)
           /\ \A x \in Buffering!RowsOf(list) : \E i \in 1 .. Len(list) : x = list[i]
  <1>1. DOMAIN list = 1 .. Len(list) /\ \A i \in 1 .. Len(list) : list[i] \in Rows
    OBVIOUS
  <1>2. QED
    BY <1>1 DEF Buffering!RowsOf

LEMMA NoRows == Buffering!RowsOf(<<>>) = {} /\ Sorted(<<>>)
  <1>1. DOMAIN <<>> = {} /\ Len(<<>>) = 0
    OBVIOUS
  <1>2. QED
    BY <1>1 DEF Buffering!RowsOf, Sorted

\* The first row and the others.
LEMMA HeadAndTail ==
    ASSUME NEW list \in Seq(Rows), list # <<>>, Sorted(list), Time \in [Rows -> Nat]
    PROVE  /\ Head(list) \in Rows /\ Tail(list) \in Seq(Rows)
           /\ Len(Tail(list)) = Len(list) - 1
           /\ Sorted(Tail(list))
           /\ Buffering!RowsOf(list) = {Head(list)} \cup Buffering!RowsOf(Tail(list))
           /\ \A x \in Buffering!RowsOf(list) : Time[Head(list)] <= Time[x]
  <1> DEFINE rest == Tail(list)
             m == Len(list)
  <1>1. m \in Nat \ {0}
    OBVIOUS
  <1>2. /\ Head(list) = list[1] /\ Head(list) \in Rows
        /\ rest \in Seq(Rows) /\ Len(rest) = m - 1
        /\ \A i \in 1 .. (m - 1) : rest[i] = list[i + 1]
    OBVIOUS
  <1>3. \A i, j \in 1 .. m : i <= j => Time[list[i]] <= Time[list[j]]
    BY DEF Sorted
  <1>4. DOMAIN list = 1 .. m /\ DOMAIN rest = 1 .. (m - 1)
    <2> HIDE DEF rest
    <2>1. QED
      BY <1>2
  <1> HIDE DEF rest, m
  <1>5. Sorted(rest)
    <2>1. ASSUME NEW i \in 1 .. (m - 1), NEW j \in 1 .. (m - 1), i <= j
          PROVE  Time[rest[i]] <= Time[rest[j]]
      <3>1. rest[i] = list[i + 1] /\ rest[j] = list[j + 1]
        BY <1>2
      <3>2. i + 1 \in 1 .. m /\ j + 1 \in 1 .. m /\ i + 1 <= j + 1
        BY <1>1, <2>1
      <3>3. QED
        BY <1>3, <3>1, <3>2
    <2>2. QED
      BY <1>2, <2>1 DEF Sorted
  <1>6. ASSUME NEW x \in Buffering!RowsOf(list)
        PROVE  Time[Head(list)] <= Time[x]
    <2>1. PICK i \in 1 .. m : x = list[i]
      BY <1>4 DEF Buffering!RowsOf
    <2>2. 1 \in 1 .. m /\ 1 <= i
      BY <1>1
    <2>3. QED
      BY <1>2, <1>3, <2>1, <2>2
  <1>7. Buffering!RowsOf(list) = {Head(list)} \cup Buffering!RowsOf(rest)
    <2>1. ASSUME NEW i \in 1 .. m
          PROVE  list[i] \in {Head(list)} \cup Buffering!RowsOf(rest)
      <3>1. CASE i = 1
        BY <1>2, <3>1
      <3>2. CASE i # 1
        <4>1. i - 1 \in 1 .. (m - 1) /\ (i - 1) + 1 = i
          BY <1>1, <3>2
        <4>2. rest[i - 1] = list[(i - 1) + 1]
          BY <1>2, <4>1
        <4>3. QED
          BY <1>4, <4>1, <4>2 DEF Buffering!RowsOf
      <3>3. QED
        BY <3>1, <3>2
    <2>2. ASSUME NEW i \in 1 .. (m - 1)
          PROVE  rest[i] \in Buffering!RowsOf(list)
      <3>1. rest[i] = list[i + 1] /\ i + 1 \in 1 .. m
        BY <1>1, <1>2
      <3>2. QED
        BY <1>4, <3>1 DEF Buffering!RowsOf
    <2>3. Head(list) \in Buffering!RowsOf(list)
      <3>1. 1 \in 1 .. m
        BY <1>1
      <3>2. QED
        BY <1>2, <1>4, <3>1 DEF Buffering!RowsOf
    <2>4. Buffering!RowsOf(rest) \subseteq Buffering!RowsOf(list)
      BY <1>4, <2>2 DEF Buffering!RowsOf
    <2>5. Buffering!RowsOf(list) \subseteq {Head(list)} \cup Buffering!RowsOf(rest)
      BY <1>4, <2>1 DEF Buffering!RowsOf
    <2>6. QED
      BY <2>3, <2>4, <2>5
  <1>8. QED
    BY <1>2, <1>5, <1>6, <1>7 DEF rest, m

\* The log with the row that is being appended, or without it.
LEMMA LogGrows ==
    ASSUME BufferInv, ready # <<>>, NEW wal,
           wal \in {log, Buffering!Logged(Head(ready))}
    PROVE  /\ wal \in Seq(Rows)
           /\ \A i, j \in 1 .. Len(wal) :
                i < j /\ Time[wal[i]] > Time[wal[j]] => wal[j] \in late
           /\ \A i \in 1 .. Len(wal) :
                Time[wal[i]] <= early \/ Time[wal[i]] + Window <= latest
           /\ \A x \in Buffering!InMemory : \A i \in 1 .. Len(wal) :
                Time[wal[i]] > Time[x] => x \in late
  <1> DEFINE h == Head(ready)
             m == Len(log)
  <1>1. /\ log \in Seq(Rows) /\ buffer \in Seq(Rows) /\ ready \in Seq(Rows)
        /\ Time \in [Rows -> Nat]
    BY BufferTypes, TimeIs
  <1>2. /\ Behind /\ Waited /\ InOrder /\ Buffering!InTimeOrder /\ Buffering!HeldForWindow
    BY DEF BufferInv
  <1>3. /\ h \in Rows /\ h \in Buffering!RowsOf(ready)
        /\ \A x \in Buffering!RowsOf(ready) : Time[h] <= Time[x]
    BY <1>1, <1>2, HeadAndTail DEF InOrder
  <1>4. \A x \in Buffering!InMemory : Time[h] <= Time[x] /\ x \in Rows
    <2>1. \A x \in Buffering!RowsOf(buffer) : Time[h] <= Time[x]
      BY <1>2, <1>3 DEF InOrder
    <2>2. Buffering!RowsOf(buffer) \subseteq Rows /\ Buffering!RowsOf(ready) \subseteq Rows
      BY <1>1, RowsAre
    <2>3. QED
      BY <1>3, <2>1, <2>2 DEF Buffering!InMemory
  <1>5. h \in Buffering!InMemory
    BY <1>3 DEF Buffering!InMemory
  <1>6. CASE wal = log
    BY <1>1, <1>2, <1>6 DEF Buffering!InTimeOrder, Buffering!HeldForWindow, Behind
  <1>7. CASE wal = Append(log, h)
    <2>1. /\ wal \in Seq(Rows) /\ Len(wal) = m + 1 /\ m \in Nat
          /\ \A i \in 1 .. m : wal[i] = log[i]
          /\ wal[m + 1] = h
      <3> HIDE DEF h
      <3>1. QED
        BY <1>1, <1>3, <1>7
    <2> HIDE DEF h, m
    <2>2. \A i \in 1 .. (m + 1) : i \in 1 .. m \/ i = m + 1
      BY <2>1
    <2>3. ASSUME NEW i \in 1 .. (m + 1), NEW j \in 1 .. (m + 1), i < j,
                 Time[wal[i]] > Time[wal[j]]
          PROVE  wal[j] \in late
      <3>1. i \in 1 .. m
        BY <2>1, <2>3
      <3>2. CASE j \in 1 .. m
        BY <1>2, <2>1, <2>3, <3>1, <3>2 DEF Buffering!InTimeOrder, m
      <3>3. CASE j = m + 1
        <4>1. wal[i] = log[i] /\ wal[j] = h
          BY <2>1, <3>1, <3>3
        <4>2. QED
          BY <1>2, <1>5, <2>3, <3>1, <4>1 DEF Behind, m
      <3>4. QED
        BY <2>2, <3>2, <3>3
    <2>4. ASSUME NEW i \in 1 .. (m + 1)
          PROVE  Time[wal[i]] <= early \/ Time[wal[i]] + Window <= latest
      <3>1. CASE i \in 1 .. m
        BY <1>2, <2>1, <3>1 DEF Buffering!HeldForWindow, m
      <3>2. CASE i = m + 1
        BY <1>2, <1>3, <2>1, <3>2 DEF Waited
      <3>3. QED
        BY <2>2, <3>1, <3>2
    <2>5. ASSUME NEW x \in Buffering!InMemory, NEW i \in 1 .. (m + 1),
                 Time[wal[i]] > Time[x]
          PROVE  x \in late
      <3>1. CASE i \in 1 .. m
        BY <1>2, <2>1, <2>5, <3>1 DEF Behind, m
      <3>2. CASE i = m + 1
        <4>1. Time[h] > Time[x] /\ Time[h] <= Time[x]
          BY <1>4, <2>1, <2>5, <3>2
        <4>2. Time[h] \in Nat /\ Time[x] \in Nat
          BY <1>1, <1>3, <1>4
        <4>3. QED
          BY <4>1, <4>2
      <3>3. QED
        BY <2>2, <3>1, <3>2
    <2>6. QED
      BY <2>1, <2>3, <2>4, <2>5
  <1>8. QED
    BY <1>6, <1>7 DEF Buffering!Logged

\* What is due leaves the heap; it is a window older than the newest.
LEMMA AddDoes ==
    ASSUME BufferInv, NEW r \in Rows, Buffering!Add(r)
    PROVE  /\ ready' \in Seq(Rows) /\ Sorted(ready') /\ buffer' \in Seq(Rows) /\ Sorted(buffer')
           /\ Len(ready') + Len(buffer') = Len(buffer) + 1
           /\ Buffering!RowsOf(ready') \cup Buffering!RowsOf(buffer') =
                Buffering!RowsOf(buffer) \cup {r}
           /\ \A x \in Buffering!RowsOf(ready'), y \in Buffering!RowsOf(buffer') :
                Time[x] <= Time[y]
           /\ latest' \in Nat /\ latest <= latest' /\ Time[r] <= latest'
           /\ \A x \in Buffering!RowsOf(ready') : Time[x] + Window <= latest'
  <1> DEFINE heap == Buffering!Push(buffer, r)
             newest == Buffering!Later(latest, Time[r])
             n == IF newest < Window THEN 0 ELSE Buffering!HowMany(heap, newest - Window)
  <1>1. /\ buffer \in Seq(Rows) /\ Sorted(buffer) /\ Time \in [Rows -> Nat] /\ Window \in Nat
        /\ latest \in Nat
    BY BufferTypes, TimeIs DEF BufferInv, InOrder
  <1>2. /\ heap \in Seq(Rows) /\ Len(heap) = Len(buffer) + 1 /\ Sorted(heap)
        /\ Buffering!RowsOf(heap) = Buffering!RowsOf(buffer) \cup {r}
    BY <1>1, PushKeeps
  <1>3. newest \in Nat /\ latest <= newest /\ Time[r] <= newest
    <2>1. Time[r] \in Nat
      BY <1>1
    <2>2. QED
      BY <1>1, <2>1 DEF Buffering!Later
  <1>4. latest' = newest
    BY DEF Buffering!Add
  <1>5. Buffering!Due(heap, newest) = Buffering!FirstOf(heap, n)
    BY DEF Buffering!Due
  <1> HIDE DEF heap, newest
  <1>6. n \in 0 .. Len(heap) /\ \A x \in Entries(heap, n) : Time[x] + Window <= newest
    <2>1. CASE newest < Window
      <3>1. n = 0 /\ Len(heap) \in Nat
        BY <1>2, <2>1
      <3>2. Entries(heap, 0) = {}
        BY DEF Entries
      <3>3. QED
        BY <3>1, <3>2
    <2>2. CASE ~(newest < Window)
      <3>1. newest - Window \in Nat
        BY <1>1, <1>3, <2>2
      <3>2. n = Buffering!HowMany(heap, newest - Window)
        BY <2>2
      <3>3. /\ n \in 0 .. Len(heap)
            /\ \A i \in 1 .. Len(heap) : i <= n <=> Time[heap[i]] <= newest - Window
        BY <1>1, <1>2, <3>1, <3>2, HowManyIs
      <3>4. \A i \in 1 .. Len(heap) : heap[i] \in Rows
        BY <1>2
      <3>5. ASSUME NEW i \in 1 .. n
            PROVE  Time[heap[i]] + Window <= newest
        <4> HIDE DEF n
        <4>1. i \in 1 .. Len(heap) /\ i <= n
          BY <3>3, <1>2
        <4>2. Time[heap[i]] <= newest - Window
          BY <3>3, <4>1
        <4>3. Time[heap[i]] \in Nat
          BY <1>1, <3>4, <4>1
        <4>4. QED
          BY <1>1, <1>3, <4>2, <4>3
      <3>6. QED
        BY <3>3, <3>5 DEF Entries
    <2>3. QED
      BY <2>1, <2>2
  <1> HIDE DEF n
  <1>7. /\ ready' = Buffering!FirstOf(heap, n)
        /\ buffer' = Buffering!Rest(heap, Len(Buffering!FirstOf(heap, n)))
    BY <1>5 DEF Buffering!Add, heap, newest
  <1>8. /\ Buffering!FirstOf(heap, n) \in Seq(Rows) /\ Sorted(Buffering!FirstOf(heap, n))
        /\ Buffering!Rest(heap, n) \in Seq(Rows) /\ Sorted(Buffering!Rest(heap, n))
        /\ Len(Buffering!FirstOf(heap, n)) = n
        /\ Len(Buffering!Rest(heap, n)) = Len(heap) - n
        /\ Buffering!RowsOf(Buffering!FirstOf(heap, n)) = Entries(heap, n)
        /\ Buffering!RowsOf(heap) =
             Entries(heap, n) \cup Buffering!RowsOf(Buffering!Rest(heap, n))
        /\ \A x \in Entries(heap, n), y \in Buffering!RowsOf(Buffering!Rest(heap, n)) :
             Time[x] <= Time[y]
    BY <1>1, <1>2, <1>6, SplitKeeps
  <1>9. buffer' = Buffering!Rest(heap, n)
    BY <1>7, <1>8
  <1>10. Len(ready') + Len(buffer') = Len(buffer) + 1
    <2>1. Len(ready') = n /\ Len(buffer') = Len(heap) - n
      BY <1>7, <1>8, <1>9
    <2>2. Len(heap) = Len(buffer) + 1 /\ Len(buffer) \in Nat /\ n \in Nat
      BY <1>1, <1>2, <1>6
    <2>3. QED
      BY <2>1, <2>2
  <1>11. QED
    BY <1>2, <1>3, <1>4, <1>6, <1>7, <1>8, <1>9, <1>10

\* The parts of the invariant that read nothing but what an operation leaves alone.
LEMMA BufferStands ==
    ASSUME BufferInv, UNCHANGED <<raw, log, buffer, latest, ready, faults, stranded, late, early>>,
           bufferPc' \in {"idle", "next", "append", "mark"}, todo' \in Seq(Rows),
           flushing' \in BOOLEAN, Roomy', Readiness'
    PROVE  BufferInv'
  <1>1. /\ Buffering!RowsOf(buffer)' = Buffering!RowsOf(buffer)
        /\ Buffering!RowsOf(ready)' = Buffering!RowsOf(ready)
        /\ Sorted(buffer)' = Sorted(buffer) /\ Sorted(ready)' = Sorted(ready)
    BY DEF Buffering!RowsOf, Sorted
  <1>2. Buffering!InMemory' = Buffering!InMemory /\ Buffering!Pending' = Buffering!Pending
    BY <1>1 DEF Buffering!InMemory, Buffering!Pending
  <1>3. Buffering!TypeOK'
    BY DEF BufferInv, Buffering!TypeOK
  <1>4. InOrder'
    BY <1>1 DEF BufferInv, InOrder
  <1>5. Behind'
    BY <1>2 DEF BufferInv, Behind
  <1>6. Seen' /\ Waited'
    BY <1>1 DEF BufferInv, Seen, Waited
  <1>7. Buffering!PendingHeld'
    BY <1>2 DEF BufferInv, Buffering!PendingHeld
  <1>8. Buffering!InTimeOrder'
    BY DEF BufferInv, Buffering!InTimeOrder
  <1>9. Buffering!HeldForWindow'
    BY DEF BufferInv, Buffering!HeldForWindow
  <1>10. QED
    BY <1>3, <1>4, <1>5, <1>6, <1>7, <1>8, <1>9 DEF BufferInv

\* An operation begins.
LEMMA StartKeeps ==
    ASSUME BufferInv, NEW given \in Seq(Rows), NEW flush \in BOOLEAN, Buffering!Start(given, flush)
    PROVE  BufferInv'
  <1>1. /\ bufferPc = "idle" /\ Len(buffer) + Len(given) <= MaxBuffered
        /\ bufferPc' = "next" /\ todo' = given /\ flushing' = flush
        /\ UNCHANGED <<raw, log, buffer, latest, ready, faults, stranded, late, early>>
    BY DEF Buffering!Start, Buffering!history
  <1>2. ready = <<>> /\ Readiness'
    BY <1>1 DEF BufferInv, Readiness
  <1>3. Roomy'
    <2>1. Len(ready') = 0 /\ Len(buffer) \in Nat /\ Len(given) \in Nat
      BY <1>1, <1>2, BufferTypes
    <2>2. Len(todo') = Len(given) /\ Len(buffer') = Len(buffer)
      BY <1>1
    <2>3. Len(buffer') + Len(ready') + Len(todo') <= MaxBuffered
      BY <1>1, <2>1, <2>2, TimeIs
    <2>4. QED
      BY <2>3 DEF Roomy
  <1>4. QED
    BY <1>1, <1>2, <1>3, BufferStands

LEMMA BeginKeeps ==
    ASSUME BufferInv, Buffering!Ingest \/ Buffering!IngestBatch \/ Buffering!FlushSession
    PROVE  BufferInv'
  <1>1. CASE Buffering!Ingest
    <2>1. PICK r \in Rows : Buffering!Start(<<r>>, FALSE)
      BY <1>1 DEF Buffering!Ingest
    <2>2. <<r>> \in Seq(Rows)
      OBVIOUS
    <2>3. QED
      BY <2>1, <2>2, StartKeeps
  <1>2. CASE Buffering!IngestBatch
    <2>1. PICK n \in 1 .. MaxBatch : \E given \in [1 .. n -> Rows] : Buffering!Start(given, TRUE)
      BY <1>2 DEF Buffering!IngestBatch
    <2>2. PICK given \in [1 .. n -> Rows] : Buffering!Start(given, TRUE)
      BY <2>1
    <2>3. given \in Seq(Rows)
      <3>1. n \in Nat
        BY TimeIs
      <3>2. QED
        BY <3>1
    <2>4. QED
      BY <2>2, <2>3, StartKeeps
  <1>3. CASE Buffering!FlushSession
    <2>1. Buffering!Start(<<>>, TRUE)
      BY <1>3 DEF Buffering!FlushSession
    <2>2. <<>> \in Seq(Rows)
      OBVIOUS
    <2>3. QED
      BY <2>1, <2>2, StartKeeps
  <1>4. QED
    BY <1>1, <1>2, <1>3

\* The operation goes on to its next row, or comes to its end.
LEMMA GoesOn ==
    ASSUME BufferInv, Buffering!Return \/ Buffering!Appended
    PROVE  BufferInv'
  <1>1. /\ UNCHANGED <<raw, log, buffer, latest, todo, ready, flushing, faults,
                       stranded, late, early>>
        /\ ready = <<>> /\ bufferPc' \in {"idle", "next"}
    BY DEF BufferInv, Readiness, Buffering!Return, Buffering!Appended, Buffering!history
  <1>2. Roomy' /\ Readiness'
    BY <1>1 DEF BufferInv, Roomy, Readiness
  <1>3. QED
    BY <1>1, <1>2, BufferStands, BufferTypes

\* A row is stored, and what is due is to be appended.
LEMMA StoreKeeps ==
    ASSUME BufferInv, Buffering!Persist, raw[Head(todo)] # "done"
    PROVE  BufferInv'
  <1> DEFINE r == Head(todo)
  <1>1. /\ bufferPc = "next" /\ todo # <<>> /\ todo' = Tail(todo)
        /\ raw' = [raw EXCEPT ![r] = "pending"] /\ Buffering!Add(r)
        /\ bufferPc' = "append" /\ stranded' = stranded \ {r}
        /\ early' = early /\ log' = log /\ flushing' = flushing /\ faults' = faults
    BY DEF Buffering!Persist
  <1>2. /\ todo \in Seq(Rows) /\ raw \in [Rows -> {"absent", "pending", "done"}]
        /\ log \in Seq(Rows) /\ buffer \in Seq(Rows) /\ ready \in Seq(Rows)
        /\ latest \in Nat /\ early \in Nat /\ stranded \subseteq Rows /\ late \subseteq Rows
        /\ flushing \in BOOLEAN /\ faults \in 0 .. MaxFaults
    BY BufferTypes
  <1>3. /\ r \in Rows /\ Tail(todo) \in Seq(Rows) /\ Len(Tail(todo)) = Len(todo) - 1
        /\ Len(todo) \in Nat /\ Len(buffer) \in Nat
    BY <1>1, <1>2
  <1>4. ready = <<>>
    BY <1>1 DEF BufferInv, Readiness
  <1> HIDE DEF r
  <1>5. /\ ready' \in Seq(Rows) /\ Sorted(ready') /\ buffer' \in Seq(Rows) /\ Sorted(buffer')
        /\ Len(ready') + Len(buffer') = Len(buffer) + 1
        /\ Buffering!RowsOf(ready') \cup Buffering!RowsOf(buffer') =
             Buffering!RowsOf(buffer) \cup {r}
        /\ \A x \in Buffering!RowsOf(ready'), y \in Buffering!RowsOf(buffer') :
             Time[x] <= Time[y]
        /\ latest' \in Nat /\ latest <= latest' /\ Time[r] <= latest'
        /\ \A x \in Buffering!RowsOf(ready') : Time[x] + Window <= latest'
    BY <1>1, <1>3, AddDoes
  <1>6. late' = late \cup {x \in {r} : \E i \in 1 .. Len(log) : Time[log[i]] > Time[x]}
    BY <1>1 DEF Buffering!Add
  <1>7. Roomy'
    <2>1. Len(ready) = 0 /\ Len(buffer) + Len(ready) + Len(todo) <= MaxBuffered
      BY <1>4 DEF BufferInv, Roomy
    <2>2. Len(ready') \in Nat /\ Len(buffer') \in Nat /\ Len(todo') = Len(todo) - 1
      BY <1>1, <1>3, <1>5
    <2>3. Len(buffer') + Len(ready') + Len(todo') <= MaxBuffered
      BY <1>3, <1>5, <2>1, <2>2, TimeIs
    <2>4. QED
      BY <2>3 DEF Roomy
  <1>8. Buffering!TypeOK'
    <2>1. raw' \in [Rows -> {"absent", "pending", "done"}]
      BY <1>1, <1>2
    <2>2. stranded' \subseteq Rows /\ late' \subseteq Rows
      BY <1>1, <1>2, <1>3, <1>6
    <2>3. Len(buffer') <= MaxBuffered
      <3>1. Len(ready') \in Nat /\ Len(buffer') \in Nat /\ Len(todo') \in Nat
        BY <1>1, <1>3, <1>5
      <3>2. QED
        BY <1>7, <3>1, TimeIs DEF Roomy
    <2>4. QED
      BY <1>1, <1>2, <1>3, <1>5, <2>1, <2>2, <2>3 DEF Buffering!TypeOK
  <1>9. Readiness'
    BY <1>1 DEF Readiness
  <1>10. InOrder'
    BY <1>5 DEF InOrder, Buffering!RowsOf, Sorted
  <1>11. Buffering!InMemory' = Buffering!InMemory \cup {r}
    <2>1. Buffering!RowsOf(ready) = {}
      BY <1>4, NoRows
    <2>2. /\ Buffering!RowsOf(ready)' = Buffering!RowsOf(ready')
          /\ Buffering!RowsOf(buffer)' = Buffering!RowsOf(buffer')
      BY DEF Buffering!RowsOf
    <2>3. QED
      BY <1>5, <2>1, <2>2 DEF Buffering!InMemory
  <1>12. Behind'
    <2>1. Behind
      BY DEF BufferInv
    <2>2. QED
      BY <1>1, <1>6, <1>11, <2>1 DEF Behind
  <1>13. Seen'
    <2>1. ASSUME NEW x \in Buffering!RowsOf(buffer')
          PROVE  Time[x] <= latest'
      <3>1. CASE x = r
        BY <1>5, <3>1
      <3>2. CASE x \in Buffering!RowsOf(buffer)
        <4>1. Time[x] <= latest
          BY <3>2 DEF BufferInv, Seen
        <4>2. Time[x] \in Nat
          BY <1>2, <3>2, RowsAre, TimeIs
        <4>3. QED
          BY <1>2, <1>5, <4>1, <4>2
      <3>3. QED
        BY <1>5, <3>1, <3>2
    <2>2. QED
      BY <2>1 DEF Seen, Buffering!RowsOf
  <1>14. Waited'
    BY <1>5 DEF Waited, Buffering!RowsOf
  <1>15. Buffering!PendingHeld'
    <2>1. Buffering!Pending' \subseteq Buffering!Pending \cup {r}
      BY <1>1, <1>2, <1>3 DEF Buffering!Pending
    <2>2. Buffering!Pending \subseteq Buffering!InMemory \cup stranded
      BY DEF BufferInv, Buffering!PendingHeld
    <2>3. QED
      BY <1>1, <1>11, <2>1, <2>2 DEF Buffering!PendingHeld
  <1>16. Buffering!InTimeOrder'
    BY <1>1, <1>6 DEF BufferInv, Buffering!InTimeOrder
  <1>17. Buffering!HeldForWindow'
    <2>1. ASSUME NEW i \in 1 .. Len(log)
          PROVE  Time[log[i]] <= early \/ Time[log[i]] + Window <= latest'
      <3>1. Time[log[i]] <= early \/ Time[log[i]] + Window <= latest
        BY DEF BufferInv, Buffering!HeldForWindow
      <3>2. Time[log[i]] \in Nat
        BY <1>2, TimeIs
      <3>3. QED
        BY <1>2, <1>5, <3>1, <3>2, TimeIs
    <2>2. QED
      BY <1>1, <2>1 DEF Buffering!HeldForWindow
  <1>18. QED
    BY <1>7, <1>8, <1>9, <1>10, <1>12, <1>13, <1>14, <1>15, <1>16, <1>17 DEF BufferInv

\* A row that is done is passed over.
LEMMA PersistKeeps ==
    ASSUME BufferInv, Buffering!Persist
    PROVE  BufferInv'
  <1>1. CASE raw[Head(todo)] = "done"
    <2>1. /\ bufferPc = "next" /\ todo # <<>> /\ todo' = Tail(todo) /\ bufferPc' = "next"
          /\ UNCHANGED <<raw, log, buffer, latest, ready, faults, stranded, late, early,
                         flushing>>
      BY <1>1 DEF Buffering!Persist, Buffering!history
    <2>2. todo \in Seq(Rows) /\ buffer \in Seq(Rows) /\ ready \in Seq(Rows)
      BY BufferTypes
    <2>3. todo' \in Seq(Rows) /\ Len(todo') = Len(todo) - 1 /\ Len(todo) \in Nat
      BY <2>1, <2>2
    <2>4. Roomy'
      <3>1. Len(buffer) \in Nat /\ Len(ready) \in Nat
        BY <2>2
      <3>2. Len(buffer) + Len(ready) + Len(todo') <= MaxBuffered
        BY <2>3, <3>1, TimeIs DEF BufferInv, Roomy
      <3>3. QED
        BY <2>1, <3>2 DEF Roomy
    <2>5. Readiness'
      BY <2>1 DEF BufferInv, Readiness
    <2>6. QED
      BY <2>1, <2>3, <2>4, <2>5, BufferStands, BufferTypes
  <1>2. QED
    BY <1>1, StoreKeeps

\* Everything held back is to be appended.
LEMMA BufferFlushKeeps ==
    ASSUME BufferInv, Buffering!Flush
    PROVE  BufferInv'
  <1>1. /\ bufferPc = "next" /\ todo = <<>> /\ ready' = buffer /\ buffer' = <<>> /\ latest' = 0
        /\ early' = Buffering!Later(early, latest) /\ flushing' = FALSE /\ bufferPc' = "append"
        /\ UNCHANGED <<raw, log, todo, faults, stranded, late>>
    BY DEF Buffering!Flush
  <1>2. /\ raw \in [Rows -> {"absent", "pending", "done"}]
        /\ log \in Seq(Rows) /\ buffer \in Seq(Rows) /\ ready \in Seq(Rows) /\ todo \in Seq(Rows)
        /\ latest \in Nat /\ early \in Nat /\ faults \in 0 .. MaxFaults
        /\ stranded \subseteq Rows /\ late \subseteq Rows
    BY BufferTypes
  <1>3. ready = <<>>
    BY <1>1 DEF BufferInv, Readiness
  <1>4. early' \in Nat /\ early <= early' /\ latest <= early'
    BY <1>1, <1>2 DEF Buffering!Later
  <1>5. /\ Buffering!RowsOf(buffer)' = {} /\ Buffering!RowsOf(ready)' = Buffering!RowsOf(buffer)
        /\ Buffering!RowsOf(ready) = {}
    <2>1. Buffering!RowsOf(ready) = {} /\ Buffering!RowsOf(buffer') = {}
      BY <1>1, <1>3, NoRows
    <2>2. QED
      BY <1>1, <2>1 DEF Buffering!RowsOf
  <1>6. Buffering!InMemory' = Buffering!InMemory
    BY <1>5 DEF Buffering!InMemory
  <1>7. Roomy'
    <2>1. Len(ready) = 0 /\ Len(buffer') = 0 /\ Len(buffer) \in Nat /\ Len(todo) \in Nat
      BY <1>1, <1>2, <1>3
    <2>2. Len(buffer') + Len(buffer) + Len(todo) <= MaxBuffered
      BY <2>1, TimeIs DEF BufferInv, Roomy
    <2>3. QED
      BY <1>1, <2>2 DEF Roomy
  <1>8. Buffering!TypeOK'
    <2>1. <<>> \in Seq(Rows) /\ Len(<<>>) = 0
      OBVIOUS
    <2>2. 0 <= MaxBuffered /\ 0 \in Nat
      BY TimeIs
    <2>3. QED
      BY <1>1, <1>2, <1>4, <2>1, <2>2 DEF Buffering!TypeOK
  <1>9. Readiness'
    BY <1>1 DEF Readiness
  <1>10. InOrder'
    <2>1. Sorted(buffer') /\ Sorted(ready')
      BY <1>1, NoRows DEF BufferInv, InOrder
    <2>2. Sorted(buffer)' /\ Sorted(ready)'
      BY <2>1 DEF Sorted
    <2>3. QED
      BY <1>5, <2>2 DEF InOrder
  <1>11. Behind'
    BY <1>1, <1>6 DEF BufferInv, Behind
  <1>12. Seen'
    BY <1>5 DEF Seen
  <1>13. Waited'
    <2>1. ASSUME NEW x \in Buffering!RowsOf(buffer)
          PROVE  Time[x] <= early'
      <3>1. Time[x] <= latest
        BY DEF BufferInv, Seen
      <3>2. Time[x] \in Nat
        BY <1>2, RowsAre, TimeIs
      <3>3. QED
        BY <1>2, <1>4, <3>1, <3>2
    <2>2. QED
      BY <1>5, <2>1 DEF Waited
  <1>14. Buffering!PendingHeld'
    BY <1>1, <1>6 DEF BufferInv, Buffering!PendingHeld, Buffering!Pending
  <1>15. Buffering!InTimeOrder'
    BY <1>1 DEF BufferInv, Buffering!InTimeOrder
  <1>16. Buffering!HeldForWindow'
    <2>1. ASSUME NEW i \in 1 .. Len(log)
          PROVE  Time[log[i]] <= early'
      <3>1. Time[log[i]] <= early \/ Time[log[i]] + Window <= latest
        BY DEF BufferInv, Buffering!HeldForWindow
      <3>2. Time[log[i]] \in Nat
        BY <1>2, TimeIs
      <3>3. QED
        BY <1>2, <1>4, <3>1, <3>2, TimeIs
    <2>2. QED
      BY <1>1, <2>1 DEF Buffering!HeldForWindow
  <1>17. QED
    BY <1>7, <1>8, <1>9, <1>10, <1>11, <1>12, <1>13, <1>14, <1>15, <1>16 DEF BufferInv

\* The first row is appended.
LEMMA AppendKeeps ==
    ASSUME BufferInv, Buffering!AppendNext
    PROVE  BufferInv'
  <1>1. /\ bufferPc = "append" /\ ready # <<>> /\ log' = Buffering!Logged(Head(ready))
        /\ bufferPc' = "mark"
        /\ UNCHANGED <<raw, buffer, latest, todo, ready, flushing, faults, stranded, late, early>>
    BY DEF Buffering!AppendNext, Buffering!history
  <1>2. /\ log' \in Seq(Rows)
        /\ \A i, j \in 1 .. Len(log') :
             i < j /\ Time[log'[i]] > Time[log'[j]] => log'[j] \in late
        /\ \A i \in 1 .. Len(log') : Time[log'[i]] <= early \/ Time[log'[i]] + Window <= latest
        /\ \A x \in Buffering!InMemory : \A i \in 1 .. Len(log') :
             Time[log'[i]] > Time[x] => x \in late
    BY <1>1, LogGrows
  <1>3. Buffering!InMemory' = Buffering!InMemory /\ Buffering!Pending' = Buffering!Pending
    BY <1>1 DEF Buffering!InMemory, Buffering!Pending, Buffering!RowsOf
  <1>4. Buffering!TypeOK'
    BY <1>1, <1>2 DEF BufferInv, Buffering!TypeOK
  <1>5. Roomy' /\ Readiness'
    BY <1>1 DEF BufferInv, Roomy, Readiness
  <1>6. InOrder' /\ Seen' /\ Waited'
    BY <1>1 DEF BufferInv, InOrder, Sorted, Seen, Waited, Buffering!RowsOf
  <1>7. Behind'
    BY <1>1, <1>2, <1>3 DEF Behind
  <1>8. Buffering!PendingHeld'
    BY <1>1, <1>3 DEF BufferInv, Buffering!PendingHeld
  <1>9. Buffering!InTimeOrder' /\ Buffering!HeldForWindow'
    BY <1>1, <1>2 DEF Buffering!InTimeOrder, Buffering!HeldForWindow
  <1>10. QED
    BY <1>4, <1>5, <1>6, <1>7, <1>8, <1>9 DEF BufferInv

\* The row that was appended is done.
LEMMA MarkKeeps ==
    ASSUME BufferInv, Buffering!Mark
    PROVE  BufferInv'
  <1> DEFINE h == Head(ready)
             rest == Tail(ready)
  <1>1. /\ bufferPc = "mark" /\ raw' = [raw EXCEPT ![h] = "done"]
        /\ ready' = rest /\ bufferPc' = "append"
        /\ UNCHANGED <<log, buffer, latest, todo, flushing, faults, stranded, late, early>>
    BY DEF Buffering!Mark, Buffering!history
  <1>2. /\ raw \in [Rows -> {"absent", "pending", "done"}]
        /\ buffer \in Seq(Rows) /\ ready \in Seq(Rows) /\ todo \in Seq(Rows) /\ ready # <<>>
    BY <1>1, BufferTypes DEF BufferInv, Readiness
  <1>3. /\ h \in Rows /\ rest \in Seq(Rows) /\ Len(rest) = Len(ready) - 1 /\ Sorted(rest)
        /\ Buffering!RowsOf(ready) = {h} \cup Buffering!RowsOf(rest)
    <2>1. Sorted(ready)
      BY DEF BufferInv, InOrder
    <2>2. QED
      BY <1>2, <2>1, HeadAndTail, TimeIs
  <1> HIDE DEF h, rest
  <1>4. /\ Buffering!RowsOf(ready)' = Buffering!RowsOf(rest)
        /\ Buffering!RowsOf(buffer)' = Buffering!RowsOf(buffer)
    BY <1>1 DEF Buffering!RowsOf
  <1>5. /\ Buffering!InMemory \subseteq Buffering!InMemory' \cup {h}
        /\ Buffering!InMemory' \subseteq Buffering!InMemory
    BY <1>3, <1>4 DEF Buffering!InMemory
  <1>6. Buffering!TypeOK'
    <2>1. raw' \in [Rows -> {"absent", "pending", "done"}]
      BY <1>1, <1>2
    <2>2. QED
      BY <1>1, <1>3, <2>1 DEF BufferInv, Buffering!TypeOK
  <1>7. Roomy'
    <2>1. Len(ready) \in Nat /\ Len(buffer) \in Nat /\ Len(todo) \in Nat
      BY <1>2
    <2>2. Len(buffer) + Len(rest) + Len(todo) <= MaxBuffered
      BY <1>3, <2>1, TimeIs DEF BufferInv, Roomy
    <2>3. QED
      BY <1>1, <2>2 DEF Roomy
  <1>8. Readiness'
    BY <1>1 DEF Readiness
  <1>9. InOrder'
    <2>1. Sorted(buffer)' /\ Sorted(ready)'
      BY <1>1, <1>3 DEF BufferInv, InOrder, Sorted
    <2>2. QED
      BY <1>3, <1>4, <2>1 DEF BufferInv, InOrder
  <1>10. Behind'
    BY <1>1, <1>5 DEF BufferInv, Behind
  <1>11. Seen' /\ Waited'
    BY <1>1, <1>3, <1>4 DEF BufferInv, Seen, Waited
  <1>12. Buffering!PendingHeld'
    <2>1. Buffering!Pending' \subseteq Buffering!Pending \ {h}
      BY <1>1, <1>2, <1>3 DEF Buffering!Pending
    <2>2. Buffering!Pending \subseteq Buffering!InMemory \cup stranded
      BY DEF BufferInv, Buffering!PendingHeld
    <2>3. QED
      BY <1>1, <1>5, <2>1, <2>2 DEF Buffering!PendingHeld
  <1>13. Buffering!InTimeOrder' /\ Buffering!HeldForWindow'
    BY <1>1 DEF BufferInv, Buffering!InTimeOrder, Buffering!HeldForWindow
  <1>14. QED
    BY <1>6, <1>7, <1>8, <1>9, <1>10, <1>11, <1>12, <1>13 DEF BufferInv

\* What an accident leaves of the operation.
LEMMA AccidentLeaves ==
    ASSUME BufferInv, Buffering!Accident, Buffering!Abandon
    PROVE  /\ bufferPc' = "idle" /\ todo' = <<>> /\ ready' = <<>> /\ flushing' = FALSE
           /\ bufferPc' \in {"idle", "next", "append", "mark"}
           /\ todo' \in Seq(Rows) /\ ready' \in Seq(Rows) /\ flushing' \in BOOLEAN
           /\ faults' \in 0 .. MaxFaults
           /\ Buffering!RowsOf(ready)' = {} /\ Sorted(ready)' /\ Readiness'
           /\ Len(ready') = 0 /\ Len(todo') = 0
  <1>1. bufferPc' = "idle" /\ todo' = <<>> /\ ready' = <<>> /\ flushing' = FALSE
    BY DEF Buffering!Abandon
  <1>2. faults' \in 0 .. MaxFaults
    BY BufferTypes, TimeIs DEF Buffering!Accident
  <1>3. <<>> \in Seq(Rows) /\ Len(<<>>) = 0
    OBVIOUS
  <1>4. Buffering!RowsOf(ready)' = {} /\ Sorted(ready)'
    <2>1. Buffering!RowsOf(ready') = {} /\ Sorted(ready')
      BY <1>1, NoRows
    <2>2. QED
      BY <2>1 DEF Buffering!RowsOf, Sorted
  <1>5. Readiness'
    BY <1>1 DEF Readiness
  <1>6. QED
    BY <1>1, <1>2, <1>3, <1>4, <1>5

\* The operation ends before its next row reaches the buffer.
LEMMA PersistFailsKeeps ==
    ASSUME BufferInv, Buffering!PersistFails
    PROVE  BufferInv'
  <1> DEFINE r == Head(todo)
  <1>1. /\ bufferPc = "next" /\ todo # <<>> /\ Buffering!Accident /\ Buffering!Abandon
        /\ UNCHANGED <<log, buffer, latest, late, early>>
        /\ \/ raw' = raw /\ stranded' = stranded
           \/ raw' = [raw EXCEPT ![r] = "pending"] /\ stranded' = stranded \cup {r}
    BY DEF Buffering!PersistFails
  <1>2. /\ raw \in [Rows -> {"absent", "pending", "done"}]
        /\ log \in Seq(Rows) /\ buffer \in Seq(Rows) /\ ready \in Seq(Rows) /\ todo \in Seq(Rows)
        /\ stranded \subseteq Rows
    BY BufferTypes
  <1>3. ready = <<>> /\ Buffering!RowsOf(ready) = {}
    BY <1>1, NoRows DEF BufferInv, Readiness
  <1>4. r \in Rows
    BY <1>1, <1>2
  <1> HIDE DEF r
  <1>5. /\ bufferPc' \in {"idle", "next", "append", "mark"}
        /\ todo' \in Seq(Rows) /\ ready' \in Seq(Rows) /\ flushing' \in BOOLEAN
        /\ faults' \in 0 .. MaxFaults
        /\ Buffering!RowsOf(ready)' = {} /\ Sorted(ready)' /\ Readiness'
        /\ Len(ready') = 0 /\ Len(todo') = 0
    BY <1>1, AccidentLeaves
  <1>6. Buffering!InMemory' = Buffering!InMemory
    BY <1>1, <1>3, <1>5 DEF Buffering!InMemory, Buffering!RowsOf
  <1>7. raw' \in [Rows -> {"absent", "pending", "done"}] /\ stranded' \subseteq Rows
    <2>1. CASE raw' = raw /\ stranded' = stranded
      BY <1>2, <2>1
    <2>2. CASE raw' = [raw EXCEPT ![r] = "pending"] /\ stranded' = stranded \cup {r}
      BY <1>2, <1>4, <2>2
    <2>3. QED
      BY <1>1, <2>1, <2>2
  <1>8. Buffering!TypeOK'
    BY <1>1, <1>5, <1>7 DEF BufferInv, Buffering!TypeOK
  <1>9. Roomy'
    <2>1. Len(buffer) \in Nat /\ Len(buffer) <= MaxBuffered
      BY <1>2 DEF BufferInv, Buffering!TypeOK
    <2>2. Len(buffer) + Len(ready') + Len(todo') <= MaxBuffered
      BY <1>5, <2>1, TimeIs
    <2>3. QED
      BY <1>1, <2>2 DEF Roomy
  <1>10. InOrder'
    <2>1. Sorted(buffer)'
      BY <1>1 DEF BufferInv, InOrder, Sorted
    <2>2. QED
      BY <1>5, <2>1 DEF InOrder
  <1>11. Behind'
    BY <1>1, <1>6 DEF BufferInv, Behind
  <1>12. Seen' /\ Waited'
    BY <1>1, <1>5 DEF BufferInv, Seen, Waited, Buffering!RowsOf
  <1>13. Buffering!PendingHeld'
    <2>1. Buffering!Pending \subseteq Buffering!InMemory \cup stranded
      BY DEF BufferInv, Buffering!PendingHeld
    <2>2. Buffering!Pending' \subseteq Buffering!InMemory \cup stranded'
      <3>1. CASE raw' = raw /\ stranded' = stranded
        BY <2>1, <3>1 DEF Buffering!Pending
      <3>2. CASE raw' = [raw EXCEPT ![r] = "pending"] /\ stranded' = stranded \cup {r}
        <4>1. Buffering!Pending' \subseteq Buffering!Pending \cup {r}
          BY <1>2, <1>4, <3>2 DEF Buffering!Pending
        <4>2. QED
          BY <2>1, <3>2, <4>1
      <3>3. QED
        BY <1>1, <3>1, <3>2
    <2>3. QED
      BY <1>6, <2>2 DEF Buffering!PendingHeld
  <1>14. Buffering!InTimeOrder' /\ Buffering!HeldForWindow'
    BY <1>1 DEF BufferInv, Buffering!InTimeOrder, Buffering!HeldForWindow
  <1>15. QED
    BY <1>5, <1>8, <1>9, <1>10, <1>11, <1>12, <1>13, <1>14 DEF BufferInv

\* What was being appended is put back.
LEMMA PersistReadyFailsKeeps ==
    ASSUME BufferInv, Buffering!PersistReadyFails
    PROVE  BufferInv'
  <1>1. /\ ready # <<>> /\ Buffering!Accident /\ Buffering!Abandon
        /\ log' \in {log, Buffering!Logged(Head(ready))} /\ Buffering!Requeue
        /\ UNCHANGED <<raw, stranded, late, early>>
    BY DEF Buffering!PersistReadyFails, Buffering!history
  <1>2. /\ buffer' = Buffering!Requeued[Len(ready)] /\ latest' = Buffering!Newest(latest, ready)
    BY <1>1 DEF Buffering!Requeue
  <1>3. /\ raw \in [Rows -> {"absent", "pending", "done"}]
        /\ log \in Seq(Rows) /\ buffer \in Seq(Rows) /\ ready \in Seq(Rows) /\ todo \in Seq(Rows)
        /\ latest \in Nat /\ early \in Nat /\ stranded \subseteq Rows /\ late \subseteq Rows
        /\ Time \in [Rows -> Nat] /\ Window \in Nat /\ MaxBuffered \in Nat
    BY BufferTypes, TimeIs
  <1>4. Sorted(buffer)
    BY DEF BufferInv, InOrder
  <1>5. /\ buffer' \in Seq(Rows) /\ Sorted(buffer') /\ Len(buffer') = Len(buffer) + Len(ready)
        /\ Buffering!RowsOf(buffer') = Buffering!RowsOf(buffer) \cup Buffering!RowsOf(ready)
    BY <1>2, <1>3, <1>4, RequeuedKeeps
  <1>6. /\ latest' \in Nat /\ latest <= latest'
        /\ \A x \in Buffering!RowsOf(ready) : Time[x] <= latest'
    BY <1>2, <1>3, NewestIs
  <1>7. /\ bufferPc' \in {"idle", "next", "append", "mark"}
        /\ todo' \in Seq(Rows) /\ ready' \in Seq(Rows) /\ flushing' \in BOOLEAN
        /\ faults' \in 0 .. MaxFaults
        /\ Buffering!RowsOf(ready)' = {} /\ Sorted(ready)' /\ Readiness'
        /\ Len(ready') = 0 /\ Len(todo') = 0
    BY <1>1, AccidentLeaves
  <1>8. /\ log' \in Seq(Rows)
        /\ \A i, j \in 1 .. Len(log') :
             i < j /\ Time[log'[i]] > Time[log'[j]] => log'[j] \in late
        /\ \A i \in 1 .. Len(log') : Time[log'[i]] <= early \/ Time[log'[i]] + Window <= latest
        /\ \A x \in Buffering!InMemory : \A i \in 1 .. Len(log') :
             Time[log'[i]] > Time[x] => x \in late
    BY <1>1, LogGrows
  <1>9. Buffering!RowsOf(buffer)' = Buffering!RowsOf(buffer') /\ Sorted(buffer)' = Sorted(buffer')
    BY DEF Buffering!RowsOf, Sorted
  <1>10. Buffering!InMemory' = Buffering!InMemory
    BY <1>5, <1>7, <1>9 DEF Buffering!InMemory
  <1>11. Roomy' /\ Len(buffer') <= MaxBuffered
    <2>1. Len(buffer) \in Nat /\ Len(ready) \in Nat /\ Len(todo) \in Nat
      BY <1>3
    <2>2. Len(buffer) + Len(ready) + Len(todo) <= MaxBuffered
      BY DEF BufferInv, Roomy
    <2>3. Len(buffer') + Len(ready') + Len(todo') <= MaxBuffered
      BY <1>3, <1>5, <1>7, <2>1, <2>2
    <2>4. Len(buffer') <= MaxBuffered
      BY <1>3, <1>5, <2>1, <2>2
    <2>5. QED
      BY <2>3, <2>4 DEF Roomy
  <1>12. Buffering!TypeOK'
    BY <1>1, <1>3, <1>5, <1>6, <1>7, <1>8, <1>11 DEF Buffering!TypeOK
  <1>13. InOrder'
    BY <1>5, <1>7, <1>9 DEF InOrder
  <1>14. Behind'
    BY <1>1, <1>8, <1>10 DEF Behind
  <1>15. Seen'
    <2>1. ASSUME NEW x \in Buffering!RowsOf(buffer)
          PROVE  Time[x] <= latest'
      <3>1. Time[x] <= latest
        BY DEF BufferInv, Seen
      <3>2. Time[x] \in Nat
        BY <1>3, RowsAre
      <3>3. QED
        BY <1>3, <1>6, <3>1, <3>2
    <2>2. QED
      BY <1>5, <1>6, <1>9, <2>1 DEF Seen
  <1>16. Waited'
    BY <1>7 DEF Waited
  <1>17. Buffering!PendingHeld'
    BY <1>1, <1>10 DEF BufferInv, Buffering!PendingHeld, Buffering!Pending
  <1>18. Buffering!InTimeOrder'
    BY <1>1, <1>8 DEF Buffering!InTimeOrder
  <1>19. Buffering!HeldForWindow'
    <2>1. ASSUME NEW i \in 1 .. Len(log')
          PROVE  Time[log'[i]] <= early \/ Time[log'[i]] + Window <= latest'
      <3>1. Time[log'[i]] <= early \/ Time[log'[i]] + Window <= latest
        BY <1>8
      <3>2. Time[log'[i]] \in Nat
        BY <1>3, <1>8
      <3>3. QED
        BY <1>3, <1>6, <3>1, <3>2
    <2>2. QED
      BY <1>1, <2>1 DEF Buffering!HeldForWindow
  <1>20. QED
    BY <1>7, <1>11, <1>12, <1>13, <1>14, <1>15, <1>16, <1>17, <1>18, <1>19 DEF BufferInv

\* The process dies with what it held.
LEMMA CrashKeeps ==
    ASSUME BufferInv, Buffering!Crash
    PROVE  BufferInv'
  <1>1. /\ Buffering!Accident /\ Buffering!Abandon /\ buffer' = <<>> /\ latest' = 0
        /\ stranded' = Buffering!Pending /\ early' = Buffering!Newest(early, log)
        /\ UNCHANGED <<raw, log, late>>
    BY DEF Buffering!Crash
  <1>2. /\ raw \in [Rows -> {"absent", "pending", "done"}]
        /\ log \in Seq(Rows) /\ early \in Nat /\ late \subseteq Rows
        /\ Time \in [Rows -> Nat] /\ MaxBuffered \in Nat
    BY BufferTypes, TimeIs
  <1>3. /\ bufferPc' \in {"idle", "next", "append", "mark"}
        /\ todo' \in Seq(Rows) /\ ready' \in Seq(Rows) /\ flushing' \in BOOLEAN
        /\ faults' \in 0 .. MaxFaults
        /\ Buffering!RowsOf(ready)' = {} /\ Sorted(ready)' /\ Readiness'
        /\ Len(ready') = 0 /\ Len(todo') = 0
    BY <1>1, AccidentLeaves
  <1>4. early' \in Nat /\ \A x \in Buffering!RowsOf(log) : Time[x] <= early'
    BY <1>1, <1>2, NewestIs
  <1>5. Buffering!RowsOf(buffer)' = {} /\ Sorted(buffer)'
    <2>1. Buffering!RowsOf(buffer') = {} /\ Sorted(buffer')
      BY <1>1, NoRows
    <2>2. QED
      BY <2>1 DEF Buffering!RowsOf, Sorted
  <1>6. Buffering!InMemory' = {}
    BY <1>3, <1>5 DEF Buffering!InMemory
  <1>7. /\ buffer' \in Seq(Rows) /\ Len(buffer') = 0 /\ 0 <= MaxBuffered /\ latest' \in Nat
        /\ stranded' \subseteq Rows
    BY <1>1, <1>2 DEF Buffering!Pending
  <1>8. Buffering!TypeOK'
    BY <1>1, <1>2, <1>3, <1>4, <1>7 DEF Buffering!TypeOK
  <1>9. Roomy'
    BY <1>3, <1>7 DEF Roomy
  <1>10. InOrder'
    BY <1>3, <1>5 DEF InOrder
  <1>11. Behind'
    BY <1>6 DEF Behind
  <1>12. Seen' /\ Waited'
    BY <1>3, <1>5 DEF Seen, Waited
  <1>13. Buffering!PendingHeld'
    BY <1>1 DEF Buffering!PendingHeld, Buffering!Pending
  <1>14. Buffering!InTimeOrder'
    BY <1>1 DEF BufferInv, Buffering!InTimeOrder
  <1>15. Buffering!HeldForWindow'
    <2>1. \A i \in 1 .. Len(log) : Time[log[i]] <= early'
      BY <1>2, <1>4, RowsAre
    <2>2. QED
      BY <1>1, <2>1 DEF Buffering!HeldForWindow
  <1>16. QED
    BY <1>3, <1>8, <1>9, <1>10, <1>11, <1>12, <1>13, <1>14, <1>15 DEF BufferInv

LEMMA BufferInit ==
    ASSUME Buffering!Init
    PROVE  BufferInv
  <1>1. /\ raw = [r \in Rows |-> "absent"] /\ log = <<>> /\ buffer = <<>> /\ latest = 0
        /\ bufferPc = "idle" /\ todo = <<>> /\ ready = <<>> /\ flushing = FALSE
        /\ faults = 0 /\ stranded = {} /\ late = {} /\ early = 0
    BY DEF Buffering!Init
  <1>2. <<>> \in Seq(Rows) /\ Len(<<>>) = 0 /\ 0 <= MaxBuffered /\ 0 \in 0 .. MaxFaults
    BY TimeIs
  <1>3. Buffering!TypeOK
    <2>1. raw \in [Rows -> {"absent", "pending", "done"}]
      BY <1>1
    <2>2. QED
      BY <1>1, <1>2, <2>1 DEF Buffering!TypeOK
  <1>4. Roomy /\ Readiness
    BY <1>1, <1>2, TimeIs DEF Roomy, Readiness
  <1>5. InOrder /\ Seen /\ Waited
    BY <1>1, NoRows DEF InOrder, Seen, Waited
  <1>6. \A i \in 1 .. Len(log) : FALSE
    BY <1>1, <1>2
  <1>7. Behind /\ Buffering!InTimeOrder /\ Buffering!HeldForWindow
    BY <1>6 DEF Behind, Buffering!InTimeOrder, Buffering!HeldForWindow
  <1>8. Buffering!PendingHeld
    BY <1>1 DEF Buffering!PendingHeld, Buffering!Pending
  <1>9. QED
    BY <1>3, <1>4, <1>5, <1>7, <1>8 DEF BufferInv

LEMMA BufferStep ==
    ASSUME BufferInv, Buffering!Next \/ UNCHANGED bufferVars
    PROVE  BufferInv'
  <1>1. CASE UNCHANGED bufferVars
    <2>1. /\ UNCHANGED <<raw, log, buffer, latest, ready, faults, stranded, late, early>>
          /\ UNCHANGED <<bufferPc, todo, flushing>>
      BY <1>1 DEF bufferVars
    <2>2. Roomy' /\ Readiness'
      BY <2>1 DEF BufferInv, Roomy, Readiness
    <2>3. QED
      BY <2>1, <2>2, BufferStands, BufferTypes
  <1>2. CASE Buffering!Next
    <2>1. CASE Buffering!Working
      BY <2>1, PersistKeeps, BufferFlushKeeps, GoesOn, AppendKeeps, MarkKeeps DEF Buffering!Working
    <2>2. QED
      BY <1>2, <2>1, BeginKeeps, PersistFailsKeeps, PersistReadyFailsKeeps, CrashKeeps
         DEF Buffering!Next
  <1>3. QED
    BY <1>1, <1>2

(***************************************************************************)
(* The polling worker.                                                     *)
(***************************************************************************)

\* What a poll that is running has asked for, and what it must have brought.
PassInv ==
    pass # Polling!Idle =>
        /\ pass.rows \subseteq DOMAIN published
        /\ pass.at \in 0 .. PollTime /\ pass.asked \in Nat
        /\ pass.at <= pass.asked /\ pass.asked <= pollNow
        /\ cursor = Polling!None => since = Polling!Lower(pass.at)
        /\ \A d \in DOMAIN published :
             published[d] < pass.asked /\ d > Polling!Lower(pass.at) /\ d <= pass.at =>
               d \in pass.rows

Dating ==
    /\ pollNow \in Nat /\ since \in Int
    /\ \A d \in DOMAIN published : published[d] \in Nat /\ d <= published[d] /\ published[d] <= pollNow
    /\ cursor # Polling!None => fetched \in Nat /\ fetched <= pollNow

PollInv == Polling!TypeOK /\ Dating /\ seen \subseteq pollIngested
    /\ PassInv /\ Polling!NothingMissed

LEMMA DatesAre ==
    /\ IsFiniteSet(Dates) /\ Dates \subseteq Nat
    /\ Overlap \in Nat /\ Warmup \in Nat /\ SeenLimit \in Nat /\ PollTime \in Nat
  <1>1. Polling!DatesAssumption /\ Polling!BoundsAssumption
    BY PartsAssumption DEF PartsAssumption
  <1>2. QED
    BY <1>1 DEF Polling!DatesAssumption, Polling!BoundsAssumption, Polling!IsFiniteSet, IsFiniteSet

LEMMA PollTypes ==
    ASSUME PollInv
    PROVE  /\ pollNow \in Nat /\ since \in Int /\ DOMAIN published \subseteq Dates
           /\ DOMAIN published \subseteq Nat
           /\ pollIngested \subseteq DOMAIN published /\ seen \subseteq pollIngested
           /\ cursor # Polling!None => cursor \in 0 .. PollTime /\ cursor <= fetched /\ fetched \in Nat
           /\ \A d \in DOMAIN published :
                published[d] \in Nat /\ d <= published[d] /\ published[d] <= pollNow
  BY DatesAre DEF PollInv, Polling!TypeOK, Dating

\* The date from which a poll asks is a number.
LEMMA LowerIs ==
    ASSUME PollInv, NEW t \in 0 .. PollTime
    PROVE  Polling!Lower(t) \in Int
  BY PollTypes, DatesAre DEF Polling!Lower

LEMMA PollInit ==
    ASSUME Polling!Init
    PROVE  PollInv
  <1>1. /\ pollNow = 0 /\ published = [d \in {} |-> 0] /\ pollIngested = {}
        /\ cursor = Polling!None /\ seen = {} /\ pass = Polling!Idle /\ since = Polling!None
        /\ fetched = Polling!None
    BY DEF Polling!Init
  <1>2. DOMAIN published = {}
    BY <1>1
  <1>3. Cardinality({}) = 0 /\ IsFiniteSet({}) /\ Cardinality(Dates) \in Nat
    BY FS_EmptySet, FS_CardinalityType, DatesAre
  <1>4. Polling!Cardinality({}) = 0 /\ Polling!Cardinality(Dates) \in Nat
    BY <1>3 DEF Polling!Cardinality, Cardinality, Polling!IsFiniteSet, IsFiniteSet
  <1>5. Polling!TypeOK
    BY <1>1, <1>2, <1>4, DatesAre DEF Polling!TypeOK
  <1>6. Dating
    BY <1>1, <1>2 DEF Dating, Polling!None
  <1>7. PassInv /\ Polling!NothingMissed /\ seen \subseteq pollIngested
    BY <1>1 DEF PassInv, Polling!NothingMissed
  <1>8. QED
    BY <1>5, <1>6, <1>7 DEF PollInv

\* Time passes, the connection comes and goes, a request fails.
LEMMA PollRests ==
    ASSUME PollInv,
           \/ Polling!Tick \/ Polling!Connect \/ Polling!Disconnect \/ Polling!FetchFails
           \/ UNCHANGED pollVars
    PROVE  PollInv'
  <1>1. /\ UNCHANGED <<published, pollIngested, cursor, seen, pass, since, fetched>>
        /\ pollNow' \in {pollNow, pollNow + 1}
    BY DEF Polling!Tick, Polling!Connect, Polling!Disconnect, Polling!FetchFails, pollVars
  <1>2. pollNow' \in Nat /\ pollNow <= pollNow' /\ pollNow \in Nat
    BY <1>1, PollTypes
  <1>3. Polling!TypeOK' /\ Polling!NothingMissed'
    BY <1>1 DEF PollInv, Polling!TypeOK, Polling!NothingMissed, Polling!OnTime
  <1>4. Dating'
    <2>1. \A d \in DOMAIN published : published[d] <= pollNow'
      BY <1>2, PollTypes
    <2>2. cursor # Polling!None => fetched <= pollNow'
      BY <1>2 DEF PollInv, Dating
    <2>3. QED
      BY <1>1, <1>2, <2>1, <2>2 DEF PollInv, Dating
  <1>5. PassInv'
    <2>1. pass # Polling!Idle => pass.asked \in Nat /\ pass.asked <= pollNow'
      BY <1>2 DEF PollInv, PassInv
    <2>2. QED
      BY <1>1, <2>1 DEF PollInv, PassInv, Polling!Lower
  <1>6. QED
    BY <1>1, <1>3, <1>4, <1>5 DEF PollInv

LEMMA PublishKeeps ==
    ASSUME PollInv, NEW e \in Dates, Polling!Publish(e)
    PROVE  PollInv'
  <1>1. /\ e \notin DOMAIN published /\ e <= pollNow
        /\ published' = [d \in DOMAIN published \cup {e} |-> IF d = e THEN pollNow ELSE published[d]]
        /\ pollIngested \subseteq pollIngested' /\ pollIngested' \subseteq pollIngested \cup {e}
        /\ UNCHANGED <<pollNow, cursor, seen, pass, since, fetched>>
    BY DEF Polling!Publish
  <1>2. /\ DOMAIN published' = DOMAIN published \cup {e}
        /\ published'[e] = pollNow
        /\ \A d \in DOMAIN published : published'[d] = published[d]
    BY <1>1
  <1>3. e \in Nat /\ pollNow \in Nat
    BY DatesAre, PollTypes
  <1>4. Polling!TypeOK'
    BY <1>1, <1>2 DEF PollInv, Polling!TypeOK
  <1>5. Dating'
    BY <1>1, <1>2, <1>3 DEF PollInv, Dating
  <1>6. PassInv'
    <2>1. CASE pass = Polling!Idle
      BY <1>1, <2>1 DEF PassInv
    <2>2. CASE pass # Polling!Idle
      <3>1. pass.asked \in Nat /\ pass.asked <= pollNow
        BY <2>2 DEF PollInv, PassInv
      <3>2. ~(published'[e] < pass.asked)
        BY <1>2, <1>3, <3>1
      <3>3. Polling!Lower(pass.at)' = Polling!Lower(pass.at)
        BY <1>1 DEF Polling!Lower
      <3>4. \A d \in DOMAIN published' :
              published'[d] < pass.asked /\ d > Polling!Lower(pass.at) /\ d <= pass.at =>
                d \in pass.rows
        BY <1>2, <2>2, <3>2 DEF PollInv, PassInv
      <3>5. QED
        BY <1>1, <1>2, <2>2, <3>3, <3>4 DEF PollInv, PassInv
    <2>3. QED
      BY <2>1, <2>2
  <1>7. Polling!NothingMissed'
    <2>1. CASE cursor = Polling!None
      BY <1>1, <2>1 DEF Polling!NothingMissed
    <2>2. CASE cursor # Polling!None
      <3>1. fetched \in Nat /\ fetched <= pollNow
        BY <2>2 DEF PollInv, Dating
      <3>2. ~(published'[e] < fetched)
        BY <1>2, <1>3, <3>1
      <3>3. QED
        BY <1>1, <1>2, <2>2, <3>2 DEF PollInv, Polling!NothingMissed, Polling!OnTime
    <2>3. QED
      BY <2>1, <2>2
  <1>8. QED
    BY <1>1, <1>4, <1>5, <1>6, <1>7 DEF PollInv

\* The provider is asked.
LEMMA FetchKeeps ==
    ASSUME PollInv, NEW t \in 0 .. PollTime, Polling!Fetch(t)
    PROVE  PollInv'
  <1> DEFINE wanted == {d \in DOMAIN published : d > Polling!Lower(t) /\ d < t + 1}
  <1>1. /\ t \in {pollNow, pollNow - 1}
        /\ pass' = [rows |-> wanted, at |-> t, asked |-> pollNow]
        /\ since' = IF cursor = Polling!None THEN Polling!Lower(t) ELSE since
        /\ UNCHANGED <<pollNow, published, pollIngested, cursor, seen, fetched>>
    BY DEF Polling!Fetch
  <1>2. /\ pollNow \in Nat /\ since \in Int /\ DOMAIN published \subseteq Nat
        /\ Polling!Lower(t) \in Int
    BY PollTypes, LowerIs
  <1>3. pass'.rows = wanted /\ pass'.at = t /\ pass'.asked = pollNow
    BY <1>1
  <1>4. \A d \in DOMAIN published : d > Polling!Lower(t) /\ d <= t => d \in wanted
    BY <1>2
  <1>5. wanted \subseteq DOMAIN published
    OBVIOUS
  <1> HIDE DEF wanted
  <1>6. Polling!TypeOK'
    BY <1>1 DEF PollInv, Polling!TypeOK
  <1>7. Dating'
    BY <1>1, <1>2 DEF PollInv, Dating
  <1>8. PassInv'
    <2>1. Polling!Lower(t)' = Polling!Lower(t)
      BY <1>1 DEF Polling!Lower
    <2>2. t <= pollNow
      BY <1>1, <1>2
    <2>3. Polling!Lower(pass.at)' = Polling!Lower(t)
      BY <1>1, <1>3 DEF Polling!Lower
    <2>4. cursor' = Polling!None => since' = Polling!Lower(t)
      BY <1>1
    <2>5. QED
      BY <1>1, <1>2, <1>3, <1>4, <1>5, <2>2, <2>3, <2>4 DEF PassInv
  <1>9. Polling!NothingMissed'
    BY <1>1 DEF PollInv, Polling!NothingMissed, Polling!OnTime
  <1>10. QED
    BY <1>1, <1>6, <1>7, <1>8, <1>9 DEF PollInv

\* A batch that is refused after some of its rows.
LEMMA BusyKeeps ==
    ASSUME PollInv, Polling!Busy
    PROVE  PollInv'
  <1>1. /\ pass # Polling!Idle
        /\ pollIngested \subseteq pollIngested'
        /\ pollIngested' \subseteq pollIngested \cup Polling!Fresh
        /\ seen' = seen /\ pass' = Polling!Idle
        /\ UNCHANGED <<pollNow, published, cursor, since, fetched>>
    BY DEF Polling!Busy, Polling!RememberedAfterBusy
  <1>2. Polling!Fresh \subseteq DOMAIN published
    BY <1>1 DEF PollInv, PassInv, Polling!Fresh
  <1>3. Polling!TypeOK'
    BY <1>1, <1>2 DEF PollInv, Polling!TypeOK
  <1>4. Dating'
    BY <1>1 DEF PollInv, Dating
  <1>5. PassInv'
    BY <1>1 DEF PassInv, Polling!Idle
  <1>6. Polling!NothingMissed'
    BY <1>1 DEF PollInv, Polling!NothingMissed, Polling!OnTime
  <1>7. QED
    BY <1>1, <1>3, <1>4, <1>5, <1>6 DEF PollInv

\* The cache stays within its bound.
LEMMA RememberedIs ==
    ASSUME NEW added \in SUBSET Dates, seen \subseteq Dates
    PROVE  /\ Polling!Remembered(added) \subseteq seen \cup added
           /\ Polling!Cardinality(Polling!Remembered(added)) <=
                SeenLimit + Polling!Cardinality(Dates)
  <1> DEFINE kept == IF Cardinality(seen) > SeenLimit THEN {} ELSE seen
  <1>1. IsFiniteSet(added) /\ Cardinality(added) <= Cardinality(Dates) /\ Cardinality(Dates) \in Nat
    BY DatesAre, FS_Subset, FS_CardinalityType
  <1>2. IsFiniteSet(seen) /\ Cardinality(seen) \in Nat
    BY DatesAre, FS_Subset, FS_CardinalityType
  <1>3. IsFiniteSet(kept) /\ Cardinality(kept) <= SeenLimit /\ Cardinality(kept) \in Nat
    <2>1. CASE Cardinality(seen) > SeenLimit
      <3>1. kept = {}
        BY <2>1
      <3>2. QED
        BY <3>1, FS_EmptySet, DatesAre
    <2>2. CASE ~(Cardinality(seen) > SeenLimit)
      <3>1. kept = seen
        BY <2>2
      <3>2. Cardinality(seen) <= SeenLimit
        BY <1>2, <2>2, DatesAre
      <3>3. QED
        BY <1>2, <3>1, <3>2
    <2>3. QED
      BY <2>1, <2>2
  <1>4. kept \subseteq seen
    OBVIOUS
  <1>5. Polling!Remembered(added) = kept \cup added
    <2>1. Polling!Cardinality(seen) = Cardinality(seen)
      BY DEF Polling!Cardinality, Cardinality, Polling!IsFiniteSet, IsFiniteSet
    <2>2. QED
      BY <2>1 DEF Polling!Remembered
  <1> HIDE DEF kept
  <1>6. Cardinality(kept \cup added) <= SeenLimit + Cardinality(Dates)
    <2>1. /\ Cardinality(kept \cup added) =
               Cardinality(kept) + Cardinality(added) - Cardinality(kept \cap added)
      BY <1>1, <1>3, FS_Union
    <2>2. IsFiniteSet(kept \cap added)
      BY <1>1, FS_Subset
    <2>3. Cardinality(kept \cap added) \in Nat /\ Cardinality(added) \in Nat
      BY <1>1, <2>2, FS_CardinalityType
    <2>4. QED
      BY <1>1, <1>3, <2>1, <2>3, DatesAre
  <1>7. /\ Polling!Cardinality(kept \cup added) = Cardinality(kept \cup added)
        /\ Polling!Cardinality(Dates) = Cardinality(Dates)
    BY DEF Polling!Cardinality, Cardinality, Polling!IsFiniteSet, IsFiniteSet
  <1>8. QED
    BY <1>4, <1>5, <1>6, <1>7

\* A poll comes to its end.
LEMMA IngestKeeps ==
    ASSUME PollInv, Polling!Ingest
    PROVE  PollInv'
  <1> DEFINE at == pass.at
             lower == Polling!Lower(at)
  <1>1. /\ pass # Polling!Idle
        /\ pollIngested' = pollIngested \cup Polling!Fresh
        /\ seen' = IF Polling!Fresh = {} THEN seen ELSE Polling!Remembered(Polling!Fresh)
        /\ cursor' = at /\ fetched' = pass.asked /\ pass' = Polling!Idle
        /\ UNCHANGED <<pollNow, published, since>>
    BY DEF Polling!Ingest, Polling!CursorAt
  <1>2. /\ pass.rows \subseteq DOMAIN published /\ at \in 0 .. PollTime /\ pass.asked \in Nat
        /\ at <= pass.asked /\ pass.asked <= pollNow
        /\ cursor = Polling!None => since = lower
        /\ \A d \in DOMAIN published :
             published[d] < pass.asked /\ d > lower /\ d <= at => d \in pass.rows
    BY <1>1 DEF PollInv, PassInv
  <1>3. /\ pollNow \in Nat /\ since \in Int /\ DOMAIN published \subseteq Dates
        /\ DOMAIN published \subseteq Nat /\ lower \in Int /\ at \in Nat
        /\ pollIngested \subseteq DOMAIN published /\ seen \subseteq pollIngested
        /\ \A d \in DOMAIN published : published[d] \in Nat
    BY <1>2, PollTypes, LowerIs, DatesAre
  <1>4. Polling!Fresh \subseteq DOMAIN published /\ pass.rows \subseteq pollIngested'
    BY <1>1, <1>2, <1>3 DEF Polling!Fresh
  <1>5. seen' \subseteq seen \cup Polling!Fresh /\ seen' \subseteq pollIngested'
    <2>1. seen' \subseteq seen \cup Polling!Fresh
      BY <1>1, <1>3, <1>4, RememberedIs
    <2>2. QED
      BY <1>1, <1>3, <2>1
  <1>6. Polling!None \notin Nat
    BY DEF Polling!None
  <1>7. Polling!TypeOK'
    <2>1. Polling!Cardinality(seen') <= SeenLimit + Polling!Cardinality(Dates)
      <3>1. CASE Polling!Fresh = {}
        BY <1>1, <3>1 DEF PollInv, Polling!TypeOK
      <3>2. CASE Polling!Fresh # {}
        BY <1>1, <1>3, <1>4, <3>2, RememberedIs
      <3>3. QED
        BY <3>1, <3>2
    <2>2. Polling!Cardinality(seen)' = Polling!Cardinality(seen')
      BY DEF Polling!Cardinality
    <2>3. seen' \subseteq Dates /\ pollIngested' \subseteq DOMAIN published
      BY <1>1, <1>3, <1>4, <1>5
    <2>4. QED
      BY <1>1, <1>2, <1>3, <2>1, <2>2, <2>3 DEF Polling!TypeOK
  <1>8. Dating'
    BY <1>1, <1>2 DEF PollInv, Dating
  <1>9. PassInv'
    BY <1>1 DEF PassInv, Polling!Idle
  <1>10. Polling!NothingMissed'
    <2>1. ASSUME NEW d \in DOMAIN published, d > since, published[d] < pass.asked,
                 published[d] - d < Overlap, d <= at
          PROVE  d \in pollIngested'
      <3>1. d \in Nat /\ published[d] \in Nat
        BY <1>3
      <3>2. CASE d > lower
        BY <1>2, <1>4, <2>1, <3>2
      <3>3. CASE ~(d > lower)
        <4>1. cursor # Polling!None
          BY <1>2, <1>3, <2>1, <3>1, <3>3
        <4>2. lower = cursor - Overlap
          BY <4>1 DEF Polling!Lower
        <4>3. cursor \in Nat /\ fetched \in Nat /\ cursor <= fetched /\ Overlap \in Nat
          BY <4>1, PollTypes, DatesAre
        <4>4. d <= cursor - Overlap
          BY <1>3, <3>1, <3>3, <4>2
        <4>5. published[d] < fetched /\ d <= cursor
          BY <2>1, <3>1, <4>3, <4>4
        <4>6. Polling!OnTime(d)
          BY <2>1, <4>5 DEF Polling!OnTime
        <4>7. d \in pollIngested
          BY <2>1, <4>1, <4>6 DEF PollInv, Polling!NothingMissed
        <4>8. QED
          BY <1>1, <4>7
      <3>4. QED
        BY <3>2, <3>3
    <2>2. QED
      BY <1>1, <2>1 DEF Polling!NothingMissed, Polling!OnTime
  <1>11. QED
    BY <1>5, <1>7, <1>8, <1>9, <1>10 DEF PollInv

\* A new worker.
LEMMA PollRestartKeeps ==
    ASSUME PollInv, Polling!Restart
    PROVE  PollInv'
  <1>1. /\ cursor' = Polling!None /\ seen' = {} /\ pass' = Polling!Idle /\ since' = Polling!None
        /\ fetched' = Polling!None
        /\ UNCHANGED <<pollNow, published, pollIngested>>
    BY DEF Polling!Restart
  <1>2. Polling!Cardinality({}) = 0 /\ Polling!Cardinality(Dates) \in Nat
    <2>1. Cardinality({}) = 0 /\ Cardinality(Dates) \in Nat
      BY FS_EmptySet, FS_CardinalityType, DatesAre
    <2>2. QED
      BY <2>1 DEF Polling!Cardinality, Cardinality, Polling!IsFiniteSet, IsFiniteSet
  <1>3. Polling!TypeOK'
    <2>1. Polling!Cardinality(seen)' = Polling!Cardinality({})
      BY <1>1 DEF Polling!Cardinality
    <2>2. QED
      BY <1>1, <1>2, <2>1, DatesAre DEF PollInv, Polling!TypeOK
  <1>4. Dating'
    BY <1>1 DEF PollInv, Dating, Polling!None
  <1>5. PassInv' /\ Polling!NothingMissed'
    BY <1>1 DEF PassInv, Polling!Idle, Polling!NothingMissed
  <1>6. QED
    BY <1>1, <1>3, <1>4, <1>5 DEF PollInv

LEMMA PollStep ==
    ASSUME PollInv, Polling!Next \/ UNCHANGED pollVars
    PROVE  PollInv'
  BY PollRests, PublishKeeps, FetchKeeps, BusyKeeps, IngestKeeps, PollRestartKeeps
     DEF Polling!Next

(***************************************************************************)
(* The capture of one session.                                             *)
(***************************************************************************)

Progress ==
    [enrolled : BOOLEAN, terminal : BOOLEAN, cancelled : BOOLEAN, ready : BOOLEAN,
     complete : BOOLEAN, reason : {"none", "terminal", "cancelled", "expired_unconfirmed"}]

\* Where a coroutine can be, and what it can have been told.
Stations ==
    {"idle", "cancellations", "enrol_cancelled", "enrol_terminal", "decide", "admit", "poll",
     "consume", "recovered", "recovered_end", "recovered_finished"}

Answers == {"none", "yes", "no"}

\* A coroutine that was told so holds an answer that stays true.
Told ==
    \A t \in Capture!Tasks :
        ans[t] = "yes" /\ Capture!About(capturePc[t]) = "finished" => "finished" \in observed

\* The runner goes on with sessions it has enrolled and not completed.
Running ==
    /\ capturePc["runner"] \in {"enrol_cancelled", "enrol_terminal", "decide", "admit", "poll"} =>
         captureP.enrolled /\ ~captureP.complete
    /\ captureP.complete => captureP.enrolled

CaptureInv ==
    /\ captureP \in Progress
    /\ Capture!TypeOK /\ Told /\ Running /\ Capture!FinishWasObserved
    /\ capturePc \in [Capture!Tasks -> Stations] /\ ans \in [Capture!Tasks -> Answers]

LEMMA TasksAre ==
    /\ Capture!Tasks = {"runner", "consumer", "recovery"}
    /\ "runner" \in Capture!Tasks /\ "consumer" \in Capture!Tasks /\ "recovery" \in Capture!Tasks
  BY DEF Capture!Tasks

\* The state the capture wrote is as it was, and so are the answers.
LEMMA CaptureRests ==
    ASSUME CaptureInv, UNCHANGED <<captureP, room, capturePc, ans>>, observed \subseteq observed',
           observed' \subseteq {"finished", "cancelled"}
    PROVE  CaptureInv'
  <1>1. Told'
    BY DEF CaptureInv, Told
  <1>2. Running' /\ Capture!TypeOK' /\ Capture!FinishWasObserved'
    BY DEF CaptureInv, Running, Capture!TypeOK, Capture!FinishWasObserved, Capture!Reasons
  <1>3. QED
    BY <1>1, <1>2 DEF CaptureInv

\* A coroutine has gone on and forgotten its answer.
LEMMA Resumed ==
    ASSUME CaptureInv, NEW t \in Capture!Tasks, NEW at, NEW after \in Stations,
           Capture!Resume(t, at, after)
    PROVE  /\ capturePc[t] = at /\ capturePc' \in [Capture!Tasks -> Stations]
           /\ capturePc'[t] = after
           /\ \A u \in Capture!Tasks \ {t} : capturePc'[u] = capturePc[u]
           /\ ans' \in [Capture!Tasks -> Answers]
           /\ observed' = observed => Told'
           /\ Capture!About(at) = "finished" /\ Capture!Yes(t) => "finished" \in observed
  <1>1. /\ capturePc[t] = at
        /\ capturePc' = [capturePc EXCEPT ![t] = after] /\ ans' = [ans EXCEPT ![t] = "none"]
        /\ capturePc \in [Capture!Tasks -> Stations] /\ ans \in [Capture!Tasks -> Answers]
    BY DEF CaptureInv, Capture!Resume
  <1>2. /\ capturePc'[t] = after /\ ans'[t] = "none"
        /\ \A u \in Capture!Tasks \ {t} : capturePc'[u] = capturePc[u] /\ ans'[u] = ans[u]
    BY <1>1
  <1>3. ASSUME observed' = observed
        PROVE  Told'
    BY <1>2, <1>3 DEF CaptureInv, Told, Capture!About
  <1>4. Capture!About(at) = "finished" /\ Capture!Yes(t) => "finished" \in observed
    BY <1>1 DEF CaptureInv, Told, Capture!Yes
  <1>5. capturePc' \in [Capture!Tasks -> Stations] /\ ans' \in [Capture!Tasks -> Answers]
    BY <1>1 DEF Answers
  <1>6. QED
    BY <1>1, <1>2, <1>3, <1>4, <1>5

\* The conjuncts that speak of the flags.
LEMMA FlagsKeep ==
    ASSUME CaptureInv, captureP' \in Progress, observed' \subseteq {"finished", "cancelled"},
           observed \subseteq observed',
           captureP'.complete <=> captureP'.reason # "none",
           room' \in {"live", "completed"},
           \/ room' = room \/ "finished" \in observed',
           \/ captureP'.reason \in {captureP.reason, "cancelled", "expired_unconfirmed"}
           \/ "finished" \in observed',
           \/ captureP'.terminal = captureP.terminal \/ captureP'.terminal = FALSE
           \/ "finished" \in observed',
           capturePc' \in [Capture!Tasks -> Stations], ans' \in [Capture!Tasks -> Answers],
           Told', Running'
    PROVE  CaptureInv'
  <1>1. Capture!TypeOK'
    BY DEF Capture!TypeOK, Progress, Capture!Reasons
  <1>2. Capture!FinishWasObserved'
    BY DEF CaptureInv, Capture!FinishWasObserved
  <1>3. QED
    BY <1>1, <1>2 DEF CaptureInv

LEMMA CaptureInit ==
    ASSUME Capture!Init
    PROVE  CaptureInv
  <1>1. /\ observed = {} /\ room = "live"
        /\ captureP = [enrolled |-> FALSE, terminal |-> FALSE, cancelled |-> FALSE,
                       ready |-> FALSE, complete |-> FALSE, reason |-> "none"]
        /\ capturePc = [t \in Capture!Tasks |-> "idle"] /\ ans = [t \in Capture!Tasks |-> "none"]
    BY DEF Capture!Init, Capture!Fresh
  <1>2. captureP \in Progress /\ Capture!TypeOK
    BY <1>1 DEF Progress, Capture!TypeOK, Capture!Reasons
  <1>3. Told
    BY <1>1 DEF Told
  <1>4. Running
    BY <1>1, TasksAre DEF Running
  <1>5. Capture!FinishWasObserved
    BY <1>1 DEF Capture!FinishWasObserved
  <1>6. capturePc \in [Capture!Tasks -> Stations] /\ ans \in [Capture!Tasks -> Answers]
    BY <1>1 DEF Stations, Answers
  <1>7. QED
    BY <1>2, <1>3, <1>4, <1>5, <1>6 DEF CaptureInv

LEMMA SurroundingsKeep ==
    ASSUME CaptureInv,
           Capture!Provider \/ Capture!Expire \/ Capture!Stage \/ Capture!Project
            \/ UNCHANGED captureVars
    PROVE  CaptureInv' /\ UNCHANGED captureP
  <1>1. UNCHANGED <<captureP, room, capturePc, ans, observed>>
    BY DEF Capture!Provider, Capture!Expire, Capture!Stage, Capture!Project, captureVars
  <1>2. observed \subseteq {"finished", "cancelled"}
    BY DEF CaptureInv, Capture!TypeOK
  <1>3. QED
    BY <1>1, <1>2, CaptureRests

LEMMA ReadKeeps ==
    ASSUME CaptureInv, NEW t \in Capture!Tasks, Capture!Read(t)
    PROVE  CaptureInv' /\ UNCHANGED captureP
  <1>1. /\ ans' = [ans EXCEPT ![t] = IF Capture!Observed(Capture!About(capturePc[t])) THEN "yes" ELSE "no"]
        /\ UNCHANGED <<observed, captureP, room, capturePc>>
    BY DEF Capture!Read
  <1>2. ans \in [Capture!Tasks -> Answers] /\ capturePc \in [Capture!Tasks -> Stations]
        /\ captureP \in Progress
    BY DEF CaptureInv
  <1>3. ans' \in [Capture!Tasks -> Answers]
    <2>1. (IF Capture!Observed(Capture!About(capturePc[t])) THEN "yes" ELSE "no") \in Answers
      BY DEF Answers
    <2>2. QED
      BY <1>1, <1>2, <2>1
  <1>4. Told'
    <2>1. ASSUME NEW u \in Capture!Tasks, ans'[u] = "yes",
                 Capture!About(capturePc[u]) = "finished"
          PROVE  "finished" \in observed
      <3>1. CASE u = t
        <4>1. Capture!Observed(Capture!About(capturePc[t]))
          BY <1>1, <1>2, <2>1, <3>1
        <4>2. QED
          BY <2>1, <3>1, <4>1 DEF Capture!Observed
      <3>2. CASE u # t
        BY <1>1, <1>2, <2>1, <3>2 DEF CaptureInv, Told
      <3>3. QED
        BY <3>1, <3>2
    <2>2. QED
      BY <1>1, <2>1 DEF Told, Capture!About
  <1>5. Running'
    BY <1>1 DEF CaptureInv, Running
  <1>6. QED
    BY <1>1, <1>2, <1>3, <1>4, <1>5 DEF CaptureInv, Capture!TypeOK, Capture!FinishWasObserved

\* An observation is committed and announced.
LEMMA CommitKeeps ==
    ASSUME CaptureInv, NEW o \in {"finished", "cancelled"}, Capture!Commit(o)
    PROVE  CaptureInv' /\ captureP'.complete = captureP.complete
                       /\ captureP'.reason = captureP.reason
  <1>1. /\ capturePc["consumer"] = "idle" /\ observed' = observed \cup {o}
        /\ captureP' \in {captureP, [captureP EXCEPT !.cancelled = TRUE],
                          [captureP EXCEPT !.ready = FALSE]}
        /\ capturePc' \in {capturePc, [capturePc EXCEPT !["consumer"] = "consume"]}
        /\ UNCHANGED <<room, ans>>
    BY DEF Capture!Commit
  <1>2. /\ captureP \in Progress /\ observed \subseteq {"finished", "cancelled"}
        /\ capturePc \in [Capture!Tasks -> Stations] /\ ans \in [Capture!Tasks -> Answers]
        /\ captureP.complete <=> captureP.reason # "none"
        /\ room \in {"live", "completed"}
    BY DEF CaptureInv, Capture!TypeOK
  <1>3. /\ captureP' \in Progress
        /\ captureP'.complete = captureP.complete /\ captureP'.reason = captureP.reason
        /\ captureP'.terminal = captureP.terminal /\ captureP'.enrolled = captureP.enrolled
    BY <1>1, <1>2 DEF Progress
  <1>4. capturePc' \in [Capture!Tasks -> Stations] /\ capturePc'["runner"] = capturePc["runner"]
    <2>1. CASE capturePc' = capturePc
      BY <1>2, <2>1
    <2>2. CASE capturePc' = [capturePc EXCEPT !["consumer"] = "consume"]
      BY <1>2, <2>2, TasksAre DEF Stations
    <2>3. QED
      BY <1>1, <2>1, <2>2
  <1>5. Told'
    <2>1. ASSUME NEW u \in Capture!Tasks, ans[u] = "yes",
                 Capture!About(capturePc'[u]) = "finished", "finished" \notin observed
          PROVE  FALSE
      <3>1. CASE capturePc'[u] = capturePc[u]
        BY <2>1, <3>1 DEF CaptureInv, Told
      <3>2. CASE capturePc'[u] # capturePc[u]
        <4>1. capturePc[u] = "idle"
          BY <1>1, <1>2, <3>2
        <4>2. Capture!About(capturePc[u]) = "finished"
          BY <4>1 DEF Capture!About
        <4>3. QED
          BY <2>1, <4>2 DEF CaptureInv, Told
      <3>3. QED
        BY <3>1, <3>2
    <2>2. QED
      BY <1>1, <2>1 DEF Told, Capture!About
  <1>6. Running'
    BY <1>3, <1>4 DEF CaptureInv, Running
  <1>7. QED
    BY <1>1, <1>2, <1>3, <1>4, <1>5, <1>6, FlagsKeep

\* A session that is complete stays so, for its reason, until the process begins again.
Final ==
    captureP.complete /\ captureP'.enrolled =>
      captureP'.complete /\ captureP'.reason = captureP.reason

LEMMA CaptureTypes ==
    ASSUME CaptureInv
    PROVE  /\ captureP \in Progress /\ observed \subseteq {"finished", "cancelled"}
           /\ capturePc \in [Capture!Tasks -> Stations] /\ ans \in [Capture!Tasks -> Answers]
           /\ captureP.complete <=> captureP.reason # "none"
           /\ room \in {"live", "completed"}
  BY DEF CaptureInv, Capture!TypeOK

\* The flags after a coroutine has written an answer into them.
LEMMA Written ==
    ASSUME captureP \in Progress, NEW e \in BOOLEAN, NEW f \in BOOLEAN, NEW after,
           after \in {[captureP EXCEPT !.terminal = e, !.ready = f],
                      [captureP EXCEPT !.cancelled = e, !.ready = f],
                      [captureP EXCEPT !.cancelled = e],
                      [captureP EXCEPT !.ready = e]}
    PROVE  /\ after \in Progress
           /\ after.complete = captureP.complete /\ after.reason = captureP.reason
           /\ after.enrolled = captureP.enrolled
           /\ \/ after.terminal = captureP.terminal
              \/ after.terminal = e /\ after = [captureP EXCEPT !.terminal = e, !.ready = f]
  BY DEF Progress

LEMMA ConsumedKeeps ==
    ASSUME CaptureInv, Capture!Consumed
    PROVE  CaptureInv' /\ Final
  <1> DEFINE e == Capture!Yes("consumer")
  <1>1. /\ Capture!Resume("consumer", "consume", "idle")
        /\ captureP' = [captureP EXCEPT !.terminal = e, !.ready = TRUE]
        /\ observed' = observed /\ room' = room
    BY DEF Capture!Consumed
  <1>2. e \in BOOLEAN
    BY DEF Capture!Yes
  <1>3. /\ capturePc' \in [Capture!Tasks -> Stations] /\ ans' \in [Capture!Tasks -> Answers]
        /\ Told' /\ capturePc'["runner"] = capturePc["runner"]
        /\ e => "finished" \in observed
    <2>1. "idle" \in Stations /\ Capture!About("consume") = "finished"
      BY DEF Stations, Capture!About
    <2>2. QED
      BY <1>1, <2>1, Resumed, TasksAre
  <1> HIDE DEF e
  <1>4. /\ captureP' \in Progress
        /\ captureP'.complete = captureP.complete /\ captureP'.reason = captureP.reason
        /\ captureP'.enrolled = captureP.enrolled
        /\ captureP'.terminal = captureP.terminal \/ captureP'.terminal = e
    BY <1>1, <1>2, Written, CaptureTypes
  <1>5. Running'
    BY <1>3, <1>4 DEF CaptureInv, Running
  <1>6. CaptureInv'
    BY <1>1, <1>2, <1>3, <1>4, <1>5, FlagsKeep, CaptureTypes
  <1>7. Final
    BY <1>4 DEF Final
  <1>8. QED
    BY <1>6, <1>7

LEMMA RecoverKeeps ==
    ASSUME CaptureInv, Capture!Recover
    PROVE  CaptureInv' /\ Final
  <1>1. /\ capturePc["recovery"] = "idle"
        /\ captureP' = [captureP EXCEPT !.ready = FALSE]
        /\ capturePc' \in {[capturePc EXCEPT !["recovery"] = "recovered_end"],
                           [capturePc EXCEPT !["recovery"] = "recovered"]}
        /\ observed' = observed /\ room' = room /\ ans' = ans
    BY DEF Capture!Recover
  <1>2. /\ captureP' \in Progress
        /\ captureP'.complete = captureP.complete /\ captureP'.reason = captureP.reason
        /\ captureP'.enrolled = captureP.enrolled
        /\ captureP'.terminal = captureP.terminal
    BY <1>1, CaptureTypes DEF Progress
  <1>3. /\ capturePc' \in [Capture!Tasks -> Stations] /\ capturePc'["runner"] = capturePc["runner"]
        /\ capturePc'["recovery"] \in {"recovered", "recovered_end"}
        /\ \A t \in Capture!Tasks \ {"recovery"} : capturePc'[t] = capturePc[t]
    <2>1. capturePc \in [Capture!Tasks -> Stations]
      BY CaptureTypes
    <2>2. CASE capturePc' = [capturePc EXCEPT !["recovery"] = "recovered_end"]
      BY <2>1, <2>2, TasksAre DEF Stations
    <2>3. CASE capturePc' = [capturePc EXCEPT !["recovery"] = "recovered"]
      BY <2>1, <2>3, TasksAre DEF Stations
    <2>4. QED
      BY <1>1, <2>2, <2>3
  <1>4. Told'
    <2>1. ASSUME NEW t \in Capture!Tasks, ans[t] = "yes",
                 Capture!About(capturePc'[t]) = "finished"
          PROVE  "finished" \in observed
      <3>1. t # "recovery"
        BY <1>3, <2>1 DEF Capture!About
      <3>2. QED
        BY <1>3, <2>1, <3>1 DEF CaptureInv, Told
    <2>2. QED
      BY <1>1, <2>1 DEF Told, Capture!About
  <1>5. Running'
    BY <1>2, <1>3 DEF CaptureInv, Running
  <1>6. CaptureInv'
    BY <1>1, <1>2, <1>3, <1>4, <1>5, FlagsKeep, CaptureTypes
  <1>7. QED
    BY <1>2, <1>6 DEF Final

LEMMA RecoveredKeeps ==
    ASSUME CaptureInv, Capture!Recovered
    PROVE  CaptureInv' /\ Final
  <1> DEFINE e == Capture!Yes("recovery")
  <1>1. observed' = observed /\ room' = room
    BY DEF Capture!Recovered
  <1>2. e \in BOOLEAN /\ captureP.cancelled \in BOOLEAN /\ captureP \in Progress
    BY CaptureTypes DEF Capture!Yes, Progress
  <1>3. (captureP.cancelled \/ e) \in BOOLEAN
    OBVIOUS
  <1>4. \/ /\ Capture!Resume("recovery", "recovered", "idle")
           /\ captureP' = [captureP EXCEPT !.cancelled = captureP.cancelled \/ e, !.ready = TRUE]
        \/ /\ Capture!Resume("recovery", "recovered_end", "recovered_finished")
           /\ captureP' = [captureP EXCEPT !.cancelled = captureP.cancelled \/ e, !.ready = FALSE]
        \/ /\ Capture!Resume("recovery", "recovered_finished", "idle")
           /\ captureP' = [captureP EXCEPT !.terminal = e, !.ready = TRUE]
    BY DEF Capture!Recovered
  <1>5. "idle" \in Stations /\ "recovered_finished" \in Stations
        /\ Capture!About("recovered_finished") = "finished"
    BY DEF Stations, Capture!About
  <1>6. /\ capturePc' \in [Capture!Tasks -> Stations] /\ ans' \in [Capture!Tasks -> Answers]
        /\ Told' /\ capturePc'["runner"] = capturePc["runner"]
    <2>1. PICK at, after \in Stations : Capture!Resume("recovery", at, after)
      BY <1>4 DEF Stations
    <2>2. QED
      BY <1>1, <2>1, Resumed, TasksAre
  <1>7. Capture!Resume("recovery", "recovered_finished", "idle") /\ e => "finished" \in observed
    BY <1>5, Resumed, TasksAre
  <1> HIDE DEF e
  <1>8. /\ captureP' \in Progress
        /\ captureP'.complete = captureP.complete /\ captureP'.reason = captureP.reason
        /\ captureP'.enrolled = captureP.enrolled
        /\ \/ captureP'.terminal = captureP.terminal
           \/ captureP'.terminal = FALSE
           \/ "finished" \in observed
    <2>1. CASE captureP' = [captureP EXCEPT !.terminal = e, !.ready = TRUE]
               /\ Capture!Resume("recovery", "recovered_finished", "idle")
      BY <1>2, <1>7, <2>1 DEF Progress
    <2>2. CASE \E f \in BOOLEAN :
                 captureP' = [captureP EXCEPT !.cancelled = captureP.cancelled \/ e, !.ready = f]
      <3>1. PICK f \in BOOLEAN :
              captureP' = [captureP EXCEPT !.cancelled = captureP.cancelled \/ e, !.ready = f]
        BY <2>2
      <3>2. PICK b \in BOOLEAN : captureP' = [captureP EXCEPT !.cancelled = b, !.ready = f]
        BY <1>3, <3>1
      <3>3. QED
        BY <1>2, <3>2 DEF Progress
    <2>3. QED
      BY <1>4, <2>1, <2>2
  <1>9. Running'
    BY <1>6, <1>8 DEF CaptureInv, Running
  <1>10. CaptureInv'
    BY <1>1, <1>6, <1>8, <1>9, FlagsKeep, CaptureTypes
  <1>11. QED
    BY <1>8, <1>10 DEF Final

\* What ends a session for the runner, when it asks with no terminal answer.
LEMMA PolicyIs ==
    ASSUME NEW cancelled_ \in BOOLEAN
    PROVE  Capture!Policy(FALSE, cancelled_) \in {"cancelled", "expired_unconfirmed", "watching"}
  BY DEF Capture!Policy

\* A session that the runner stops.
LEMMA StoppedFlags ==
    ASSUME captureP \in Progress, NEW reason \in {"cancelled", "expired_unconfirmed"},
           NEW b \in BOOLEAN, NEW after,
           after = [captureP EXCEPT !.complete = TRUE, !.reason = reason, !.ready = TRUE,
                                    !.cancelled = b]
    PROVE  /\ after \in Progress /\ after.complete = TRUE /\ after.reason = reason
           /\ after.enrolled = captureP.enrolled /\ after.terminal = captureP.terminal
  BY DEF Progress

LEMMA PassBegins ==
    ASSUME CaptureInv, Capture!Begin
    PROVE  CaptureInv' /\ Final
  <1>1. /\ capturePc["runner"] = "idle"
        /\ capturePc' = [capturePc EXCEPT !["runner"] = "cancellations"]
        /\ UNCHANGED <<observed, room, captureP, ans>>
    BY DEF Capture!Begin
  <1>2. /\ capturePc' \in [Capture!Tasks -> Stations] /\ capturePc'["runner"] = "cancellations"
        /\ \A t \in Capture!Tasks \ {"runner"} : capturePc'[t] = capturePc[t]
    BY <1>1, CaptureTypes, TasksAre DEF Stations
  <1>3. Told'
    <2>1. ASSUME NEW t \in Capture!Tasks, ans[t] = "yes",
                 Capture!About(capturePc'[t]) = "finished"
          PROVE  "finished" \in observed
      <3>1. t # "runner"
        BY <1>2, <2>1 DEF Capture!About
      <3>2. QED
        BY <1>2, <2>1, <3>1 DEF CaptureInv, Told
    <2>2. QED
      BY <1>1, <2>1 DEF Told, Capture!About
  <1>4. Running'
    BY <1>1, <1>2 DEF CaptureInv, Running
  <1>5. CaptureInv'
    BY <1>1, <1>2, <1>3, <1>4, FlagsKeep, CaptureTypes
  <1>6. QED
    BY <1>1, <1>5 DEF Final

\* The cancellations of the pass are known: a session is enrolled, stopped or looked at.
LEMMA SelectKeeps ==
    ASSUME CaptureInv, Capture!Select
    PROVE  CaptureInv' /\ Final
  <1> DEFINE cancelled_ == Capture!Yes("runner") \/ metadata = "cancelled"
             active == Capture!Policy(FALSE, cancelled_) = "watching"
             reason == Capture!Policy(FALSE, cancelled_ \/ captureP.cancelled)
             stop == captureP.enrolled /\ ~captureP.complete /\ reason # "watching"
             after == IF ~captureP.enrolled THEN IF active THEN "enrol_cancelled" ELSE "idle"
                      ELSE IF captureP.complete \/ stop THEN "idle" ELSE "decide"
  <1>1. /\ Capture!Resume("runner", "cancellations", after)
        /\ captureP' = IF stop
                       THEN [captureP EXCEPT !.complete = TRUE, !.reason = reason, !.ready = TRUE,
                               !.cancelled = captureP.cancelled \/ reason = "cancelled"]
                       ELSE IF ~captureP.enrolled /\ active THEN [captureP EXCEPT !.enrolled = TRUE]
                       ELSE captureP
        /\ observed' = observed /\ room' = room
    BY DEF Capture!Select
  <1>2. /\ captureP \in Progress /\ captureP.cancelled \in BOOLEAN
        /\ captureP.complete \in BOOLEAN /\ captureP.enrolled \in BOOLEAN
        /\ captureP.complete => captureP.enrolled
        /\ captureP.complete <=> captureP.reason # "none"
    BY CaptureTypes DEF CaptureInv, Running, Progress
  <1>3. reason \in {"cancelled", "expired_unconfirmed", "watching"}
    <2>1. (cancelled_ \/ captureP.cancelled) \in BOOLEAN
      OBVIOUS
    <2>2. QED
      BY <2>1, PolicyIs
  <1>4. after \in Stations
    BY DEF Stations
  <1>5. (captureP.cancelled \/ reason = "cancelled") \in BOOLEAN
    OBVIOUS
  <1> HIDE DEF cancelled_, active, reason
  <1>6. /\ capturePc' \in [Capture!Tasks -> Stations] /\ ans' \in [Capture!Tasks -> Answers]
        /\ Told' /\ capturePc'["runner"] = after
    <2> HIDE DEF after
    <2>1. QED
      BY <1>1, <1>4, Resumed, TasksAre
  <1>7. CASE stop
    <2>1. /\ captureP' \in Progress /\ captureP'.complete = TRUE
          /\ captureP'.reason \in {"cancelled", "expired_unconfirmed"}
          /\ captureP'.enrolled = captureP.enrolled /\ captureP'.terminal = captureP.terminal
      <3>1. PICK b \in BOOLEAN :
              captureP' = [captureP EXCEPT !.complete = TRUE, !.reason = reason, !.ready = TRUE,
                                           !.cancelled = b]
        BY <1>1, <1>5, <1>7
      <3>2. reason \in {"cancelled", "expired_unconfirmed"}
        BY <1>3, <1>7
      <3>3. QED
        BY <1>2, <3>1, <3>2, StoppedFlags
    <2>2. after = "idle"
      BY <1>7
    <2>3. Running'
      BY <1>6, <1>7, <2>1, <2>2 DEF Running
    <2>4. CaptureInv'
      BY <1>1, <1>6, <2>1, <2>3, FlagsKeep, CaptureTypes
    <2>5. QED
      BY <1>7, <2>4 DEF Final
  <1>8. CASE ~stop /\ ~captureP.enrolled /\ active
    <2>1. captureP' = [captureP EXCEPT !.enrolled = TRUE]
      BY <1>1, <1>8
    <2>2. /\ captureP' \in Progress /\ captureP'.complete = captureP.complete
          /\ captureP'.reason = captureP.reason /\ captureP'.enrolled = TRUE
          /\ captureP'.terminal = captureP.terminal
      BY <1>2, <2>1 DEF Progress
    <2>3. ~captureP.complete
      BY <1>2, <1>8
    <2>4. Running'
      BY <1>6, <2>2, <2>3 DEF Running
    <2>5. CaptureInv'
      BY <1>1, <1>2, <1>6, <2>2, <2>4, FlagsKeep, CaptureTypes
    <2>6. QED
      BY <2>3, <2>5 DEF Final
  <1>9. CASE ~stop /\ ~(~captureP.enrolled /\ active)
    <2>1. captureP' = captureP
      BY <1>1, <1>9
    <2>2. Running'
      BY <1>2, <1>6, <1>9, <2>1 DEF Running
    <2>3. CaptureInv'
      BY <1>1, <1>2, <1>6, <2>1, <2>2, FlagsKeep, CaptureTypes
    <2>4. QED
      BY <2>1, <2>3 DEF Final
  <1>10. QED
    BY <1>7, <1>8, <1>9

LEMMA EnrolCancelledKeeps ==
    ASSUME CaptureInv, Capture!EnrolCancelled
    PROVE  CaptureInv' /\ Final
  <1>1. /\ Capture!Resume("runner", "enrol_cancelled", "enrol_terminal")
        /\ captureP' = [captureP EXCEPT !.cancelled = Capture!Yes("runner")]
        /\ observed' = observed /\ room' = room
    BY DEF Capture!EnrolCancelled
  <1>2. "enrol_terminal" \in Stations /\ Capture!Yes("runner") \in BOOLEAN
    BY DEF Stations, Capture!Yes
  <1>3. /\ capturePc' \in [Capture!Tasks -> Stations] /\ ans' \in [Capture!Tasks -> Answers]
        /\ Told' /\ capturePc["runner"] = "enrol_cancelled"
    BY <1>1, <1>2, Resumed, TasksAre
  <1>4. /\ captureP' \in Progress
        /\ captureP'.complete = captureP.complete /\ captureP'.reason = captureP.reason
        /\ captureP'.enrolled = captureP.enrolled /\ captureP'.terminal = captureP.terminal
    <2>1. PICK b \in BOOLEAN : captureP' = [captureP EXCEPT !.cancelled = b]
      BY <1>1, <1>2
    <2>2. QED
      BY <2>1, CaptureTypes DEF Progress
  <1>5. Running'
    BY <1>3, <1>4 DEF CaptureInv, Running
  <1>6. CaptureInv'
    BY <1>1, <1>3, <1>4, <1>5, FlagsKeep, CaptureTypes
  <1>7. QED
    BY <1>4, <1>6 DEF Final

\* What a terminal answer makes of the session.
LEMMA Completed ==
    ASSUME CaptureInv, NEW at, at \in {"enrol_terminal", "poll"},
           NEW after \in Stations, after \in {"idle", "decide"},
           Capture!Resume("runner", at, after), observed' = observed,
           IF Capture!Yes("runner")
           THEN /\ captureP' \in {[captureP EXCEPT !.terminal = TRUE, !.complete = TRUE,
                                                   !.reason = "terminal"],
                                  [captureP EXCEPT !.complete = TRUE, !.reason = "terminal"]}
                /\ room' = "completed" /\ after = "idle"
           ELSE UNCHANGED <<captureP, room>>
    PROVE  CaptureInv' /\ Final
  <1>1. Capture!About(at) = "finished"
    BY DEF Capture!About
  <1>2. /\ capturePc' \in [Capture!Tasks -> Stations] /\ ans' \in [Capture!Tasks -> Answers]
        /\ Told' /\ capturePc["runner"] = at /\ capturePc'["runner"] = after
        /\ Capture!Yes("runner") => "finished" \in observed
    BY <1>1, Resumed, TasksAre
  <1>3. captureP.enrolled /\ ~captureP.complete /\ captureP \in Progress
    BY <1>2, CaptureTypes DEF CaptureInv, Running
  <1>4. CASE Capture!Yes("runner")
    <2>1. /\ captureP' \in Progress /\ captureP'.complete = TRUE /\ captureP'.reason = "terminal"
          /\ captureP'.enrolled = captureP.enrolled
      BY <1>3, <1>4 DEF Progress
    <2>2. Running'
      BY <1>2, <1>3, <1>4, <2>1 DEF Running
    <2>3. CaptureInv'
      BY <1>2, <1>4, <2>1, <2>2, FlagsKeep, CaptureTypes
    <2>4. QED
      BY <1>3, <2>3 DEF Final
  <1>5. CASE ~Capture!Yes("runner")
    <2>1. captureP' = captureP /\ room' = room
      BY <1>5
    <2>2. Running'
      BY <1>3, <2>1 DEF Running
    <2>3. CaptureInv'
      BY <1>2, <2>1, <2>2, FlagsKeep, CaptureTypes
    <2>4. QED
      BY <2>1, <2>3 DEF Final
  <1>6. QED
    BY <1>4, <1>5

LEMMA EndsKeep ==
    ASSUME CaptureInv, Capture!EnrolTerminal \/ Capture!Poll
    PROVE  CaptureInv' /\ Final
  <1>1. "idle" \in Stations /\ "decide" \in Stations
    BY DEF Stations
  <1>2. CASE Capture!EnrolTerminal
    <2> DEFINE after == IF Capture!Yes("runner") THEN "idle" ELSE "decide"
    <2>1. /\ Capture!Resume("runner", "enrol_terminal", after) /\ observed' = observed
          /\ IF Capture!Yes("runner")
             THEN /\ captureP' = [captureP EXCEPT !.terminal = TRUE, !.complete = TRUE,
                                                  !.reason = "terminal"]
                  /\ room' = "completed"
             ELSE UNCHANGED <<captureP, room>>
      BY <1>2 DEF Capture!EnrolTerminal
    <2>2. after \in Stations /\ after \in {"idle", "decide"} /\ (Capture!Yes("runner") => after = "idle")
      BY <1>1
    <2> HIDE DEF after
    <2>3. QED
      BY <2>1, <2>2, Completed
  <1>3. CASE Capture!Poll
    <2>1. /\ Capture!Resume("runner", "poll", "idle") /\ observed' = observed
          /\ IF Capture!Yes("runner")
             THEN /\ captureP' = [captureP EXCEPT !.complete = TRUE, !.reason = "terminal"]
                  /\ room' = "completed"
             ELSE UNCHANGED <<captureP, room>>
      BY <1>3 DEF Capture!Poll
    <2>2. QED
      BY <1>1, <2>1, Completed
  <1>4. QED
    BY <1>2, <1>3

\* The runner looks at the flags and the provider's row.
LEMMA DecideKeeps ==
    ASSUME CaptureInv, Capture!Decide
    PROVE  CaptureInv' /\ Final
  <1> DEFINE reason == Capture!Policy(FALSE, captureP.cancelled \/ metadata = "cancelled")
             stop == reason # "watching"
             after == IF stop \/ metadata = "absent" THEN "idle"
                      ELSE IF captureP.ready THEN "poll" ELSE "admit"
  <1>1. /\ capturePc["runner"] = "decide"
        /\ capturePc' = [capturePc EXCEPT !["runner"] = after]
        /\ captureP' = IF stop
                       THEN [captureP EXCEPT !.complete = TRUE, !.reason = reason, !.ready = TRUE,
                               !.cancelled = captureP.cancelled \/ reason = "cancelled"]
                       ELSE IF metadata = "absent" THEN [captureP EXCEPT !.ready = FALSE]
                       ELSE captureP
        /\ observed' = observed /\ room' = room /\ ans' = ans
    BY DEF Capture!Decide
  <1>2. captureP \in Progress /\ captureP.enrolled /\ ~captureP.complete
    BY <1>1, CaptureTypes DEF CaptureInv, Running
  <1>3. reason \in {"cancelled", "expired_unconfirmed", "watching"}
    <2>1. (captureP.cancelled \/ metadata = "cancelled") \in BOOLEAN
      OBVIOUS
    <2>2. QED
      BY <2>1, PolicyIs
  <1>4. (captureP.cancelled \/ reason = "cancelled") \in BOOLEAN
    OBVIOUS
  <1>5. after \in {"idle", "poll", "admit"} /\ (stop => after = "idle")
    OBVIOUS
  <1> HIDE DEF reason, after
  <1>6. /\ capturePc' \in [Capture!Tasks -> Stations] /\ capturePc'["runner"] = after
        /\ \A t \in Capture!Tasks \ {"runner"} : capturePc'[t] = capturePc[t]
    <2>1. after \in Stations
      BY <1>5 DEF Stations
    <2>2. QED
      BY <1>1, <2>1, CaptureTypes, TasksAre
  <1>7. Told'
    <2>1. ASSUME NEW t \in Capture!Tasks, ans[t] = "yes",
                 Capture!About(capturePc'[t]) = "finished"
          PROVE  "finished" \in observed
      <3>1. CASE t = "runner"
        <4>1. Capture!About(capturePc["runner"]) = "finished"
          BY <1>1 DEF Capture!About
        <4>2. QED
          BY <2>1, <3>1, <4>1 DEF CaptureInv, Told
      <3>2. CASE t # "runner"
        BY <1>6, <2>1, <3>2 DEF CaptureInv, Told
      <3>3. QED
        BY <3>1, <3>2
    <2>2. QED
      BY <1>1, <2>1 DEF Told, Capture!About
  <1>8. Final
    BY <1>2 DEF Final
  <1>9. CASE stop
    <2>1. PICK b \in BOOLEAN :
            captureP' = [captureP EXCEPT !.complete = TRUE, !.reason = reason, !.ready = TRUE,
                                         !.cancelled = b]
      BY <1>1, <1>4, <1>9
    <2>2. reason \in {"cancelled", "expired_unconfirmed"}
      BY <1>3, <1>9
    <2>3. /\ captureP' \in Progress /\ captureP'.complete = TRUE
          /\ captureP'.reason \in {"cancelled", "expired_unconfirmed"}
          /\ captureP'.enrolled = captureP.enrolled /\ captureP'.terminal = captureP.terminal
      BY <1>2, <2>1, <2>2, StoppedFlags
    <2>4. Running'
      BY <1>2, <1>5, <1>6, <1>9, <2>3 DEF Running
    <2>5. QED
      BY <1>1, <1>6, <1>7, <1>8, <2>3, <2>4, FlagsKeep, CaptureTypes
  <1>10. CASE ~stop
    <2>1. /\ captureP' \in Progress /\ captureP'.complete = captureP.complete
          /\ captureP'.reason = captureP.reason
          /\ captureP'.enrolled = captureP.enrolled /\ captureP'.terminal = captureP.terminal
      BY <1>1, <1>2, <1>10 DEF Progress
    <2>2. Running'
      BY <1>2, <2>1 DEF Running
    <2>3. QED
      BY <1>1, <1>6, <1>7, <1>8, <2>1, <2>2, FlagsKeep, CaptureTypes
  <1>11. QED
    BY <1>9, <1>10

LEMMA AdmitKeeps ==
    ASSUME CaptureInv, Capture!Admit
    PROVE  CaptureInv' /\ Final
  <1> DEFINE e == Capture!Yes("runner")
  <1>1. /\ Capture!Resume("runner", "admit", "poll")
        /\ captureP' = [captureP EXCEPT !.terminal = e, !.ready = TRUE]
        /\ observed' = observed /\ room' = room
    BY DEF Capture!Admit
  <1>2. e \in BOOLEAN
    BY DEF Capture!Yes
  <1>3. /\ capturePc' \in [Capture!Tasks -> Stations] /\ ans' \in [Capture!Tasks -> Answers]
        /\ Told' /\ capturePc["runner"] = "admit"
        /\ e => "finished" \in observed
    <2>1. "poll" \in Stations /\ Capture!About("admit") = "finished"
      BY DEF Stations, Capture!About
    <2>2. QED
      BY <1>1, <2>1, Resumed, TasksAre
  <1> HIDE DEF e
  <1>4. /\ captureP' \in Progress
        /\ captureP'.complete = captureP.complete /\ captureP'.reason = captureP.reason
        /\ captureP'.enrolled = captureP.enrolled
        /\ captureP'.terminal = captureP.terminal \/ captureP'.terminal = e
    BY <1>1, <1>2, Written, CaptureTypes
  <1>5. Running'
    BY <1>3, <1>4 DEF CaptureInv, Running
  <1>6. CaptureInv'
    BY <1>1, <1>2, <1>3, <1>4, <1>5, FlagsKeep, CaptureTypes
  <1>7. QED
    BY <1>4, <1>6 DEF Final

LEMMA PollFailsKeeps ==
    ASSUME CaptureInv, Capture!PollFails
    PROVE  CaptureInv' /\ Final
  <1>1. /\ capturePc["runner"] = "poll" /\ ans["runner"] = "none"
        /\ capturePc' = [capturePc EXCEPT !["runner"] = "idle"]
        /\ UNCHANGED <<observed, room, captureP, ans>>
    BY DEF Capture!PollFails
  <1>2. /\ capturePc' \in [Capture!Tasks -> Stations] /\ capturePc'["runner"] = "idle"
        /\ \A t \in Capture!Tasks \ {"runner"} : capturePc'[t] = capturePc[t]
    BY <1>1, CaptureTypes, TasksAre DEF Stations
  <1>3. Told'
    <2>1. ASSUME NEW t \in Capture!Tasks, ans[t] = "yes",
                 Capture!About(capturePc'[t]) = "finished"
          PROVE  "finished" \in observed
      BY <1>1, <1>2, <2>1 DEF CaptureInv, Told
    <2>2. QED
      BY <1>1, <2>1 DEF Told, Capture!About
  <1>4. Running'
    BY <1>1, <1>2 DEF CaptureInv, Running
  <1>5. CaptureInv'
    BY <1>1, <1>2, <1>3, <1>4, FlagsKeep, CaptureTypes
  <1>6. QED
    BY <1>1, <1>5 DEF Final

LEMMA CaptureRestartKeeps ==
    ASSUME CaptureInv, Capture!Restart
    PROVE  CaptureInv' /\ Final
  <1>1. /\ captureP' = [enrolled |-> FALSE, terminal |-> FALSE, cancelled |-> FALSE,
                        ready |-> FALSE, complete |-> FALSE, reason |-> "none"]
        /\ capturePc' = [t \in Capture!Tasks |-> "idle"] /\ ans' = [t \in Capture!Tasks |-> "none"]
        /\ observed' = observed /\ room' = room
    BY DEF Capture!Restart, Capture!Fresh
  <1>2. /\ captureP' \in Progress /\ captureP'.complete = FALSE /\ captureP'.reason = "none"
        /\ captureP'.enrolled = FALSE /\ captureP'.terminal = FALSE
    BY <1>1 DEF Progress
  <1>3. capturePc' \in [Capture!Tasks -> Stations] /\ ans' \in [Capture!Tasks -> Answers]
    BY <1>1 DEF Stations, Answers
  <1>4. Told' /\ Running'
    BY <1>1, <1>2, TasksAre DEF Told, Running
  <1>5. CaptureInv'
    <2>1. /\ Capture!TypeOK' /\ Capture!FinishWasObserved'
      BY <1>1, <1>2, CaptureTypes
         DEF CaptureInv, Capture!TypeOK, Capture!FinishWasObserved, Progress, Capture!Reasons
    <2>2. QED
      BY <1>2, <1>3, <1>4, <2>1 DEF CaptureInv
  <1>6. QED
    BY <1>2, <1>5 DEF Final

\* Each step keeps the invariant, and what was decided.
LEMMA CaptureStep ==
    ASSUME CaptureInv,
           \/ Capture!Next \/ UNCHANGED captureVars
           \/ UNCHANGED <<captureP, room, capturePc, ans, observed>>
    PROVE  CaptureInv' /\ Final
  <1>1. CASE UNCHANGED <<captureP, room, capturePc, ans, observed>>
    <2>1. observed \subseteq {"finished", "cancelled"}
      BY DEF CaptureInv, Capture!TypeOK
    <2>2. QED
      BY <1>1, <2>1, CaptureRests DEF Final
  <1>2. CASE Capture!Runner
    BY <1>2, PassBegins, SelectKeeps, EnrolCancelledKeeps, EndsKeep, DecideKeeps, AdmitKeeps
       DEF Capture!Runner
  <1>3. CASE Capture!Provider \/ Capture!Expire \/ Capture!Stage \/ Capture!Project
             \/ UNCHANGED captureVars
    BY <1>3, SurroundingsKeep DEF Final
  <1>4. CASE \E t \in Capture!Tasks : Capture!Read(t)
    BY <1>4, ReadKeeps DEF Final
  <1>5. CASE \E o \in {"finished", "cancelled"} : Capture!Commit(o)
    BY <1>5, CommitKeeps DEF Final
  <1>6. CASE Capture!PollFails \/ Capture!Restart \/ Capture!Recover \/ Capture!Recovered
             \/ Capture!Consumed
    BY <1>6, PollFailsKeeps, CaptureRestartKeeps, RecoverKeeps, RecoveredKeeps, ConsumedKeeps
  <1>7. QED
    BY <1>1, <1>2, <1>3, <1>4, <1>5, <1>6 DEF Capture!Next

\* A step of the capture with a provider row that stays is a step of the capture.
LEMMA EndIsCapture ==
    ASSUME CaptureEnd!Next
    PROVE  Capture!Next \/ UNCHANGED <<captureP, room, capturePc, ans, observed>>
  <1>1. ASSUME NEW t PROVE CaptureEnd!Read(t) => Capture!Read(t)
    BY DEF CaptureEnd!Read, Capture!Read, CaptureEnd!Observed, Capture!Observed,
           CaptureEnd!About, Capture!About
  <1>2. ASSUME NEW o PROVE CaptureEnd!Commit(o) => Capture!Commit(o)
    BY DEF CaptureEnd!Commit, Capture!Commit
  <1>3. CaptureEnd!Stage \/ CaptureEnd!Provider =>
          UNCHANGED <<captureP, room, capturePc, ans, observed>>
    BY DEF CaptureEnd!Stage, CaptureEnd!Provider
  <1>4. CaptureEnd!Project => Capture!Project
    BY DEF CaptureEnd!Project, Capture!Project
  <1>5. CaptureEnd!Expire => Capture!Expire
    BY DEF CaptureEnd!Expire, Capture!Expire
  <1>6. CaptureEnd!Consumed => Capture!Consumed
    BY DEF CaptureEnd!Consumed, Capture!Consumed, CaptureEnd!Resume, Capture!Resume,
           CaptureEnd!Yes, Capture!Yes
  <1>7. CaptureEnd!Recover => Capture!Recover
    BY DEF CaptureEnd!Recover, Capture!Recover
  <1>8. CaptureEnd!Recovered => Capture!Recovered
    BY DEF CaptureEnd!Recovered, Capture!Recovered, CaptureEnd!Resume, Capture!Resume,
           CaptureEnd!Yes, Capture!Yes
  <1>9. CaptureEnd!Begin => Capture!Begin
    BY DEF CaptureEnd!Begin, Capture!Begin
  <1>10. ASSUME NEW a, NEW b PROVE CaptureEnd!Policy(a, b) = Capture!Policy(a, b)
    BY DEF CaptureEnd!Policy, Capture!Policy
  <1>11. CaptureEnd!Select => Capture!Select
    BY <1>10 DEF CaptureEnd!Select, Capture!Select, CaptureEnd!Resume, Capture!Resume,
           CaptureEnd!Yes, Capture!Yes
  <1>12. CaptureEnd!EnrolCancelled => Capture!EnrolCancelled
    BY DEF CaptureEnd!EnrolCancelled, Capture!EnrolCancelled, CaptureEnd!Resume, Capture!Resume,
           CaptureEnd!Yes, Capture!Yes
  <1>13. CaptureEnd!EnrolTerminal => Capture!EnrolTerminal
    BY DEF CaptureEnd!EnrolTerminal, Capture!EnrolTerminal, CaptureEnd!Resume, Capture!Resume,
           CaptureEnd!Yes, Capture!Yes
  <1>14. CaptureEnd!Decide => Capture!Decide
    BY <1>10 DEF CaptureEnd!Decide, Capture!Decide
  <1>15. CaptureEnd!Admit => Capture!Admit
    BY DEF CaptureEnd!Admit, Capture!Admit, CaptureEnd!Resume, Capture!Resume,
           CaptureEnd!Yes, Capture!Yes
  <1>16. CaptureEnd!Poll => Capture!Poll
    BY DEF CaptureEnd!Poll, Capture!Poll, CaptureEnd!Resume, Capture!Resume,
           CaptureEnd!Yes, Capture!Yes
  <1>17. CaptureEnd!PollFails => Capture!PollFails
    BY DEF CaptureEnd!PollFails, Capture!PollFails
  <1>18. CaptureEnd!Restart => Capture!Restart
    BY DEF CaptureEnd!Restart, Capture!Restart, CaptureEnd!Fresh, Capture!Fresh,
           CaptureEnd!Tasks, Capture!Tasks
  <1>19. CaptureEnd!Runner => Capture!Runner
    BY <1>9, <1>11, <1>12, <1>13, <1>14, <1>15, <1>16 DEF CaptureEnd!Runner, Capture!Runner
  <1>20. (\E t \in CaptureEnd!Tasks : CaptureEnd!Read(t)) => \E t \in Capture!Tasks : Capture!Read(t)
    BY <1>1 DEF CaptureEnd!Tasks, Capture!Tasks
  <1>21. QED
    BY <1>2, <1>3, <1>4, <1>5, <1>6, <1>7, <1>8, <1>17, <1>18, <1>19, <1>20
       DEF CaptureEnd!Next, Capture!Next

(***************************************************************************)
(* The provider's client.                                                  *)
(***************************************************************************)

Fields == {"at", "key", "ttl", "began", "attempt", "again", "wake", "sent"}

Underway == {"throttle", "slot", "token", "refresh", "asking", "sent", "pause"}

\* What is so of caller c whose call is r, at time t, when the next slot is at slot and
\* the throttle is in the hands of holder.
Sound(r, c, t, slot, holder) ==
    /\ r.at \in Client!Places
    /\ r.at \in Underway =>
         /\ DOMAIN r = Fields
         /\ r.key \in Keys /\ r.ttl \in Ttls /\ r.attempt \in Nat
         /\ r.began \in Nat /\ r.began <= t
    /\ r.at = "sent" => r.sent \in Nat /\ r.began <= r.sent /\ r.sent <= t
    /\ r.at = "slot" => holder = c /\ r.wake \in Nat /\ slot <= r.wake
    /\ r.at = "answered" /\ r.ttl = 0 => r.rows >= r.began

CallsSound ==
    /\ DOMAIN call = Callers
    /\ \A c \in Callers : Sound(call[c], c, clientNow, next, pacing)

ClientInv == Client!TypeOK /\ CallsSound

LEMMA ClientConstants ==
    /\ Client!Free \notin Callers /\ Attempts \in Nat /\ Interval \in Nat /\ Lifetime \in Nat
    /\ Ttls \subseteq Nat /\ LastStart \in Nat /\ Lifetime > 0
  BY PartsAssumption DEF PartsAssumption, Client!CallersAssumption, Client!BoundsAssumption

LEMMA ClientTypes ==
    ASSUME ClientInv
    PROVE  /\ clientNow \in Nat /\ next \in Nat /\ next <= clientNow + Interval
           /\ pacing \in Callers \cup {Client!Free} /\ refreshing \in Callers \cup {Client!Free}
           /\ DOMAIN cache \subseteq Keys
           /\ \A k \in DOMAIN cache : cache[k].until \in Nat /\ cache[k].rows \in 0 .. clientNow
           /\ required \in BOOLEAN /\ expires \in 0 .. (clientNow + Lifetime)
           /\ DOMAIN call = Callers
           /\ \A c \in Callers : Sound(call[c], c, clientNow, next, pacing)
  BY ClientConstants DEF ClientInv, Client!TypeOK, CallsSound

LEMMA LiveFromInv ==
    ASSUME ClientInv
    PROVE  Client!LiveIsFresh
  BY DEF ClientInv, CallsSound, Sound, Client!LiveIsFresh, Client!At

LEMMA ClientInit ==
    ASSUME Client!Init
    PROVE  ClientInv
  <1>1. /\ clientNow = 0 /\ next = 0 /\ pacing = Client!Free /\ refreshing = Client!Free
        /\ cache = [k \in {} |-> 0] /\ required = FALSE /\ expires = 0
        /\ call = [c \in Callers |-> [at |-> "idle"]]
    BY DEF Client!Init, Client!Idle
  <1>2. DOMAIN call = Callers /\ \A c \in Callers : call[c].at = "idle"
    BY <1>1
  <1>3. CallsSound
    BY <1>2 DEF CallsSound, Sound, Underway, Client!Places
  <1>4. DOMAIN cache = {}
    BY <1>1
  <1>5. 0 \in 0 .. (0 + Interval) /\ 0 \in 0 .. (0 + Lifetime)
    BY ClientConstants
  <1>6. Client!TypeOK
    BY <1>1, <1>2, <1>4, <1>5 DEF Client!TypeOK, Client!Places
  <1>7. QED
    BY <1>3, <1>6 DEF ClientInv

\* A step of caller c that leaves the throttle to the others.
LEMMA CallerSteps ==
    ASSUME ClientInv, NEW c \in Callers, DOMAIN call' = Callers,
           \A d \in Callers \ {c} : call'[d] = call[d],
           Sound(call'[c], c, clientNow, next', pacing'), clientNow' = clientNow,
           (next' = next /\ pacing' = pacing) \/ pacing \in {Client!Free, c}
    PROVE  CallsSound' /\ \A d \in Callers : call'[d].at \in Client!Places
  <1>1. ASSUME NEW d \in Callers
        PROVE  Sound(call'[d], d, clientNow, next', pacing')
    <2>1. CASE d = c
      BY <2>1
    <2>2. CASE d # c
      <3>1. Sound(call[d], d, clientNow, next, pacing) /\ call'[d] = call[d]
        BY <2>2, ClientTypes
      <3>2. CASE next' = next /\ pacing' = pacing
        BY <3>1, <3>2
      <3>3. CASE pacing \in {Client!Free, c}
        <4>1. call[d].at # "slot"
          BY <2>2, <3>1, <3>3, ClientConstants DEF Sound
        <4>2. QED
          BY <3>1, <4>1 DEF Sound
      <3>4. QED
        BY <3>2, <3>3
    <2>3. QED
      BY <2>1, <2>2
  <1>2. QED
    BY <1>1 DEF CallsSound, Sound

\* The call of c at another place.
LEMMA Moved ==
    ASSUME DOMAIN call = Callers, NEW c \in Callers, DOMAIN call[c] = Fields, NEW place,
           call' = [call EXCEPT ![c].at = place]
    PROVE  /\ DOMAIN call' = Callers /\ \A d \in Callers \ {c} : call'[d] = call[d]
           /\ DOMAIN call'[c] = Fields /\ call'[c].at = place
           /\ \A f \in Fields \ {"at"} : call'[c][f] = call[c][f]
  <1>1. call' = [call EXCEPT ![c] = [call[c] EXCEPT !.at = place]]
    OBVIOUS
  <1>2. call'[c] = [call[c] EXCEPT !.at = place]
    BY <1>1
  <1>3. QED
    BY <1>1, <1>2 DEF Fields

\* The same with the time at which it wakes, or at which it was sent, or the repeat.
LEMMA MovedWith ==
    ASSUME DOMAIN call = Callers, NEW c \in Callers, DOMAIN call[c] = Fields, NEW place, NEW v,
           NEW g \in {"wake", "sent", "again"},
           call' = [call EXCEPT ![c] = [call[c] EXCEPT !["at"] = place, ![g] = v]]
    PROVE  /\ DOMAIN call' = Callers /\ \A d \in Callers \ {c} : call'[d] = call[d]
           /\ DOMAIN call'[c] = Fields /\ call'[c].at = place /\ call'[c][g] = v
           /\ \A f \in {"key", "ttl", "began", "attempt"} : call'[c][f] = call[c][f]
  <1>1. call'[c] = [call[c] EXCEPT !["at"] = place, ![g] = v]
    OBVIOUS
  <1>2. DOMAIN call' = Callers /\ \A d \in Callers \ {c} : call'[d] = call[d]
    OBVIOUS
  <1>3. g \in Fields /\ "at" \in Fields /\ g # "at"
    BY DEF Fields
  <1>4. DOMAIN call'[c] = Fields /\ call'[c].at = place /\ call'[c][g] = v
    BY <1>1, <1>3
  <1>5. \A f \in {"key", "ttl", "began", "attempt"} : call'[c][f] = call[c][f]
    BY <1>1, <1>3 DEF Fields
  <1>6. QED
    BY <1>2, <1>4, <1>5

LEMMA MovedAwake ==
    ASSUME DOMAIN call = Callers, NEW c \in Callers, NEW place, NEW v
    PROVE  /\ [call EXCEPT ![c].at = place, ![c].wake = v] =
                [call EXCEPT ![c] = [call[c] EXCEPT !["at"] = place, !["wake"] = v]]
           /\ [call EXCEPT ![c].at = place, ![c].sent = v] =
                [call EXCEPT ![c] = [call[c] EXCEPT !["at"] = place, !["sent"] = v]]
           /\ [call EXCEPT ![c].at = place, ![c].again = v] =
                [call EXCEPT ![c] = [call[c] EXCEPT !["at"] = place, !["again"] = v]]
  OBVIOUS

\* What a step may not do: take a slot before its time, ask for a token that is at hand.
Paced ==
    \A c \in Callers :
      /\ call[c].at = "slot" /\ call'[c].at # "slot" => clientNow >= next
      /\ call[c].at = "refresh" /\ call'[c].at = "asking" => ~Client!TokenGood

\* A step of caller c that keeps the throttle, the cache and the token as they are.
LEMMA CallerGoesOn ==
    ASSUME ClientInv, NEW c \in Callers, DOMAIN call' = Callers,
           \A d \in Callers \ {c} : call'[d] = call[d],
           Sound(call'[c], c, clientNow, next, pacing),
           call[c].at # "slot",
           call[c].at = "refresh" => call'[c].at # "asking" \/ ~Client!TokenGood,
           UNCHANGED <<clientNow, next, pacing, cache>>,
           required' \in BOOLEAN, expires' \in 0 .. (clientNow + Lifetime),
           refreshing' \in Callers \cup {Client!Free}
    PROVE  ClientInv' /\ Paced
  <1>1. CallsSound' /\ \A d \in Callers : call'[d].at \in Client!Places
    BY CallerSteps
  <1>2. Client!TypeOK'
    BY <1>1 DEF ClientInv, Client!TypeOK
  <1>3. Paced
    BY DEF Paced
  <1>4. QED
    BY <1>1, <1>2, <1>3 DEF ClientInv

LEMMA DoneKeeps ==
    ASSUME ClientInv, NEW c \in Callers, Client!Done(c)
    PROVE  ClientInv' /\ Paced
  <1>1. /\ call[c].at \in {"answered", "failed"} /\ call' = [call EXCEPT ![c] = Client!Idle]
        /\ UNCHANGED <<clientNow, next, pacing, cache, required, expires, refreshing>>
    BY DEF Client!Done
  <1>2. /\ DOMAIN call' = Callers /\ \A d \in Callers \ {c} : call'[d] = call[d]
        /\ call'[c].at = "idle"
    BY <1>1, ClientTypes DEF Client!Idle
  <1>3. Sound(call'[c], c, clientNow, next, pacing)
    BY <1>2 DEF Sound, Underway, Client!Places
  <1>4. QED
    BY <1>1, <1>2, <1>3, CallerGoesOn, ClientTypes

\* The call of c fails, and leaves everything else.
LEMMA FailKeeps ==
    ASSUME ClientInv, NEW c \in Callers, Client!Fail(c), call[c].at # "slot",
           UNCHANGED <<clientNow, next, pacing, cache>>,
           required' \in BOOLEAN, expires' \in 0 .. (clientNow + Lifetime),
           refreshing' \in Callers \cup {Client!Free}
    PROVE  ClientInv' /\ Paced
  <1>1. call' = [call EXCEPT ![c] = [at |-> "failed"]]
    BY DEF Client!Fail
  <1>2. /\ DOMAIN call' = Callers /\ \A d \in Callers \ {c} : call'[d] = call[d]
        /\ call'[c].at = "failed"
    BY <1>1, ClientTypes
  <1>3. Sound(call'[c], c, clientNow, next, pacing)
    BY <1>2 DEF Sound, Underway, Client!Places
  <1>4. QED
    BY <1>2, <1>3, CallerGoesOn

\* The call of c goes to a place that keeps no time.
LEMMA GotoKeeps ==
    ASSUME ClientInv, NEW c \in Callers, NEW place \in {"throttle", "token", "refresh", "asking"},
           call[c].at \in Underway \ {"slot"}, Client!Goto(c, place),
           call[c].at = "refresh" => place # "asking" \/ ~Client!TokenGood,
           UNCHANGED <<clientNow, next, pacing, cache>>,
           required' \in BOOLEAN, expires' \in 0 .. (clientNow + Lifetime),
           refreshing' \in Callers \cup {Client!Free}
    PROVE  ClientInv' /\ Paced
  <1>1. /\ DOMAIN call = Callers /\ Sound(call[c], c, clientNow, next, pacing)
        /\ DOMAIN call[c] = Fields
    BY ClientTypes DEF Sound
  <1>2. call' = [call EXCEPT ![c].at = place]
    BY DEF Client!Goto
  <1>3. /\ DOMAIN call' = Callers /\ \A d \in Callers \ {c} : call'[d] = call[d]
        /\ DOMAIN call'[c] = Fields /\ call'[c].at = place
        /\ \A f \in Fields \ {"at"} : call'[c][f] = call[c][f]
    BY <1>1, <1>2, Moved
  <1>4. /\ call'[c].key = call[c].key /\ call'[c].ttl = call[c].ttl
        /\ call'[c].attempt = call[c].attempt /\ call'[c].began = call[c].began
    BY <1>3 DEF Fields
  <1>5. Sound(call'[c], c, clientNow, next, pacing)
    BY <1>1, <1>3, <1>4 DEF Sound, Underway, Client!Places
  <1>6. QED
    BY <1>3, <1>5, CallerGoesOn DEF Underway

\* The request of c is sent.
LEMMA SentIs ==
    ASSUME ClientInv, NEW c \in Callers, call[c].at \in Underway,
           call' = [call EXCEPT ![c].at = "sent", ![c].sent = clientNow]
    PROVE  /\ DOMAIN call' = Callers /\ \A d \in Callers \ {c} : call'[d] = call[d]
           /\ call'[c].at = "sent"
           /\ \A slot, holder : Sound(call'[c], c, clientNow, slot, holder)
  <1>1. /\ DOMAIN call = Callers /\ Sound(call[c], c, clientNow, next, pacing)
        /\ DOMAIN call[c] = Fields /\ clientNow \in Nat
    BY ClientTypes DEF Sound
  <1>2. call' = [call EXCEPT ![c] = [call[c] EXCEPT !["at"] = "sent", !["sent"] = clientNow]]
    BY <1>1, MovedAwake
  <1>3. /\ DOMAIN call' = Callers /\ \A d \in Callers \ {c} : call'[d] = call[d]
        /\ DOMAIN call'[c] = Fields /\ call'[c].at = "sent" /\ call'[c]["sent"] = clientNow
        /\ \A f \in {"key", "ttl", "began", "attempt"} : call'[c][f] = call[c][f]
    BY <1>1, <1>2, MovedWith
  <1>4. /\ call'[c].key = call[c].key /\ call'[c].ttl = call[c].ttl
        /\ call'[c].attempt = call[c].attempt /\ call'[c].began = call[c].began
        /\ call'[c].sent = clientNow
    BY <1>3
  <1>5. ASSUME NEW slot, NEW holder
        PROVE  Sound(call'[c], c, clientNow, slot, holder)
    BY <1>1, <1>3, <1>4 DEF Sound, Underway, Client!Places
  <1>6. QED
    BY <1>3, <1>5

\* A caller that has its token goes on.
LEMMA HasTokenKeeps ==
    ASSUME ClientInv, NEW c \in Callers, call[c].at \in Underway \ {"slot"}, Client!HasToken(c),
           UNCHANGED <<clientNow, next, pacing, cache>>,
           required' \in BOOLEAN, expires' \in 0 .. (clientNow + Lifetime),
           refreshing' \in Callers \cup {Client!Free}
    PROVE  ClientInv' /\ Paced
  <1>1. CASE call[c].again
    <2>1. Client!Goto(c, "throttle")
      BY <1>1 DEF Client!HasToken
    <2>2. QED
      BY <2>1, GotoKeeps
  <1>2. CASE ~call[c].again
    <2>1. call' = [call EXCEPT ![c].at = "sent", ![c].sent = clientNow]
      BY <1>2 DEF Client!HasToken
    <2>2. /\ DOMAIN call' = Callers /\ \A d \in Callers \ {c} : call'[d] = call[d]
          /\ call'[c].at = "sent" /\ Sound(call'[c], c, clientNow, next, pacing)
      BY <2>1, SentIs
    <2>3. QED
      BY <2>2, CallerGoesOn
  <1>3. QED
    BY <1>1, <1>2

LEMMA RoomyIs ==
    ASSUME NEW S \in Client!Roomy
    PROVE  S \subseteq DOMAIN cache
  BY DEF Client!Roomy, Client!Current

LEMMA CallBegins ==
    ASSUME ClientInv, NEW c \in Callers, Client!Begin(c)
    PROVE  ClientInv' /\ Paced
  <1>1. PICK k \in Keys, ttl \in Ttls, S \in Client!Roomy :
          /\ cache' = Client!Keep(S)
          /\ IF Client!Hit(k, ttl, S) THEN Client!Return(c, ttl, clientNow, cache[k].rows)
             ELSE call' = [call EXCEPT ![c] =
                             [at |-> "throttle", key |-> k, ttl |-> ttl, began |-> clientNow,
                              attempt |-> 0, again |-> FALSE, wake |-> 0, sent |-> 0]]
    BY DEF Client!Begin
  <1>2. call[c].at = "idle" /\ UNCHANGED <<clientNow, next, pacing, required, expires, refreshing>>
    BY DEF Client!Begin, Client!At
  <1>3. /\ DOMAIN call = Callers /\ clientNow \in Nat /\ S \subseteq DOMAIN cache
    BY ClientTypes, RoomyIs
  <1>4. /\ DOMAIN call' = Callers /\ \A d \in Callers \ {c} : call'[d] = call[d]
        /\ Sound(call'[c], c, clientNow, next, pacing)
    <2>1. CASE Client!Hit(k, ttl, S)
      <3>1. ttl # 0 /\ call' = [call EXCEPT ![c] = [at |-> "answered", ttl |-> ttl,
                                                    began |-> clientNow, rows |-> cache[k].rows]]
        BY <1>1, <2>1 DEF Client!Hit, Client!Return
      <3>2. call'[c].at = "answered" /\ call'[c].ttl = ttl
        BY <1>3, <3>1
      <3>3. DOMAIN call' = Callers /\ \A d \in Callers \ {c} : call'[d] = call[d]
        BY <1>3, <3>1
      <3>4. QED
        BY <3>1, <3>2, <3>3 DEF Sound, Underway, Client!Places
    <2>2. CASE ~Client!Hit(k, ttl, S)
      <3>1. call' = [call EXCEPT ![c] =
                       [at |-> "throttle", key |-> k, ttl |-> ttl, began |-> clientNow,
                        attempt |-> 0, again |-> FALSE, wake |-> 0, sent |-> 0]]
        BY <1>1, <2>2
      <3>2. call'[c] = [at |-> "throttle", key |-> k, ttl |-> ttl, began |-> clientNow,
                        attempt |-> 0, again |-> FALSE, wake |-> 0, sent |-> 0]
        BY <1>3, <3>1
      <3>3. DOMAIN call' = Callers /\ \A d \in Callers \ {c} : call'[d] = call[d]
        BY <1>3, <3>1
      <3>4. /\ call'[c].at = "throttle" /\ call'[c].key = k /\ call'[c].ttl = ttl
            /\ call'[c].began = clientNow /\ call'[c].attempt = 0 /\ DOMAIN call'[c] = Fields
        BY <3>2 DEF Fields
      <3>5. QED
        BY <1>3, <3>3, <3>4 DEF Sound, Underway, Client!Places
    <2>3. QED
      BY <2>1, <2>2
  <1>5. CallsSound' /\ \A d \in Callers : call'[d].at \in Client!Places
    BY <1>2, <1>4, CallerSteps
  <1>6. /\ DOMAIN cache' \subseteq Keys
        /\ \A j \in DOMAIN cache' : cache'[j].until \in Nat /\ cache'[j].rows \in 0 .. clientNow
    BY <1>1, <1>3, ClientTypes DEF Client!Keep
  <1>7. Client!TypeOK'
    BY <1>2, <1>5, <1>6 DEF ClientInv, Client!TypeOK
  <1>8. Paced
    BY <1>2, <1>4 DEF Paced
  <1>9. QED
    BY <1>5, <1>7, <1>8 DEF ClientInv

\* The slot of c is the next, and c keeps the throttle until then.
LEMMA EnterThrottleKeeps ==
    ASSUME ClientInv, NEW c \in Callers, Client!EnterThrottle(c)
    PROVE  ClientInv' /\ Paced
  <1> DEFINE v == Client!Higher(next, clientNow)
  <1>1. /\ call[c].at = "throttle" /\ pacing = Client!Free /\ pacing' = c
        /\ call' = [call EXCEPT ![c].at = "slot", ![c].wake = v]
        /\ UNCHANGED <<clientNow, next, cache, required, expires, refreshing>>
    BY DEF Client!EnterThrottle, Client!At
  <1>2. /\ DOMAIN call = Callers /\ Sound(call[c], c, clientNow, next, pacing)
        /\ clientNow \in Nat /\ next \in Nat
    BY ClientTypes
  <1>3. DOMAIN call[c] = Fields
    BY <1>1, <1>2 DEF Sound, Underway
  <1>4. v \in Nat /\ next <= v
    BY <1>2 DEF Client!Higher
  <1> HIDE DEF v
  <1>5. call' = [call EXCEPT ![c] = [call[c] EXCEPT !["at"] = "slot", !["wake"] = v]]
    BY <1>1, <1>2, MovedAwake
  <1>6. /\ DOMAIN call' = Callers /\ \A d \in Callers \ {c} : call'[d] = call[d]
        /\ DOMAIN call'[c] = Fields /\ call'[c].at = "slot" /\ call'[c]["wake"] = v
        /\ \A f \in {"key", "ttl", "began", "attempt"} : call'[c][f] = call[c][f]
    BY <1>2, <1>3, <1>5, MovedWith
  <1>7. /\ call'[c].key = call[c].key /\ call'[c].ttl = call[c].ttl
        /\ call'[c].attempt = call[c].attempt /\ call'[c].began = call[c].began
        /\ call'[c].wake = v
    BY <1>6
  <1>8. Sound(call'[c], c, clientNow, next', pacing')
    BY <1>1, <1>2, <1>4, <1>6, <1>7 DEF Sound, Underway, Client!Places
  <1>9. CallsSound' /\ \A d \in Callers : call'[d].at \in Client!Places
    BY <1>1, <1>6, <1>8, CallerSteps
  <1>10. Client!TypeOK'
    BY <1>1, <1>9 DEF ClientInv, Client!TypeOK
  <1>11. Paced
    BY <1>1, <1>6 DEF Paced
  <1>12. QED
    BY <1>9, <1>10, <1>11 DEF ClientInv

LEMMA TakeSlotKeeps ==
    ASSUME ClientInv, NEW c \in Callers, Client!TakeSlot(c)
    PROVE  ClientInv' /\ Paced
  <1>1. /\ call[c].at = "slot" /\ clientNow >= call[c].wake /\ next' = clientNow + Interval
        /\ pacing' = Client!Free /\ Client!AfterSlot(c)
        /\ UNCHANGED <<clientNow, cache, required, expires, refreshing>>
    BY DEF Client!TakeSlot, Client!At
  <1>2. /\ DOMAIN call = Callers /\ Sound(call[c], c, clientNow, next, pacing)
        /\ clientNow \in Nat /\ next \in Nat
    BY ClientTypes
  <1>3. DOMAIN call[c] = Fields /\ pacing = c /\ call[c].wake \in Nat /\ next <= call[c].wake
    BY <1>1, <1>2 DEF Sound, Underway
  <1>4. /\ DOMAIN call' = Callers /\ \A d \in Callers \ {c} : call'[d] = call[d]
        /\ Sound(call'[c], c, clientNow, next', pacing')
    <2>1. CASE call[c].again \/ ~required
      <3>1. call' = [call EXCEPT ![c].at = "sent", ![c].sent = clientNow]
        BY <1>1, <2>1 DEF Client!AfterSlot
      <3>2. call[c].at \in Underway
        BY <1>1 DEF Underway
      <3>3. QED
        BY <3>1, <3>2, SentIs
    <2>2. CASE ~(call[c].again \/ ~required)
      <3>1. call' = [call EXCEPT ![c].at = "token"]
        BY <1>1, <2>2 DEF Client!AfterSlot, Client!Goto
      <3>2. /\ DOMAIN call' = Callers /\ \A d \in Callers \ {c} : call'[d] = call[d]
            /\ DOMAIN call'[c] = Fields /\ call'[c].at = "token"
            /\ \A f \in Fields \ {"at"} : call'[c][f] = call[c][f]
        BY <1>2, <1>3, <3>1, Moved
      <3>3. /\ call'[c].key = call[c].key /\ call'[c].ttl = call[c].ttl
            /\ call'[c].attempt = call[c].attempt /\ call'[c].began = call[c].began
        BY <3>2 DEF Fields
      <3>4. Sound(call'[c], c, clientNow, next', pacing')
        BY <1>1, <1>2, <3>2, <3>3 DEF Sound, Underway, Client!Places
      <3>5. QED
        BY <3>2, <3>4
    <2>3. QED
      BY <2>1, <2>2
  <1>5. CallsSound' /\ \A d \in Callers : call'[d].at \in Client!Places
    BY <1>1, <1>3, <1>4, CallerSteps
  <1>6. next' \in 0 .. (clientNow + Interval)
    BY <1>1, <1>2, ClientConstants
  <1>7. Client!TypeOK'
    BY <1>1, <1>5, <1>6 DEF ClientInv, Client!TypeOK
  <1>8. clientNow >= next
    BY <1>1, <1>2, <1>3
  <1>9. Paced
    BY <1>1, <1>4, <1>8 DEF Paced
  <1>10. QED
    BY <1>5, <1>7, <1>9 DEF ClientInv

LEMMA TokenKeeps ==
    ASSUME ClientInv, NEW c \in Callers, Client!Token(c)
    PROVE  ClientInv' /\ Paced
  <1>1. /\ required \in BOOLEAN /\ expires \in 0 .. (clientNow + Lifetime) /\ clientNow \in Nat
        /\ refreshing \in Callers \cup {Client!Free} /\ Client!Free \in Callers \cup {Client!Free}
    BY ClientTypes
  <1>2. {"token", "refresh", "asking"} \subseteq Underway \ {"slot"}
    BY DEF Underway
  <1>3. CASE Client!ShareToken(c)
    <2>1. /\ call[c].at = "token" /\ Client!HasToken(c)
          /\ UNCHANGED <<clientNow, next, pacing, cache, required, expires, refreshing>>
      BY <1>3 DEF Client!ShareToken, Client!At
    <2>2. QED
      BY <1>1, <1>2, <2>1, HasTokenKeeps
  <1>4. CASE Client!WaitToken(c)
    <2>1. /\ call[c].at = "token" /\ Client!Goto(c, "refresh")
          /\ UNCHANGED <<clientNow, next, pacing, cache, required, expires, refreshing>>
      BY <1>4 DEF Client!WaitToken, Client!At
    <2>2. QED
      BY <1>1, <1>2, <2>1, GotoKeeps
  <1>5. CASE Client!EnterRefresh(c)
    <2>1. /\ call[c].at = "refresh"
          /\ UNCHANGED <<clientNow, next, pacing, cache, required, expires>>
          /\ IF Client!TokenGood THEN Client!HasToken(c) /\ UNCHANGED refreshing
             ELSE Client!Goto(c, "asking") /\ refreshing' = c
      BY <1>5 DEF Client!EnterRefresh, Client!At, Client!LookAgain
    <2>2. CASE Client!TokenGood
      BY <1>1, <1>2, <2>1, <2>2, HasTokenKeeps
    <2>3. CASE ~Client!TokenGood
      BY <1>1, <1>2, <2>1, <2>3, GotoKeeps
    <2>4. QED
      BY <2>2, <2>3
  <1>6. CASE Client!NewToken(c)
    <2>1. /\ call[c].at = "asking" /\ expires' = clientNow + Lifetime
          /\ refreshing' = Client!Free /\ Client!HasToken(c)
          /\ UNCHANGED <<clientNow, next, pacing, cache, required>>
      BY <1>6 DEF Client!NewToken, Client!At
    <2>2. expires' \in 0 .. (clientNow + Lifetime)
      BY <1>1, <2>1, ClientConstants
    <2>3. QED
      BY <1>1, <1>2, <2>1, <2>2, HasTokenKeeps
  <1>7. CASE Client!NoToken(c)
    <2>1. /\ call[c].at = "asking" /\ refreshing' = Client!Free /\ Client!Fail(c)
          /\ UNCHANGED <<clientNow, next, pacing, cache, required, expires>>
      BY <1>7 DEF Client!NoToken, Client!At
    <2>2. QED
      BY <1>1, <2>1, FailKeeps
  <1>8. QED
    BY <1>3, <1>4, <1>5, <1>6, <1>7 DEF Client!Token

\* What the provider read while the request was under way is returned, and kept.
LEMMA AnswerKeeps ==
    ASSUME ClientInv, NEW c \in Callers, Client!Answer(c)
    PROVE  ClientInv' /\ Paced
  <1> DEFINE ttl == call[c].ttl
             key == call[c].key
  <1>1. /\ call[c].at = "sent"
        /\ UNCHANGED <<clientNow, next, pacing, required, expires, refreshing>>
    BY DEF Client!Answer, Client!At
  <1>2. PICK read \in call[c].sent .. clientNow :
          /\ cache' = IF ttl = 0 THEN cache ELSE Client!Store(key, read, ttl)
          /\ call' = [call EXCEPT ![c] = [at |-> "answered", ttl |-> ttl,
                                          began |-> call[c].began, rows |-> read]]
    BY DEF Client!Answer, Client!Return
  <1>3. /\ DOMAIN call = Callers /\ Sound(call[c], c, clientNow, next, pacing)
        /\ clientNow \in Nat /\ DOMAIN cache \subseteq Keys
        /\ \A k \in DOMAIN cache : cache[k].until \in Nat /\ cache[k].rows \in 0 .. clientNow
    BY ClientTypes
  <1>4. /\ key \in Keys /\ ttl \in Nat /\ call[c].sent \in Nat /\ call[c].began \in Nat
        /\ call[c].began <= call[c].sent /\ call[c].sent <= clientNow
    BY <1>1, <1>3, ClientConstants DEF Sound, Underway
  <1>5. read \in 0 .. clientNow /\ read >= call[c].began
    BY <1>3, <1>4
  <1>6. /\ DOMAIN call' = Callers /\ \A d \in Callers \ {c} : call'[d] = call[d]
        /\ call'[c] = [at |-> "answered", ttl |-> ttl, began |-> call[c].began, rows |-> read]
    BY <1>2, <1>3
  <1> HIDE DEF ttl, key
  <1>7. Sound(call'[c], c, clientNow, next, pacing)
    <2>1. call'[c].at = "answered" /\ call'[c].rows = read /\ call'[c].began = call[c].began
      BY <1>6
    <2>2. QED
      BY <1>5, <2>1 DEF Sound, Underway, Client!Places
  <1>8. CallsSound' /\ \A d \in Callers : call'[d].at \in Client!Places
    BY <1>1, <1>6, <1>7, CallerSteps
  <1>9. /\ DOMAIN cache' \subseteq Keys
        /\ \A k \in DOMAIN cache' : cache'[k].until \in Nat /\ cache'[k].rows \in 0 .. clientNow
    <2>1. CASE ttl = 0
      BY <1>2, <1>3, <2>1
    <2>2. CASE ttl # 0
      <3>1. cache' = [j \in DOMAIN cache \cup {key} |->
                        IF j = key THEN [until |-> clientNow + ttl, rows |-> read] ELSE cache[j]]
        BY <1>2, <2>2 DEF Client!Store
      <3>2. /\ DOMAIN cache' = DOMAIN cache \cup {key}
            /\ cache'[key] = [until |-> clientNow + ttl, rows |-> read]
            /\ \A j \in DOMAIN cache \ {key} : cache'[j] = cache[j]
        BY <3>1
      <3>3. cache'[key].until \in Nat /\ cache'[key].rows \in 0 .. clientNow
        BY <1>3, <1>4, <1>5, <3>2
      <3>4. QED
        BY <1>3, <1>4, <3>2, <3>3
    <2>3. QED
      BY <2>1, <2>2
  <1>10. Client!TypeOK'
    BY <1>1, <1>8, <1>9 DEF ClientInv, Client!TypeOK
  <1>11. Paced
    BY <1>1, <1>6 DEF Paced
  <1>12. QED
    BY <1>8, <1>10, <1>11 DEF ClientInv

LEMMA RefuseKeeps ==
    ASSUME ClientInv, NEW c \in Callers, Client!Refuse(c)
    PROVE  ClientInv' /\ Paced
  <1>1. /\ call[c].at = "sent" /\ Client!Fail(c)
        /\ UNCHANGED <<clientNow, next, pacing, cache, required, expires, refreshing>>
    BY DEF Client!Refuse, Client!At
  <1>2. QED
    BY <1>1, FailKeeps, ClientTypes

LEMMA UnauthorizedKeeps ==
    ASSUME ClientInv, NEW c \in Callers, Client!Unauthorized(c)
    PROVE  ClientInv' /\ Paced
  <1>1. /\ call[c].at = "sent"
        /\ UNCHANGED <<clientNow, next, pacing, cache, expires, refreshing>>
    BY DEF Client!Unauthorized, Client!At
  <1>2. /\ DOMAIN call = Callers /\ Sound(call[c], c, clientNow, next, pacing)
        /\ required \in BOOLEAN /\ expires \in 0 .. (clientNow + Lifetime)
        /\ refreshing \in Callers \cup {Client!Free}
    BY ClientTypes
  <1>3. CASE call[c].again
    <2>1. Client!Fail(c) /\ UNCHANGED required
      BY <1>3 DEF Client!Unauthorized
    <2>2. QED
      BY <1>1, <1>2, <2>1, FailKeeps
  <1>4. CASE ~call[c].again
    <2>1. required' = TRUE /\ call' = [call EXCEPT ![c].at = "token", ![c].again = TRUE]
      BY <1>4 DEF Client!Unauthorized
    <2>2. DOMAIN call[c] = Fields
      BY <1>1, <1>2 DEF Sound, Underway
    <2>3. call' = [call EXCEPT ![c] = [call[c] EXCEPT !["at"] = "token", !["again"] = TRUE]]
      BY <1>2, <2>1, MovedAwake
    <2>4. /\ DOMAIN call' = Callers /\ \A d \in Callers \ {c} : call'[d] = call[d]
          /\ DOMAIN call'[c] = Fields /\ call'[c].at = "token"
          /\ \A f \in {"key", "ttl", "began", "attempt"} : call'[c][f] = call[c][f]
      BY <1>2, <2>2, <2>3, MovedWith
    <2>5. /\ call'[c].key = call[c].key /\ call'[c].ttl = call[c].ttl
          /\ call'[c].attempt = call[c].attempt /\ call'[c].began = call[c].began
      BY <2>4
    <2>6. Sound(call'[c], c, clientNow, next, pacing)
      BY <1>1, <1>2, <2>4, <2>5 DEF Sound, Underway, Client!Places
    <2>7. required' \in BOOLEAN
      BY <2>1
    <2>8. QED
      BY <1>1, <1>2, <2>4, <2>6, <2>7, CallerGoesOn
  <1>5. QED
    BY <1>3, <1>4

LEMMA RetryKeeps ==
    ASSUME ClientInv, NEW c \in Callers, Client!Retry(c)
    PROVE  ClientInv' /\ Paced
  <1>1. /\ call[c].at = "sent"
        /\ UNCHANGED <<clientNow, next, pacing, cache, required, expires, refreshing>>
    BY DEF Client!Retry, Client!At
  <1>2. /\ DOMAIN call = Callers /\ Sound(call[c], c, clientNow, next, pacing)
        /\ required \in BOOLEAN /\ expires \in 0 .. (clientNow + Lifetime)
        /\ refreshing \in Callers \cup {Client!Free}
    BY ClientTypes
  <1>3. CASE call[c].attempt + 1 >= Attempts
    <2>1. Client!Fail(c)
      BY <1>3 DEF Client!Retry
    <2>2. QED
      BY <1>1, <1>2, <2>1, FailKeeps
  <1>4. CASE ~(call[c].attempt + 1 >= Attempts)
    <2>1. \E v : call' = [call EXCEPT ![c].at = "pause", ![c].again = FALSE,
                                      ![c].attempt = @ + 1, ![c].wake = v]
      BY <1>4 DEF Client!Retry
    <2>2. PICK v : call' = [call EXCEPT ![c].at = "pause", ![c].again = FALSE,
                                        ![c].attempt = @ + 1, ![c].wake = v]
      BY <2>1
    <2>3. DOMAIN call[c] = Fields /\ call[c].attempt \in Nat
      BY <1>1, <1>2 DEF Sound, Underway
    <2>4. DOMAIN call' = Callers /\ \A d \in Callers \ {c} : call'[d] = call[d]
      BY <1>2, <2>2
    <2>5. call'[c] = [call[c] EXCEPT !.at = "pause", !.again = FALSE, !.attempt = @ + 1, !.wake = v]
      BY <1>2, <2>2
    <2>6. /\ DOMAIN call'[c] = Fields /\ call'[c].at = "pause"
          /\ call'[c].key = call[c].key /\ call'[c].ttl = call[c].ttl
          /\ call'[c].attempt = call[c].attempt + 1 /\ call'[c].began = call[c].began
      BY <2>3, <2>5 DEF Fields
    <2>7. Sound(call'[c], c, clientNow, next, pacing)
      BY <1>1, <1>2, <2>3, <2>6 DEF Sound, Underway, Client!Places
    <2>8. QED
      BY <1>1, <1>2, <2>4, <2>7, CallerGoesOn
  <1>5. QED
    BY <1>3, <1>4

LEMMA ResumeKeeps ==
    ASSUME ClientInv, NEW c \in Callers, Client!Resume(c)
    PROVE  ClientInv' /\ Paced
  <1>1. /\ call[c].at = "pause" /\ Client!Goto(c, "throttle")
        /\ UNCHANGED <<clientNow, next, pacing, cache, required, expires, refreshing>>
    BY DEF Client!Resume, Client!At
  <1>2. QED
    BY <1>1, GotoKeeps, ClientTypes DEF Underway

LEMMA ClientTickKeeps ==
    ASSUME ClientInv, Client!Tick \/ UNCHANGED clientVars
    PROVE  ClientInv' /\ Paced
  <1>1. /\ UNCHANGED <<next, pacing, cache, required, expires, refreshing, call>>
        /\ clientNow' \in {clientNow, clientNow + 1}
    BY DEF Client!Tick, clientVars
  <1>2. /\ clientNow \in Nat /\ clientNow' \in Nat /\ clientNow <= clientNow'
        /\ Interval \in Nat /\ Lifetime \in Nat
    BY <1>1, ClientTypes, ClientConstants
  <1>3. ASSUME NEW c \in Callers
        PROVE  Sound(call[c], c, clientNow', next, pacing)
    <2>1. Sound(call[c], c, clientNow, next, pacing)
      BY ClientTypes
    <2>2. call[c].at = "sent" => call[c].sent \in Nat /\ call[c].sent <= clientNow'
      BY <1>2, <2>1 DEF Sound
    <2>3. call[c].at \in Underway => call[c].began \in Nat /\ call[c].began <= clientNow'
      BY <1>2, <2>1 DEF Sound
    <2>4. QED
      BY <2>1, <2>2, <2>3 DEF Sound
  <1>4. CallsSound'
    BY <1>1, <1>3, ClientTypes DEF CallsSound
  <1>5. Client!TypeOK'
    <2>1. next \in 0 .. (clientNow' + Interval) /\ expires \in 0 .. (clientNow' + Lifetime)
      BY <1>2, ClientTypes
    <2>2. \A k \in DOMAIN cache : cache[k].rows \in 0 .. clientNow'
      BY <1>2, ClientTypes
    <2>3. QED
      BY <1>1, <1>2, <2>1, <2>2 DEF ClientInv, Client!TypeOK
  <1>6. Paced
    BY <1>1 DEF Paced
  <1>7. QED
    BY <1>4, <1>5, <1>6 DEF ClientInv

LEMMA ClientStep ==
    ASSUME ClientInv, Client!Next \/ UNCHANGED clientVars
    PROVE  ClientInv' /\ Paced
  <1>1. CASE Client!Tick \/ UNCHANGED clientVars
    BY <1>1, ClientTickKeeps
  <1>2. ASSUME NEW c \in Callers,
               \/ Client!Begin(c) \/ Client!Done(c) \/ Client!Throttle(c) \/ Client!Token(c)
               \/ Client!Response(c) \/ Client!Resume(c)
        PROVE  ClientInv' /\ Paced
    BY <1>2, CallBegins, DoneKeeps, EnterThrottleKeeps, TakeSlotKeeps, TokenKeeps, AnswerKeeps,
       UnauthorizedKeeps, RetryKeeps, RefuseKeeps, ResumeKeeps
       DEF Client!Throttle, Client!Response
  <1>3. QED
    BY <1>1, <1>2 DEF Client!Next

\* Calls that all begin at the start are calls of the client.
LEMMA RetriedIsClient ==
    ASSUME ClientInv, Retried!Next
    PROVE  Client!Next
  <1>1. clientNow \in Nat /\ LastStart \in Nat /\ Attempts \in Nat
    BY ClientTypes, ClientConstants
  <1>2. ASSUME NEW c \in Callers PROVE Retried!Begin(c) => Client!Begin(c)
    <2>1. ASSUME NEW S PROVE Retried!Full(S) = Client!Full(S)
      BY DEF Retried!Full, Client!Full, Retried!Cardinality, Client!Cardinality,
             Retried!IsFiniteSet, Client!IsFiniteSet
    <2>2. Retried!Roomy = Client!Roomy
      BY <2>1 DEF Retried!Roomy, Client!Roomy, Retried!Current, Client!Current
    <2>3. QED
      BY <1>1, <2>2
         DEF Retried!Begin, Client!Begin, Retried!At, Client!At, Retried!Keep, Client!Keep,
             Retried!Hit, Client!Hit, Retried!Return, Client!Return
  <1>3. ASSUME NEW c \in Callers PROVE Retried!Done(c) => Client!Done(c)
    BY DEF Retried!Done, Client!Done, Retried!Idle, Client!Idle
  <1>4. ASSUME NEW c \in Callers PROVE Retried!EnterThrottle(c) => Client!EnterThrottle(c)
    BY DEF Retried!EnterThrottle, Client!EnterThrottle, Retried!At, Client!At, Retried!Free,
           Client!Free, Retried!Higher, Client!Higher
  <1>5. ASSUME NEW c \in Callers PROVE Retried!TakeSlot(c) => Client!TakeSlot(c)
    BY DEF Retried!TakeSlot, Client!TakeSlot, Retried!At, Client!At, Retried!Free, Client!Free,
           Retried!AfterSlot, Client!AfterSlot, Retried!Goto, Client!Goto
  <1>6. ASSUME NEW c \in Callers PROVE Retried!ShareToken(c) => Client!ShareToken(c)
    BY DEF Retried!ShareToken, Client!ShareToken, Retried!At, Client!At, Retried!TokenGood,
           Client!TokenGood, Retried!HasToken, Client!HasToken, Retried!Goto, Client!Goto
  <1>7. ASSUME NEW c \in Callers PROVE Retried!WaitToken(c) => Client!WaitToken(c)
    BY DEF Retried!WaitToken, Client!WaitToken, Retried!At, Client!At, Retried!TokenGood,
           Client!TokenGood, Retried!Goto, Client!Goto
  <1>8. ASSUME NEW c \in Callers PROVE Retried!EnterRefresh(c) => Client!EnterRefresh(c)
    BY DEF Retried!EnterRefresh, Client!EnterRefresh, Retried!At, Client!At, Retried!Free,
           Client!Free, Retried!LookAgain, Client!LookAgain, Retried!TokenGood, Client!TokenGood,
           Retried!HasToken, Client!HasToken, Retried!Goto, Client!Goto
  <1>9. ASSUME NEW c \in Callers PROVE Retried!NewToken(c) => Client!NewToken(c)
    BY DEF Retried!NewToken, Client!NewToken, Retried!At, Client!At, Retried!Free, Client!Free,
           Retried!HasToken, Client!HasToken, Retried!Goto, Client!Goto
  <1>10. ASSUME NEW c \in Callers PROVE Retried!NoToken(c) => Client!NoToken(c)
    BY DEF Retried!NoToken, Client!NoToken, Retried!At, Client!At, Retried!Free, Client!Free,
           Retried!Fail, Client!Fail
  <1>11. ASSUME NEW c \in Callers PROVE Retried!Answer(c) => Client!Answer(c)
    BY DEF Retried!Answer, Client!Answer, Retried!At, Client!At, Retried!Store, Client!Store,
           Retried!Return, Client!Return
  <1>12. ASSUME NEW c \in Callers PROVE Retried!Unauthorized(c) => Client!Unauthorized(c)
    BY DEF Retried!Unauthorized, Client!Unauthorized, Retried!At, Client!At, Retried!Fail,
           Client!Fail
  <1>13. ASSUME NEW c \in Callers PROVE Retried!Retry(c) => Client!Retry(c)
    BY DEF Retried!Retry, Client!Retry, Retried!At, Client!At, Retried!Fail, Client!Fail,
           Retried!Lower, Client!Lower, Retried!Higher, Client!Higher, Retried!RetryDelay,
           Client!RetryDelay
  <1>14. ASSUME NEW c \in Callers PROVE Retried!Refuse(c) => Client!Refuse(c)
    BY DEF Retried!Refuse, Client!Refuse, Retried!At, Client!At, Retried!Fail, Client!Fail
  <1>15. ASSUME NEW c \in Callers PROVE Retried!Resume(c) => Client!Resume(c)
    BY DEF Retried!Resume, Client!Resume, Retried!At, Client!At, Retried!Goto, Client!Goto
  <1>16. Retried!Tick => Client!Tick
    BY DEF Retried!Tick, Client!Tick, Retried!Sleeping, Client!Sleeping, Retried!At, Client!At
  <1>17. QED
    BY <1>2, <1>3, <1>4, <1>5, <1>6, <1>7, <1>8, <1>9, <1>10, <1>11, <1>12,
       <1>13, <1>14, <1>15, <1>16
       DEF Retried!Next, Client!Next, Retried!Throttle, Client!Throttle, Retried!Token, Client!Token,
           Retried!Response, Client!Response

\* A call of a single attempt is refused where another would be repeated.
LEMMA CachedIsClient ==
    ASSUME ClientInv, Cached!Next
    PROVE  Client!Next
  <1>1. clientNow \in Nat /\ LastStart \in Nat /\ Attempts \in Nat
    BY ClientTypes, ClientConstants
  <1>2. ASSUME NEW c \in Callers PROVE Cached!Begin(c) => Client!Begin(c)
    <2>1. ASSUME NEW S PROVE Cached!Full(S) = Client!Full(S)
      BY DEF Cached!Full, Client!Full, Cached!Cardinality, Client!Cardinality,
             Cached!IsFiniteSet, Client!IsFiniteSet
    <2>2. Cached!Roomy = Client!Roomy
      BY <2>1 DEF Cached!Roomy, Client!Roomy, Cached!Current, Client!Current
    <2>3. QED
      BY <1>1, <2>2
         DEF Cached!Begin, Client!Begin, Cached!At, Client!At, Cached!Keep, Client!Keep,
             Cached!Hit, Client!Hit, Cached!Return, Client!Return
  <1>3. ASSUME NEW c \in Callers PROVE Cached!Done(c) => Client!Done(c)
    BY DEF Cached!Done, Client!Done, Cached!Idle, Client!Idle
  <1>4. ASSUME NEW c \in Callers PROVE Cached!EnterThrottle(c) => Client!EnterThrottle(c)
    BY DEF Cached!EnterThrottle, Client!EnterThrottle, Cached!At, Client!At, Cached!Free,
           Client!Free, Cached!Higher, Client!Higher
  <1>5. ASSUME NEW c \in Callers PROVE Cached!TakeSlot(c) => Client!TakeSlot(c)
    BY DEF Cached!TakeSlot, Client!TakeSlot, Cached!At, Client!At, Cached!Free, Client!Free,
           Cached!AfterSlot, Client!AfterSlot, Cached!Goto, Client!Goto
  <1>6. ASSUME NEW c \in Callers PROVE Cached!ShareToken(c) => Client!ShareToken(c)
    BY DEF Cached!ShareToken, Client!ShareToken, Cached!At, Client!At, Cached!TokenGood,
           Client!TokenGood, Cached!HasToken, Client!HasToken, Cached!Goto, Client!Goto
  <1>7. ASSUME NEW c \in Callers PROVE Cached!WaitToken(c) => Client!WaitToken(c)
    BY DEF Cached!WaitToken, Client!WaitToken, Cached!At, Client!At, Cached!TokenGood,
           Client!TokenGood, Cached!Goto, Client!Goto
  <1>8. ASSUME NEW c \in Callers PROVE Cached!EnterRefresh(c) => Client!EnterRefresh(c)
    BY DEF Cached!EnterRefresh, Client!EnterRefresh, Cached!At, Client!At, Cached!Free,
           Client!Free, Cached!LookAgain, Client!LookAgain, Cached!TokenGood, Client!TokenGood,
           Cached!HasToken, Client!HasToken, Cached!Goto, Client!Goto
  <1>9. ASSUME NEW c \in Callers PROVE Cached!NewToken(c) => Client!NewToken(c)
    BY DEF Cached!NewToken, Client!NewToken, Cached!At, Client!At, Cached!Free, Client!Free,
           Cached!HasToken, Client!HasToken, Cached!Goto, Client!Goto
  <1>10. ASSUME NEW c \in Callers PROVE Cached!NoToken(c) => Client!NoToken(c)
    BY DEF Cached!NoToken, Client!NoToken, Cached!At, Client!At, Cached!Free, Client!Free,
           Cached!Fail, Client!Fail
  <1>11. ASSUME NEW c \in Callers PROVE Cached!Answer(c) => Client!Answer(c)
    BY DEF Cached!Answer, Client!Answer, Cached!At, Client!At, Cached!Store, Client!Store,
           Cached!Return, Client!Return
  <1>12. ASSUME NEW c \in Callers PROVE Cached!Unauthorized(c) => Client!Unauthorized(c)
    BY DEF Cached!Unauthorized, Client!Unauthorized, Cached!At, Client!At, Cached!Fail,
           Client!Fail
  <1>13. ASSUME NEW c \in Callers PROVE Cached!Retry(c) => Client!Refuse(c)
    <2>1. SUFFICES ASSUME Cached!Retry(c)
                   PROVE  Client!Refuse(c)
      OBVIOUS
    <2>2. call[c].at = "sent" /\ UNCHANGED <<clientNow, next, pacing, cache, required, expires,
                                             refreshing>>
      BY <2>1 DEF Cached!Retry, Cached!At
    <2>3. call[c].attempt \in Nat
      BY <2>2, ClientTypes DEF Sound, Underway
    <2>4. call[c].attempt + 1 >= 1
      BY <2>3
    <2>5. Cached!Fail(c)
      BY <2>1, <2>4 DEF Cached!Retry
    <2>6. QED
      BY <2>2, <2>5 DEF Client!Refuse, Client!At, Cached!Fail, Client!Fail
  <1>14. ASSUME NEW c \in Callers PROVE Cached!Refuse(c) => Client!Refuse(c)
    BY DEF Cached!Refuse, Client!Refuse, Cached!At, Client!At, Cached!Fail, Client!Fail
  <1>15. ASSUME NEW c \in Callers PROVE Cached!Resume(c) => Client!Resume(c)
    BY DEF Cached!Resume, Client!Resume, Cached!At, Client!At, Cached!Goto, Client!Goto
  <1>16. Cached!Tick => Client!Tick
    BY DEF Cached!Tick, Client!Tick, Cached!Sleeping, Client!Sleeping, Cached!At, Client!At
  <1>17. QED
    BY <1>2, <1>3, <1>4, <1>5, <1>6, <1>7, <1>8, <1>9, <1>10, <1>11, <1>12,
       <1>13, <1>14, <1>15, <1>16
       DEF Cached!Next, Client!Next, Cached!Throttle, Client!Throttle, Cached!Token, Client!Token,
           Cached!Response, Client!Response

(***************************************************************************)
(* The parts side by side.                                                 *)
(***************************************************************************)

PartsInv == IInv /\ BufferInv /\ PollInv /\ CaptureInv /\ ClientInv

LEMMA PartsInitInv == PartsInit => PartsInv
  BY InitInv, BufferInit, PollInit, CaptureInit, ClientInit DEF PartsInit, PartsInv

\* In a step one part moves as it does alone, and the others stay.
LEMMA PartMoves ==
    ASSUME [PartsNext]_partsVars
    PROVE  /\ [Next]_vars
           /\ Buffering!Next \/ UNCHANGED bufferVars
           /\ Polling!Next \/ UNCHANGED pollVars
           /\ Capture!Next \/ CaptureEnd!Next \/ UNCHANGED captureVars
           /\ Retried!Next \/ Cached!Next \/ UNCHANGED clientVars
  <1>1. CASE UNCHANGED partsVars
    <2>1. /\ UNCHANGED vars /\ UNCHANGED bufferVars /\ UNCHANGED pollVars
          /\ UNCHANGED captureVars /\ UNCHANGED clientVars
      BY <1>1 DEF partsVars
    <2>2. QED
      BY <2>1
  <1>2. CASE Only("dispatch") /\ Next
    <2>1. /\ UNCHANGED bufferVars /\ UNCHANGED pollVars
          /\ UNCHANGED captureVars /\ UNCHANGED clientVars
      BY <1>2 DEF Only
    <2>2. QED
      BY <1>2, <2>1
  <1>3. CASE Only("buffer") /\ Buffering!Next
    <2>1. /\ UNCHANGED vars /\ UNCHANGED pollVars
          /\ UNCHANGED captureVars /\ UNCHANGED clientVars
      BY <1>3 DEF Only
    <2>2. QED
      BY <1>3, <2>1
  <1>4. CASE Only("poll") /\ Polling!Next
    <2>1. /\ UNCHANGED vars /\ UNCHANGED bufferVars
          /\ UNCHANGED captureVars /\ UNCHANGED clientVars
      BY <1>4 DEF Only
    <2>2. QED
      BY <1>4, <2>1
  <1>5. CASE \/ Only("capture") /\ Capture!Next
             \/ Only("capture to the end") /\ CaptureEnd!Next
    <2>1. /\ UNCHANGED vars /\ UNCHANGED bufferVars /\ UNCHANGED pollVars
          /\ UNCHANGED clientVars
      BY <1>5 DEF Only
    <2>2. QED
      BY <1>5, <2>1
  <1>6. CASE \/ Only("client") /\ Retried!Next
             \/ Only("cached client") /\ Cached!Next
    <2>1. /\ UNCHANGED vars /\ UNCHANGED bufferVars /\ UNCHANGED pollVars
          /\ UNCHANGED captureVars
      BY <1>6 DEF Only
    <2>2. QED
      BY <1>6, <2>1
  <1>7. \/ UNCHANGED partsVars
        \/ Only("dispatch") /\ Next
        \/ Only("buffer") /\ Buffering!Next
        \/ Only("poll") /\ Polling!Next
        \/ Only("capture") /\ Capture!Next
        \/ Only("capture to the end") /\ CaptureEnd!Next
        \/ Only("client") /\ Retried!Next
        \/ Only("cached client") /\ Cached!Next
    BY Zenon DEF PartsNext
  <1>8. QED
    BY <1>1, <1>2, <1>3, <1>4, <1>5, <1>6, <1>7, Zenon

LEMMA PartsStep ==
    ASSUME PartsInv, [PartsNext]_partsVars
    PROVE  PartsInv' /\ Final /\ Paced
  <1>1. IInv /\ BufferInv /\ PollInv /\ CaptureInv /\ ClientInv
    BY DEF PartsInv
  <1>2. /\ [Next]_vars
        /\ Buffering!Next \/ UNCHANGED bufferVars
        /\ Polling!Next \/ UNCHANGED pollVars
        /\ Capture!Next \/ CaptureEnd!Next \/ UNCHANGED captureVars
        /\ Retried!Next \/ Cached!Next \/ UNCHANGED clientVars
    BY PartMoves
  <1>3. IInv'
    BY <1>1, <1>2, NextKeeps
  <1>4. BufferInv'
    BY <1>1, <1>2, BufferStep
  <1>5. PollInv'
    BY <1>1, <1>2, PollStep
  <1>6. CaptureInv' /\ Final
    BY <1>1, <1>2, EndIsCapture, CaptureStep
  <1>7. ClientInv' /\ Paced
    BY <1>1, <1>2, RetriedIsClient, CachedIsClient, ClientStep
  <1>8. QED
    BY <1>3, <1>4, <1>5, <1>6, <1>7 DEF PartsInv

LEMMA PartsInvHolds == PartsSpec => []PartsInv
  <1>1. PartsInv /\ [PartsNext]_partsVars => PartsInv'
    BY PartsStep
  <1>2. QED
    BY <1>1, PartsInitInv, PTL DEF PartsSpec

\* What was received is kept: a stored row until it is done, the log in the order of
\* event time, every row that a poll should have brought, a finish behind the facts that
\* confirm it, and a live read no older than its call (event_pipeline.py: _ingest,
\* _persist_ready; live_ingestion.py: _poll, _terminal; openf1.py: _get).
THEOREM RowsAreKept == PartsSpec => []RowsKept
  <1>1. PartsInv => RowsKept
    <2>1. SUFFICES ASSUME PartsInv
                   PROVE  RowsKept
      OBVIOUS
    <2>2. TypeOK
      BY <2>1 DEF PartsInv, IInv
    <2>3. /\ Buffering!TypeOK /\ Buffering!PendingHeld /\ Buffering!InTimeOrder
          /\ Buffering!HeldForWindow
      BY <2>1 DEF PartsInv, BufferInv
    <2>4. Polling!TypeOK /\ Polling!NothingMissed
      BY <2>1 DEF PartsInv, PollInv
    <2>5. Capture!TypeOK /\ Capture!FinishWasObserved
      BY <2>1 DEF PartsInv, CaptureInv
    <2>6. Client!TypeOK /\ Client!LiveIsFresh
      BY <2>1, LiveFromInv DEF PartsInv, ClientInv
    <2>7. QED
      BY <2>2, <2>3, <2>4, <2>5, <2>6 DEF RowsKept, PartsTypeOK
  <1>2. QED
    BY <1>1, PartsInvHolds, PTL

\* What was decided is not taken back: a capture that stopped stays stopped, for its
\* reason, whatever the suspended coroutines write; the slots of requests are an interval
\* apart and a token is shared (live_ingestion.py: _run_once, admit_mqtt; openf1.py:
\* _throttle, get_access_token).
THEOREM IntakeKeepsItsWord == PartsSpec => IntakeSteps
  <1>1. PartsInv /\ [PartsNext]_partsVars =>
          [captureP.complete /\ captureP'.enrolled =>
             captureP'.complete /\ captureP'.reason = captureP.reason
             /\ ~Capture!Accepts']_(Capture!vars)
    BY PartsStep DEF Final, Capture!Accepts
  <1>2. PartsInv /\ [PartsNext]_partsVars =>
          [\A c \in Callers : Client!At(c, "slot") /\ call'[c].at # "slot" =>
             clientNow >= next]_(Client!vars)
    BY PartsStep DEF Paced, Client!At
  <1>3. PartsInv /\ [PartsNext]_partsVars =>
          [\A c \in Callers : Client!At(c, "refresh") /\ call'[c].at = "asking" =>
             ~Client!TokenGood]_(Client!vars)
    BY PartsStep DEF Paced, Client!At
  <1>4. QED
    BY <1>1, <1>2, <1>3, PartsInvHolds, PTL
       DEF PartsSpec, IntakeSteps, Capture!StaysStopped, Client!Spaced, Client!SharedRefresh

=============================================================================
