------------------------- MODULE RoomReplay_proofs --------------------------
(***************************************************************************)
(* Safety of the replay of a room for any number of processes, controls,   *)
(* events and failures.  IInv adds to the properties who holds the mutex   *)
(* of a process and what a control that will start a worker relies on.     *)
(***************************************************************************)
EXTENDS RoomReplay, TLAPS

\* The control holds the mutex of its process.
InBody(c) == pc[c] \in Body \cup {"entering"}

Placed == \A c \in Clients : pc[c] # "idle" => where[c] \in Procs /\ kind[c] \in Kinds

\* One control holds the mutex, or a tick does.
Exclusive ==
    \A c \in Clients : InBody(c) =>
        /\ worker[where[c]] \notin Ticking
        /\ \A d \in Clients : InBody(d) /\ where[d] = where[c] => d = c

WorkerHasLease == \A p \in Procs : lease[p] = "none" => worker[p] = "none"

\* The control is going to start a worker.
Starts(c) ==
    \/ pc[c] \in {"resetting", "clearing", "launching"}
    \/ pc[c] = "reading" /\ kind[c] = "start"
    \/ pc[c] \in {"rebuilding", "placing", "unpausing"} /\ begins[c]

NoneAlive == \A c \in Clients : Starts(c) => worker[where[c]] = "none"

NotYet == \A c \in Clients : pc[c] \in {"idle", "queued", "entering"} => ~begins[c]

Plays == \A p \in Procs : worker[p] \in {"ticking", "applied"} => at[p] \in 1 .. LastEvent

IInv ==
    /\ TypeOK /\ Placed /\ Exclusive /\ WorkerHasLease /\ NoneAlive /\ NotYet /\ Plays
    /\ TickIsCurrent /\ LeaseHasUser /\ PausedNotReplaying

-----------------------------------------------------------------------------
(* What a step may do to a control and to a worker.                        *)

Maps ==
    /\ pc \in [Clients -> Labels] /\ where \in [Clients -> Procs \cup {Nobody}]
    /\ kind \in [Clients -> Kinds \cup {"none"}] /\ begins \in [Clients -> BOOLEAN]
    /\ lease \in [Procs -> {"none", "held", "lost", "retiring"}]
    /\ worker \in [Procs -> States] /\ at \in [Procs -> 0 .. LastEvent]

\* The control c is not moved, is asked for, returns, or takes a step of its own.
Stands(c) ==
    pc'[c] = pc[c] /\ where'[c] = where[c] /\ kind'[c] = kind[c] /\ begins'[c] = begins[c]
Asks(c) ==
    /\ pc[c] = "idle" /\ pc'[c] = "queued" /\ where'[c] \in Procs /\ kind'[c] \in Kinds
    /\ begins'[c] = begins[c]
Returns(c) == pc'[c] = "idle" /\ ~begins'[c]
Goes(c) ==
    Control(c) /\ pc[c] # "idle" /\ where'[c] = where[c] /\ kind'[c] = kind[c]

LEMMA ReturnSteps ==
    ASSUME Maps, NEW S, Return(S)
    PROVE  \A d \in Clients : IF d \in S THEN Returns(d) ELSE Stands(d)
  BY DEF Maps, Return, Returns, Stands

\* Only c is moved by a control of c.
OnlyMoves(c) ==
    /\ \A d \in Clients \ {c} : Stands(d)
    /\ Stands(c) \/ Returns(c) \/ Goes(c)

LEMMA GotoMoves ==
    ASSUME Maps, NEW c \in Clients, NEW l, Goto(c, l), UNCHANGED locals,
           Control(c), pc[c] # "idle"
    PROVE  OnlyMoves(c)
  BY DEF Maps, Goto, locals, Stands, Goes, OnlyMoves

LEMMA ReturnMoves ==
    ASSUME Maps, NEW c \in Clients, Return({c})
    PROVE  OnlyMoves(c)
  BY ReturnSteps DEF OnlyMoves

LEMMA ControlMoves ==
    ASSUME Maps, NEW c \in Clients, Control(c)
    PROVE  OnlyMoves(c)
  <1>1. CASE ClaimRefused(c) \/ ClaimLost(c) \/ JoinRefused(c) \/ EnterFails(c) \/ Stop(c)
    BY <1>1, ReturnMoves DEF ClaimRefused, ClaimLost, JoinRefused, EnterFails, Stop
  <1>2. CASE Enter(c) \/ Claim(c) \/ Join(c)
    BY <1>2, GotoMoves DEF Enter, Claim, Join
  <1>3. CASE ResetRoom(c) \/ Rebuild(c) \/ Place(c) \/ Settle(c) \/ Unpause(c) \/ Launch(c)
    BY <1>3, GotoMoves DEF ResetRoom, Rebuild, Place, Settle, Unpause, Launch
  <1>4. CASE Pause(c) \/ Raise(c)
    <2>1. pc[c] # "idle"
      BY <1>4 DEF Pause, Raise, Body
    <2>2. QED
      BY <1>4, <2>1, GotoMoves DEF Pause, Raise
  <1>5. CASE Leave(c)
    <2>1. pc[c] # "idle" /\ ((Goto(c, "stopping") /\ UNCHANGED locals) \/ Return({c}))
      BY <1>5 DEF Leave
    <2>2. QED
      BY <2>1, GotoMoves, ReturnMoves
  <1>6. CASE Replace(c)
    BY <1>6 DEF Replace, locals, Stands, OnlyMoves
  <1>7. CASE ClearEngine(c) \/ ReadPlayback(c)
    BY <1>7 DEF ClearEngine, ReadPlayback, Goto, Maps, Stands, Goes, OnlyMoves
  <1>8. QED
    BY <1>1, <1>2, <1>3, <1>4, <1>5, <1>6, <1>7 DEF Control

\* The steps that move no control.
Elsewhere ==
    \/ \E p \in Procs : Worker(p) \/ LoseLease(p)
    \/ Expire \/ Recover \/ UNCHANGED vars

LEMMA ElsewhereStands ==
    ASSUME Elsewhere, NEW c \in Clients
    PROVE  Stands(c)
  <1>1. UNCHANGED <<pc, locals>>
    BY DEF Elsewhere, Worker, TickBegin, Apply, Advance, Complete, TickLost, WorkerFails,
           RecordFailed, WorkerCancelled, WorkerLeaves, LoseLease, Expire, Recover, vars, locals
  <1>2. QED
    BY <1>1 DEF locals, Stands

Restarts(p) == Crash(p) \/ Close(p)

LEMMA RestartMoves ==
    ASSUME Maps, NEW p \in Procs, Restarts(p), NEW c \in Clients
    PROVE  IF where[c] = p THEN Returns(c) ELSE Stands(c)
  <1>1. Return({d \in Clients : where[d] = p})
    BY DEF Restarts, Crash, Close, Restarted
  <1>2. QED
    BY <1>1, ReturnSteps

LEMMA RequestMoves ==
    ASSUME Maps, NEW c \in Clients, NEW p \in Procs, NEW k \in Kinds, NEW n,
           Request(c, p, k, n)
    PROVE  Asks(c) /\ \A d \in Clients \ {c} : Stands(d)
  BY DEF Maps, Request, Goto, Asks, Stands

LEMMA ClientSteps ==
    ASSUME Maps, [Next]_vars, NEW c \in Clients
    PROVE  Stands(c) \/ Asks(c) \/ Returns(c) \/ Goes(c)
  <1>1. CASE Elsewhere
    BY <1>1, ElsewhereStands
  <1>2. ASSUME NEW d \in Clients, Control(d)
        PROVE  Stands(c) \/ Asks(c) \/ Returns(c) \/ Goes(c)
    BY <1>2, ControlMoves DEF OnlyMoves
  <1>3. ASSUME NEW d \in Clients, NEW p \in Procs, NEW k \in Kinds, NEW n \in 0 .. LastEvent,
               Request(d, p, k, n)
        PROVE  Stands(c) \/ Asks(c) \/ Returns(c) \/ Goes(c)
    BY <1>3, RequestMoves
  <1>4. ASSUME NEW p \in Procs, Restarts(p)
        PROVE  Stands(c) \/ Asks(c) \/ Returns(c) \/ Goes(c)
    BY <1>4, RestartMoves
  <1>5. QED
    BY <1>1, <1>2, <1>3, <1>4 DEF Next, Elsewhere, Restarts

\* A control that takes a step holds the mutex, or waits for it.
LEMMA BodyFrom ==
    ASSUME NEW c \in Clients, Control(c)
    PROVE  InBody(c) \/ Enter(c) \/ Stop(c)
  <1>1. CASE Enter(c) \/ Stop(c)
    BY <1>1
  <1>2. CASE pc[c] \in Body \cup {"entering"}
    BY <1>2 DEF InBody
  <1>3. CASE Replace(c) \/ Claim(c) \/ ClaimRefused(c) \/ ClaimLost(c) \/ Join(c) \/ JoinRefused(c) \/ EnterFails(c)
    BY <1>3 DEF InBody, Replace, Claim, ClaimRefused, ClaimLost, Join, JoinRefused, EnterFails
  <1>4. CASE Leave(c) \/ ResetRoom(c) \/ ClearEngine(c) \/ ReadPlayback(c) \/ Rebuild(c) \/ Place(c)
    BY <1>4 DEF InBody, Body, Leave, ResetRoom, ClearEngine, ReadPlayback, Rebuild, Place
  <1>5. CASE Settle(c) \/ Unpause(c) \/ Launch(c) \/ Pause(c) \/ Raise(c)
    BY <1>5 DEF InBody, Body, Settle, Unpause, Launch, Pause, Raise
  <1>6. QED
    BY <1>1, <1>3, <1>4, <1>5 DEF Control

\* The mutex is entered by Enter only.
LEMMA BodySteps ==
    ASSUME Maps, [Next]_vars, NEW c \in Clients, InBody(c)'
    PROVE  Enter(c) \/ (InBody(c) /\ where'[c] = where[c] /\ kind'[c] = kind[c])
  <1>1. pc'[c] # "idle" /\ pc'[c] # "queued"
    BY DEF InBody, Body
  <1>2. CASE Stands(c)
    BY <1>2 DEF Stands, InBody
  <1>3. CASE Goes(c)
    <2>1. CASE Stop(c)
      <3>1. Returns(c)
        BY <2>1, ReturnSteps DEF Stop
      <3>2. QED
        BY <1>1, <3>1 DEF Returns
    <2>2. QED
      BY <1>3, <2>1, BodyFrom DEF Goes
  <1>4. QED
    BY <1>1, <1>2, <1>3, ClientSteps DEF Asks, Returns

\* What a step may do to the worker of p and to its lease.
Same(p) == worker'[p] = worker[p] /\ at'[p] = at[p] /\ lease'[p] = lease[p]
Ends(p) == worker'[p] = "none" /\ lease'[p] = "none"
Retires(p) ==
    worker[p] # "none" /\ worker'[p] \in {"failing", "leaving"} /\ lease'[p] = "retiring"
Loses(p) == worker'[p] = worker[p] /\ at'[p] = at[p] /\ lease[p] = "held" /\ lease'[p] = "lost"
Claims(p) ==
    /\ worker'[p] = worker[p] /\ at'[p] = at[p] /\ lease'[p] = "held"
    /\ \E c \in Clients : Claim(c) /\ where[c] = p
Launches(p) ==
    /\ worker'[p] = "waiting" /\ lease[p] = "held" /\ lease'[p] = "held"
    /\ \E c \in Clients : Launch(c) /\ where[c] = p
Ticks(p) == lease'[p] = lease[p] /\ (TickBegin(p) \/ Apply(p) \/ Advance(p))

ProcMoves(p) ==
    Same(p) \/ Ends(p) \/ Retires(p) \/ Loses(p) \/ Claims(p) \/ Launches(p) \/ Ticks(p)

LEMMA CancelEnds ==
    ASSUME Maps, NEW p \in Procs, CancelWorker(p), NEW q \in Procs
    PROVE  IF q = p THEN Ends(q) ELSE Same(q)
  BY DEF Maps, CancelWorker, Works, ReleaseLease, Ends, Same

LEMMA RetireSteps ==
    ASSUME Maps, NEW p \in Procs, NEW l \in {"failing", "leaving"}, Retire(p, l),
           worker[p] # "none", NEW q \in Procs
    PROVE  IF q = p THEN Retires(q) ELSE Same(q)
  BY DEF Maps, Retire, Works, Retires, Same

LEMMA ControlProcs ==
    ASSUME Maps, Placed, NEW c \in Clients, Control(c), NEW p \in Procs
    PROVE  ProcMoves(p)
  <1>1. CASE Enter(c) \/ ClaimRefused(c) \/ ClaimLost(c) \/ Join(c) \/ JoinRefused(c) \/ EnterFails(c)
    BY <1>1 DEF Enter, ClaimRefused, ClaimLost, Join, JoinRefused, EnterFails, process,
                ProcMoves, Same
  <1>2. CASE ResetRoom(c) \/ ClearEngine(c) \/ ReadPlayback(c) \/ Rebuild(c) \/ Place(c)
    BY <1>2 DEF ResetRoom, ClearEngine, ReadPlayback, Rebuild, Place, process, ProcMoves, Same
  <1>3. CASE Settle(c) \/ Unpause(c) \/ Pause(c) \/ Raise(c)
    BY <1>3 DEF Settle, Unpause, Pause, Raise, process, ProcMoves, Same
  <1>4. CASE Replace(c)
    <2>1. where[c] \in Procs
      BY <1>4 DEF Replace, Placed
    <2>2. CASE CancelWorker(where[c])
      BY <2>1, <2>2, CancelEnds DEF ProcMoves
    <2>3. CASE ~CancelWorker(where[c])
      BY <1>4, <2>1, <2>3 DEF Replace, Works, Maps, ProcMoves, Ends, Same
    <2>4. QED
      BY <2>2, <2>3
  <1>5. CASE Claim(c)
    BY <1>5 DEF Claim, Maps, ProcMoves, Claims, Same
  <1>6. CASE Launch(c)
    BY <1>6 DEF Launch, Works, Maps, ProcMoves, Launches, Same
  <1>7. CASE Leave(c)
    BY <1>7 DEF Leave, ReleaseLease, process, Maps, ProcMoves, Ends, Same
  <1>8. CASE Stop(c)
    <2>1. where[c] \in Procs
      BY <1>8 DEF Stop, Placed
    <2>2. CASE CancelWorker(where[c])
      BY <2>1, <2>2, CancelEnds DEF ProcMoves
    <2>3. CASE ~CancelWorker(where[c])
      BY <1>8, <2>3 DEF Stop, ProcMoves, Same
    <2>4. QED
      BY <2>2, <2>3
  <1>9. QED
    BY <1>1, <1>2, <1>3, <1>4, <1>5, <1>6, <1>7, <1>8 DEF Control

LEMMA WorkerProcs ==
    ASSUME Maps, NEW q \in Procs, Worker(q), NEW p \in Procs
    PROVE  ProcMoves(p)
  <1>1. CASE TickBegin(q) \/ Apply(q) \/ Advance(q)
    BY <1>1 DEF TickBegin, Apply, Advance, Works, Maps, ProcMoves, Ticks, Same
  <1>2. CASE Complete(q) \/ TickLost(q) \/ WorkerFails(q) \/ RecordFailed(q) \/ WorkerCancelled(q)
    <2>1. worker[q] # "none" /\ (Retire(q, "leaving") \/ Retire(q, "failing"))
      BY <1>2 DEF Complete, TickLost, WorkerFails, RecordFailed, WorkerCancelled, Ticking
    <2>2. QED
      BY <2>1, RetireSteps DEF ProcMoves
  <1>3. CASE WorkerLeaves(q)
    BY <1>3, CancelEnds DEF WorkerLeaves, ProcMoves
  <1>4. QED
    BY <1>1, <1>2, <1>3 DEF Worker

LEMMA ProcSteps ==
    ASSUME Maps, Placed, [Next]_vars, NEW p \in Procs
    PROVE  ProcMoves(p)
  <1>1. CASE \E c \in Clients : Control(c)
    BY <1>1, ControlProcs
  <1>2. CASE \E q \in Procs : Worker(q)
    BY <1>2, WorkerProcs
  <1>3. ASSUME NEW q \in Procs, LoseLease(q)
        PROVE  ProcMoves(p)
    BY <1>3 DEF LoseLease, Maps, ProcMoves, Loses, Same
  <1>4. ASSUME NEW q \in Procs, Restarts(q)
        PROVE  ProcMoves(p)
    BY <1>4 DEF Restarts, Crash, Close, Restarted, Works, Maps, ProcMoves, Ends, Same
  <1>5. CASE Expire \/ Recover \/ UNCHANGED vars
    BY <1>5 DEF Expire, Recover, vars, process, ProcMoves, Same
  <1>6. CASE \E c \in Clients, q \in Procs, k \in Kinds, n \in 0 .. LastEvent : Request(c, q, k, n)
    BY <1>6 DEF Request, process, ProcMoves, Same
  <1>7. QED
    BY <1>1, <1>2, <1>3, <1>4, <1>5, <1>6 DEF Next, Restarts

-----------------------------------------------------------------------------
(* The mutex.                                                              *)

LEMMA HasMaps == ASSUME IInv PROVE Maps /\ Placed
  BY DEF IInv, TypeOK, Maps

LEMMA PlacedKept == ASSUME IInv, [Next]_vars PROVE Placed'
  <1>1. ASSUME NEW c \in Clients, pc'[c] # "idle"
        PROVE  where'[c] \in Procs /\ kind'[c] \in Kinds
    BY <1>1, HasMaps, ClientSteps DEF Placed, Stands, Asks, Returns, Goes
  <1>2. QED
    BY <1>1 DEF Placed

\* A tick begins only where no control holds the mutex.
LEMMA NoTickBeside ==
    ASSUME IInv, [Next]_vars, NEW c \in Clients, InBody(c)
    PROVE  worker'[where[c]] \notin Ticking
  <1>1. where[c] \in Procs /\ worker[where[c]] \notin Ticking
    BY HasMaps DEF IInv, Exclusive, Placed, InBody, Body
  <1>2. ~TickBegin(where[c])
    BY DEF TickBegin, MutexFree, At, InBody
  <1>3. ~Apply(where[c]) /\ ~Advance(where[c])
    BY <1>1 DEF Apply, Advance, Ticking
  <1>4. QED
    BY <1>1, <1>2, <1>3, HasMaps, ProcSteps
       DEF ProcMoves, Same, Ends, Retires, Loses, Claims, Launches, Ticks, Ticking

LEMMA EnterAlone ==
    ASSUME IInv, NEW c \in Clients, Enter(c)
    PROVE  /\ where'[c] = where[c] /\ where[c] \in Procs /\ UNCHANGED worker
           /\ worker[where[c]] \notin Ticking
           /\ \A d \in Clients : InBody(d) => where[d] # where[c]
           /\ \A d \in Clients \ {c} : Stands(d)
  <1>1. Control(c)
    BY DEF Control
  <1>2. \A d \in Clients \ {c} : Stands(d)
    BY <1>1, HasMaps, ControlMoves DEF OnlyMoves
  <1>3. where'[c] = where[c] /\ where[c] \in Procs /\ UNCHANGED worker
    BY HasMaps DEF Enter, Placed, process, locals
  <1>4. worker[where[c]] \notin Ticking /\ \A d \in Clients : InBody(d) => where[d] # where[c]
    BY DEF Enter, MutexFree, At, InBody
  <1>5. QED
    BY <1>2, <1>3, <1>4

LEMMA ExclusiveKept == ASSUME IInv, [Next]_vars PROVE Exclusive'
  <1>1. SUFFICES ASSUME NEW c \in Clients, InBody(c)'
                 PROVE  /\ worker'[where'[c]] \notin Ticking
                        /\ \A d \in Clients : InBody(d)' /\ where'[d] = where'[c] => d = c
    BY DEF Exclusive, Ticking
  <1>2. CASE Enter(c)
    <2>1. worker'[where'[c]] \notin Ticking
      BY <1>2, EnterAlone
    <2>2. ASSUME NEW d \in Clients \ {c}, InBody(d)', where'[d] = where'[c]
          PROVE  FALSE
      <3>1. InBody(d) /\ where[d] = where[c]
        BY <1>2, <2>2, EnterAlone DEF Stands, InBody
      <3>2. QED
        BY <1>2, <3>1, EnterAlone
    <2>3. QED
      BY <2>1, <2>2
  <1>3. CASE InBody(c) /\ where'[c] = where[c]
    <2>1. worker'[where'[c]] \notin Ticking
      BY <1>3, NoTickBeside
    <2>2. ASSUME NEW d \in Clients, InBody(d)', where'[d] = where'[c]
          PROVE  d = c
      <3>1. CASE Enter(d)
        BY <1>3, <2>2, <3>1, EnterAlone
      <3>2. CASE InBody(d) /\ where'[d] = where[d]
        BY <1>3, <2>2, <3>2 DEF IInv, Exclusive
      <3>3. QED
        BY <2>2, <3>1, <3>2, HasMaps, BodySteps
    <2>3. QED
      BY <2>1, <2>2
  <1>4. QED
    BY <1>1, <1>2, <1>3, HasMaps, BodySteps

LEMMA WorkerHasLeaseKept == ASSUME IInv, [Next]_vars PROVE WorkerHasLease'
  <1>1. ASSUME NEW p \in Procs, lease'[p] = "none"
        PROVE  worker'[p] = "none"
    <2>1. CASE Ticks(p)
      <3>1. worker[p] # "none"
        BY <2>1 DEF Ticks, TickBegin, Apply, Advance
      <3>2. QED
        BY <1>1, <2>1, <3>1 DEF Ticks, IInv, WorkerHasLease
    <2>2. QED
      BY <1>1, <2>1, HasMaps, ProcSteps
         DEF ProcMoves, Same, Ends, Retires, Loses, Claims, Launches, IInv, WorkerHasLease
  <1>2. QED
    BY <1>1 DEF WorkerHasLease

\* A control that holds the mutex is the only one that starts a worker.
LEMMA StaysDead ==
    ASSUME IInv, [Next]_vars, NEW c \in Clients, InBody(c), worker[where[c]] = "none", ~Launch(c)
    PROVE  worker'[where[c]] = "none"
  <1>1. where[c] \in Procs
    BY HasMaps DEF Placed, InBody, Body
  <1>2. \A d \in Clients : Launch(d) /\ where[d] = where[c] => d = c
    BY DEF Launch, InBody, Body, IInv, Exclusive
  <1>3. ~Launches(where[c])
    BY <1>2 DEF Launches
  <1>4. ~Ticks(where[c])
    BY DEF Ticks, TickBegin, Apply, Advance
  <1>5. QED
    BY <1>1, <1>3, <1>4, HasMaps, ProcSteps DEF ProcMoves, Same, Ends, Retires, Loses, Claims

LEMMA StartsInBody ==
    ASSUME NEW c \in Clients, Starts(c)
    PROVE  InBody(c)
  BY DEF Starts, InBody, Body

\* A control is going to start a worker only after it has seen that none is alive.
LEMMA StartsFrom ==
    ASSUME IInv, NEW c \in Clients, Control(c), Starts(c)'
    PROVE  worker[where[c]] = "none" /\ InBody(c) /\ ~Launch(c)
  <1>1. /\ pc'[c] \in {"resetting", "clearing", "launching", "reading", "rebuilding", "placing",
                       "unpausing"}
        /\ pc'[c] = "reading" => kind'[c] = "start"
        /\ pc'[c] \in {"rebuilding", "placing", "unpausing"} => begins'[c]
    BY DEF Starts
  <1>2. Maps /\ Placed
    BY HasMaps
  <1>3. CASE Claim(c)
    <2>1. lease[where[c]] = "none" /\ pc[c] = "entering"
      BY <1>3 DEF Claim
    <2>2. where[c] \in Procs
      BY <1>2, <2>1 DEF Placed
    <2>3. ~Launch(c)
      BY <2>1 DEF Launch
    <2>4. QED
      BY <2>1, <2>2, <2>3 DEF IInv, WorkerHasLease, InBody
  <1>4. CASE Join(c)
    <2>1. pc[c] = "entering" /\ kind[c] \in {"resume", "pause", "seek"} /\ UNCHANGED locals
      BY <1>2, <1>4 DEF Join, Placed, Kinds
    <2>2. pc'[c] = FirstStep(kind[c])
      BY <1>2, <1>4 DEF Join, Goto, Maps
    <2>3. ~begins'[c] /\ kind'[c] = kind[c]
      BY <2>1 DEF IInv, NotYet, locals
    <2>4. QED
      BY <1>1, <2>1, <2>2, <2>3 DEF FirstStep
  <1>5. CASE ResetRoom(c) \/ ClearEngine(c)
    BY <1>2, <1>5 DEF ResetRoom, ClearEngine, Launch, InBody, Body, IInv, NoneAlive, Starts
  <1>6. CASE ReadPlayback(c)
    <2>1. begins'[c] = (kind[c] = "start" \/ worker[where[c]] = "none")
      BY <1>2, <1>6 DEF ReadPlayback, Maps
    <2>2. pc[c] = "reading" /\ pc'[c] \in {"rebuilding", "unpausing"}
      BY <1>2, <1>6 DEF ReadPlayback, Goto, Maps
    <2>3. begins'[c]
      BY <1>1, <2>2
    <2>4. QED
      BY <2>1, <2>2, <2>3 DEF Launch, InBody, Body, IInv, NoneAlive, Starts
  <1>7. CASE Rebuild(c) \/ Place(c)
    <2>1. pc[c] \in {"rebuilding", "placing"} /\ begins'[c] = begins[c]
          /\ pc'[c] \in {"placing", "settling", "unpausing"}
      BY <1>2, <1>7 DEF Rebuild, Place, Goto, Maps, locals
    <2>2. begins[c]
      BY <1>1, <2>1
    <2>3. QED
      BY <2>1, <2>2 DEF Launch, InBody, Body, IInv, NoneAlive, Starts
  <1>8. CASE Unpause(c)
    <2>1. pc[c] = "unpausing" /\ begins'[c] = begins[c]
          /\ pc'[c] = IF begins[c] THEN "launching" ELSE "leaving"
      BY <1>2, <1>8 DEF Unpause, Goto, Maps, locals
    <2>2. begins[c]
      BY <1>1, <2>1
    <2>3. QED
      BY <2>1, <2>2 DEF Launch, InBody, Body, IInv, NoneAlive, Starts
  <1>9. CASE Enter(c) \/ Settle(c) \/ Launch(c) \/ Pause(c) \/ Raise(c) \/ Replace(c)
    BY <1>1, <1>2, <1>9 DEF Enter, Settle, Launch, Pause, Raise, Replace, Goto, Maps
  <1>10. CASE Leave(c)
    BY <1>1, <1>2, <1>10, ReturnMoves, ReturnSteps DEF Leave, Goto, Maps, Returns
  <1>11. CASE ClaimRefused(c) \/ ClaimLost(c) \/ JoinRefused(c) \/ EnterFails(c) \/ Stop(c)
    <2>1. Returns(c)
      BY <1>2, <1>11, ReturnSteps DEF ClaimRefused, ClaimLost, JoinRefused, EnterFails, Stop
    <2>2. QED
      BY <1>1, <2>1 DEF Returns
  <1>12. QED
    BY <1>3, <1>4, <1>5, <1>6, <1>7, <1>8, <1>9, <1>10, <1>11 DEF Control

LEMMA NoneAliveKept == ASSUME IInv, [Next]_vars PROVE NoneAlive'
  <1>1. SUFFICES ASSUME NEW c \in Clients, Starts(c)'
                 PROVE  worker'[where'[c]] = "none"
    BY DEF NoneAlive
  <1>2. CASE Stands(c)
    <2>1. Starts(c)
      BY <1>1, <1>2 DEF Stands, Starts
    <2>2. InBody(c) /\ worker[where[c]] = "none"
      BY <2>1, StartsInBody DEF IInv, NoneAlive
    <2>3. ~Launch(c)
      BY <1>2, HasMaps DEF Stands, Launch, Goto, Maps
    <2>4. QED
      BY <1>2, <2>2, <2>3, StaysDead DEF Stands
  <1>3. CASE Goes(c)
    BY <1>1, <1>3, StartsFrom, StaysDead DEF Goes
  <1>4. CASE Asks(c) \/ Returns(c)
    BY <1>1, <1>4 DEF Asks, Returns, Starts
  <1>5. QED
    BY <1>2, <1>3, <1>4, HasMaps, ClientSteps

LEMMA NotYetKept == ASSUME IInv, [Next]_vars PROVE NotYet'
  <1>1. SUFFICES ASSUME NEW c \in Clients, pc'[c] \in {"idle", "queued", "entering"}
                 PROVE  ~begins'[c]
    BY DEF NotYet
  <1>2. CASE Stands(c) \/ Asks(c) \/ Returns(c)
    BY <1>1, <1>2 DEF Stands, Asks, Returns, IInv, NotYet
  <1>3. CASE Goes(c) /\ ~Returns(c) /\ ~Stands(c)
    <2>1. Maps /\ Control(c)
      BY <1>3, HasMaps DEF Goes
    <2>2. CASE Enter(c)
      BY <2>2 DEF Enter, locals, IInv, NotYet
    <2>3. CASE Stop(c) \/ ClaimRefused(c) \/ ClaimLost(c) \/ JoinRefused(c) \/ EnterFails(c)
      BY <1>3, <2>1, <2>3, ReturnSteps DEF ClaimRefused, ClaimLost, JoinRefused, EnterFails, Stop
    <2>4. CASE Claim(c) \/ Join(c)
      <3>1. kind[c] \in Kinds
        BY <2>4, HasMaps DEF Claim, Join, Placed
      <3>2. pc'[c] = FirstStep(kind[c])
        BY <2>1, <2>4 DEF Claim, Join, Goto, Maps
      <3>3. QED
        BY <1>1, <3>1, <3>2 DEF FirstStep, Kinds
    <2>5. CASE ResetRoom(c) \/ ClearEngine(c) \/ ReadPlayback(c) \/ Rebuild(c) \/ Place(c)
      BY <1>1, <2>1, <2>5 DEF ResetRoom, ClearEngine, ReadPlayback, Rebuild, Place, Goto, Maps
    <2>6. CASE Settle(c) \/ Unpause(c) \/ Launch(c) \/ Pause(c) \/ Raise(c)
      BY <1>1, <2>1, <2>6 DEF Settle, Unpause, Launch, Pause, Raise, Goto, Maps
    <2>7. CASE Leave(c)
      BY <1>1, <1>3, <2>1, <2>7, ReturnSteps DEF Leave, Goto, Maps
    <2>8. CASE Replace(c)
      BY <1>3, <2>8 DEF Replace, locals, Stands
    <2>9. QED
      BY <2>1, <2>2, <2>3, <2>4, <2>5, <2>6, <2>7, <2>8 DEF Control
  <1>4. QED
    BY <1>2, <1>3, HasMaps, ClientSteps

LEMMA PlaysKept == ASSUME IInv, [Next]_vars PROVE Plays'
  <1>1. SUFFICES ASSUME NEW p \in Procs, worker'[p] \in {"ticking", "applied"}
                 PROVE  at'[p] \in 1 .. LastEvent
    BY DEF Plays
  <1>2. Maps /\ position \in 0 .. LastEvent
    BY HasMaps DEF IInv, TypeOK
  <1>3. CASE TickBegin(p)
    <2>1. position < LastEvent /\ at'[p] = position + 1
      BY <1>1, <1>2, <1>3 DEF TickBegin, Maps
    <2>2. QED
      BY <1>2, <2>1, LastEventAssumption
  <1>4. CASE Apply(p)
    BY <1>4 DEF Apply, IInv, Plays
  <1>5. CASE Advance(p)
    BY <1>1, <1>2, <1>5 DEF Advance, Works, Maps
  <1>6. CASE Same(p) \/ Loses(p) \/ Claims(p)
    BY <1>1, <1>6 DEF Same, Loses, Claims, IInv, Plays
  <1>7. QED
    BY <1>1, <1>3, <1>4, <1>5, <1>6, HasMaps, ProcSteps DEF ProcMoves, Ends, Retires, Launches, Ticks

\* A lease that is held has a user.
LEMMA LeaseHasUserKept == ASSUME IInv, [Next]_vars PROVE LeaseHasUser'
  <1>1. SUFFICES ASSUME NEW p \in Procs, lease'[p] = "held", worker'[p] = "none"
                 PROVE  \E c \in Clients : where'[c] = p /\ pc'[c] \in Body
    BY DEF LeaseHasUser, At
  <1>2. Maps /\ Placed
    BY HasMaps
  <1>3. CASE Claims(p)
    <2>1. PICK c \in Clients : Claim(c) /\ where[c] = p
      BY <1>3 DEF Claims
    <2>2. kind[c] \in Kinds /\ pc'[c] = FirstStep(kind[c]) /\ where'[c] = p
      BY <1>2, <2>1 DEF Claim, Placed, Goto, Maps, locals
    <2>3. QED
      BY <2>2 DEF FirstStep, Kinds, Body
  <1>4. CASE Same(p)
    <2>1. PICK c \in Clients : where[c] = p /\ pc[c] \in Body
      BY <1>1, <1>4 DEF Same, IInv, LeaseHasUser, At
    <2>2. CASE Stands(c)
      BY <2>1, <2>2 DEF Stands
    <2>3. CASE ~Stands(c)
      <3>1. ~Elsewhere
        BY <2>3, ElsewhereStands
      <3>2. \A q \in Procs : ~Restarts(q)
        <4>1. ASSUME NEW q \in Procs, Restarts(q) PROVE FALSE
          <5>1. q = p
            BY <1>2, <2>1, <2>3, <4>1, RestartMoves
          <5>2. lease'[p] = "none"
            BY <1>2, <4>1, <5>1 DEF Restarts, Crash, Close, Restarted, Maps
          <5>3. QED
            BY <1>1, <5>2
        <4>2. QED
          BY <4>1
      <3>3. \A d \in Clients, q \in Procs, k \in Kinds, n \in 0 .. LastEvent : ~Request(d, q, k, n)
        BY <1>2, <2>1, <2>3, RequestMoves DEF Asks, Body
      <3>4. Control(c)
        BY <1>2, <2>3, <3>1, <3>2, <3>3, ControlMoves
           DEF Next, Elsewhere, Restarts, OnlyMoves
      <3>5. ~Enter(c) /\ ~Stop(c)
        BY <2>1 DEF Enter, Stop, Body
      <3>6. ~Leave(c)
        <4>1. ASSUME Leave(c) PROVE FALSE
          <5>1. worker[p] = "none"
            BY <1>1, <1>4 DEF Same
          <5>2. lease'[p] = "none"
            BY <1>2, <2>1, <4>1, <5>1 DEF Leave, ReleaseLease, Maps
          <5>3. QED
            BY <1>1, <5>2
        <4>2. QED
          BY <4>1
      <3>7. CASE Settle(c) \/ Unpause(c) \/ Pause(c) \/ Raise(c) \/ Launch(c)
        BY <1>2, <2>1, <3>7 DEF Settle, Unpause, Pause, Raise, Launch, Goto, Maps, locals, Body
      <3>8. CASE ResetRoom(c) \/ ClearEngine(c) \/ ReadPlayback(c) \/ Rebuild(c) \/ Place(c)
        BY <1>2, <2>1, <3>8
           DEF ResetRoom, ClearEngine, ReadPlayback, Rebuild, Place, Goto, Maps, locals, Body
      <3>9. pc[c] # "entering"
        BY <2>1 DEF Body
      <3>10. QED
        BY <3>4, <3>5, <3>6, <3>7, <3>8, <3>9
           DEF Control, Replace, Claim, ClaimRefused, ClaimLost, Join, JoinRefused, EnterFails
    <2>4. QED
      BY <2>2, <2>3
  <1>5. CASE Ticks(p)
    BY <1>1, <1>2, <1>5 DEF Ticks, TickBegin, Apply, Advance, Works, Maps
  <1>6. QED
    BY <1>1, <1>2, <1>3, <1>4, <1>5, ProcSteps DEF ProcMoves, Ends, Retires, Loses, Launches

-----------------------------------------------------------------------------
(* The row of the room.                                                    *)

\* A process comes to own the room only by a control that holds its mutex.
LEMMA OwnSteps ==
    ASSUME IInv, [Next]_vars, NEW p \in Procs, Owns(p)'
    PROVE  Owns(p) \/ \E c \in Clients : InBody(c) /\ where[c] = p
  <1>1. CASE UNCHANGED ownership
    BY <1>1 DEF ownership, Owns
  <1>2. CASE owner' \in {Nobody} \/ ~valid'
    BY <1>2, NobodyAssumption DEF Owns
  <1>3. ASSUME NEW c \in Clients, Claim(c) \/ ClaimLost(c)
        PROVE  Owns(p) \/ \E d \in Clients : InBody(d) /\ where[d] = p
    BY <1>3 DEF Claim, ClaimLost, InBody, Owns
  <1>4. ASSUME NEW q, ClearToken(q)
        PROVE  Owns(p)
    BY <1>4 DEF ClearToken, Owns
  <1>5. ASSUME NEW c \in Clients, Control(c), ~Claim(c), ~ClaimLost(c)
        PROVE  UNCHANGED ownership \/ ClearToken(where[c])
    <2>1. CASE Enter(c) \/ ClaimRefused(c) \/ Join(c) \/ JoinRefused(c) \/ EnterFails(c) \/ ResetRoom(c) \/ ClearEngine(c) \/ ReadPlayback(c)
      BY <2>1 DEF Enter, ClaimRefused, Join, JoinRefused, EnterFails, ResetRoom, ClearEngine,
                  ReadPlayback
    <2>2. CASE Rebuild(c) \/ Place(c) \/ Settle(c) \/ Unpause(c) \/ Launch(c) \/ Pause(c) \/ Raise(c)
      BY <2>2 DEF Rebuild, Place, Settle, Unpause, Launch, Pause, Raise
    <2>3. CASE Leave(c) \/ Stop(c) \/ Replace(c)
      BY <2>3 DEF Leave, Stop, Replace, CancelWorker, ReleaseLease, ownership
    <2>4. QED
      BY <1>5, <2>1, <2>2, <2>3 DEF Control
  <1>6. ASSUME NEW q \in Procs, Worker(q) \/ LoseLease(q) \/ Restarts(q)
        PROVE  UNCHANGED ownership \/ ClearToken(q)
    <2>1. CASE Worker(q)
      BY <2>1 DEF Worker, TickBegin, Apply, Advance, Complete, TickLost, WorkerFails, RecordFailed,
                  WorkerCancelled, WorkerLeaves, CancelWorker, ReleaseLease
    <2>2. QED
      BY <1>6, <2>1 DEF LoseLease, Restarts, Crash, Close
  <1>7. CASE Expire \/ Recover
    BY <1>2, <1>7 DEF Expire, Recover
  <1>8. ASSUME NEW c \in Clients, NEW q \in Procs, NEW k \in Kinds, NEW n \in 0 .. LastEvent,
               Request(c, q, k, n)
        PROVE  UNCHANGED ownership
    BY <1>8 DEF Request
  <1>9. CASE UNCHANGED vars
    BY <1>1, <1>9 DEF vars, ownership
  <1>10. QED
    BY <1>1, <1>3, <1>4, <1>5, <1>6, <1>7, <1>8, <1>9 DEF Next, Restarts

\* Who writes the row: a control or a worker of the owner, or the orphan sweep.
RowMoves ==
    \/ UNCHANGED playback
    \/ \E c \in Clients : /\ InBody(c) /\ Owns(where[c])
                          /\ (paused' => status' # "replaying")
                                \/ UNCHANGED <<paused, status>>
    \/ \E q \in Procs : Advance(q)
    \/ \E q \in Procs : Owns(q) /\ (Complete(q) \/ RecordFailed(q)) /\ status' # "replaying"
    \/ Claimable /\ status' # "replaying"

LEMMA RowSteps == ASSUME [Next]_vars PROVE RowMoves
  <1>1. ASSUME NEW c \in Clients, Control(c)
        PROVE  RowMoves
    <2>1. CASE Enter(c) \/ Replace(c) \/ Claim(c) \/ ClaimRefused(c) \/ ClaimLost(c) \/ Join(c) \/ JoinRefused(c) \/ EnterFails(c)
      BY <2>1 DEF Enter, Replace, Claim, ClaimRefused, ClaimLost, Join, JoinRefused, EnterFails, RowMoves
    <2>2. CASE Leave(c) \/ ClearEngine(c) \/ ReadPlayback(c) \/ Rebuild(c) \/ Launch(c) \/ Stop(c) \/ Raise(c)
      BY <2>2 DEF Leave, ClearEngine, ReadPlayback, Rebuild, Launch, Stop, Raise, RowMoves
    <2>3. CASE ResetRoom(c) \/ Place(c) \/ Unpause(c) \/ Pause(c)
      BY <2>3 DEF ResetRoom, Place, Unpause, Pause, InBody, Body, RowMoves
    <2>4. CASE Settle(c)
      BY <2>4 DEF Settle, InBody, Body, playback, RowMoves
    <2>5. QED
      BY <1>1, <2>1, <2>2, <2>3, <2>4 DEF Control
  <1>2. ASSUME NEW p \in Procs, Worker(p) \/ LoseLease(p) \/ Restarts(p)
        PROVE  RowMoves
    <2>1. CASE TickBegin(p) \/ Apply(p) \/ TickLost(p) \/ WorkerFails(p) \/ WorkerCancelled(p) \/ WorkerLeaves(p)
      BY <2>1 DEF TickBegin, Apply, TickLost, WorkerFails, WorkerCancelled, WorkerLeaves, RowMoves
    <2>2. CASE Advance(p) \/ Complete(p) \/ RecordFailed(p)
      BY <2>2 DEF Complete, RecordFailed, playback, RowMoves
    <2>3. QED
      BY <1>2, <2>1, <2>2 DEF Worker, LoseLease, Restarts, Crash, Close, Restarted, RowMoves
  <1>3. CASE Expire \/ Recover \/ UNCHANGED vars
    BY <1>3 DEF Expire, Recover, vars, playback, RowMoves
  <1>4. ASSUME NEW c \in Clients, NEW q \in Procs, NEW k \in Kinds, NEW n \in 0 .. LastEvent,
               Request(c, q, k, n)
        PROVE  RowMoves
    BY <1>4 DEF Request, RowMoves
  <1>5. QED
    BY <1>1, <1>2, <1>3, <1>4 DEF Next, Restarts

\* The tick of an owner has begun before this step, with the mutex.
LEMMA TickStays ==
    ASSUME IInv, [Next]_vars, NEW p \in Procs, Owns(p)', worker'[p] \in Ticking, ~TickBegin(p)
    PROVE  /\ worker[p] \in Ticking /\ at'[p] = at[p]
           /\ worker'[p] = "completing" <=> worker[p] = "completing"
           /\ Owns(p) /\ \A c \in Clients : InBody(c) => where[c] # p
  <1>1. /\ worker[p] \in Ticking /\ at'[p] = at[p]
        /\ worker'[p] = "completing" <=> worker[p] = "completing"
    <2>1. Maps
      BY HasMaps
    <2>2. ~Advance(p)
      BY <2>1 DEF Advance, Works, Maps, Ticking
    <2>3. CASE Apply(p)
      BY <2>1, <2>3 DEF Apply, Maps, Ticking
    <2>4. QED
      BY <2>2, <2>3, HasMaps, ProcSteps
         DEF ProcMoves, Same, Ends, Retires, Loses, Claims, Launches, Ticks, Ticking
  <1>2. \A c \in Clients : InBody(c) => where[c] # p
    BY <1>1 DEF IInv, Exclusive
  <1>3. QED
    BY <1>1, <1>2, OwnSteps

LEMMA TickIsCurrentKept == ASSUME IInv, [Next]_vars PROVE TickIsCurrent'
  <1>1. SUFFICES ASSUME NEW p \in Procs, Owns(p)', worker'[p] \in Ticking
                 PROVE  /\ ~paused'
                        /\ IF worker'[p] = "completing" THEN position' = LastEvent
                                                       ELSE at'[p] = position' + 1
    BY DEF TickIsCurrent, Ticking
  <1>2. CASE TickBegin(p)
    <2>1. /\ ~paused' /\ position' = position /\ position \in Nat /\ position <= LastEvent
          /\ IF position < LastEvent
             THEN worker'[p] = "ticking" /\ at'[p] = position + 1
             ELSE worker'[p] = "completing"
      BY <1>2, HasMaps DEF TickBegin, playback, IInv, TypeOK, Maps
    <2>2. QED
      BY <2>1, LastEventAssumption
  <1>3. CASE ~TickBegin(p)
    <2>1. /\ worker[p] \in Ticking /\ at'[p] = at[p]
          /\ worker'[p] = "completing" <=> worker[p] = "completing"
          /\ Owns(p) /\ \A c \in Clients : InBody(c) => where[c] # p
      BY <1>1, <1>3, TickStays
    <2>2. /\ ~paused
          /\ IF worker[p] = "completing" THEN position = LastEvent ELSE at[p] = position + 1
      BY <2>1 DEF IInv, TickIsCurrent
    <2>3. UNCHANGED playback
      <3>1. \A q : Owns(q) => q = p
        BY <2>1 DEF Owns
      <3>2. ~Claimable
        BY <2>1, NobodyAssumption DEF Owns, Claimable
      <3>3. ~Advance(p) /\ ~Complete(p) /\ ~RecordFailed(p)
        BY <1>1, <2>1, HasMaps
           DEF Advance, Complete, RecordFailed, Retire, Works, Maps, Ticking
      <3>4. \A q : Advance(q) => Owns(q)
        BY DEF Advance
      <3>5. QED
        BY <2>1, <3>1, <3>2, <3>3, <3>4, RowSteps DEF RowMoves
    <2>4. QED
      BY <2>1, <2>2, <2>3 DEF playback
  <1>4. QED
    BY <1>2, <1>3

LEMMA AdvanceIsNext ==
    ASSUME IInv, NEW p \in Procs, Advance(p)
    PROVE  ~paused /\ paused' = paused /\ position' = position + 1
  <1>1. worker[p] = "applied" /\ Owns(p) /\ paused' = paused /\ position' = at[p]
    BY DEF Advance
  <1>2. QED
    BY <1>1 DEF IInv, TickIsCurrent, Ticking

LEMMA PausedKept == ASSUME IInv, [Next]_vars PROVE PausedNotReplaying'
  <1>1. CASE UNCHANGED playback
    BY <1>1 DEF playback, IInv, PausedNotReplaying
  <1>2. CASE \E q \in Procs : Advance(q)
    BY <1>2, AdvanceIsNext DEF PausedNotReplaying
  <1>3. QED
    BY <1>1, <1>2, RowSteps DEF RowMoves, IInv, PausedNotReplaying

-----------------------------------------------------------------------------
(* Types.                                                                  *)

OwnerType == owner \in Procs \cup {Nobody} /\ valid \in BOOLEAN
RowType ==
    /\ position \in 0 .. LastEvent /\ paused \in BOOLEAN
    /\ status \in {"archived", "paused", "replaying", "completed", "failed"}
ProcType ==
    /\ lease \in [Procs -> {"none", "held", "lost", "retiring"}]
    /\ worker \in [Procs -> States] /\ at \in [Procs -> 0 .. LastEvent]
    /\ engine \in [Procs -> SUBSET (1 .. LastEvent)]
    /\ stops \in [Procs -> SUBSET Clients]
ClientType ==
    /\ pc \in [Clients -> Labels] /\ where \in [Clients -> Procs \cup {Nobody}]
    /\ kind \in [Clients -> Kinds \cup {"none"}] /\ target \in [Clients -> 0 .. LastEvent]
    /\ finished \in [Clients -> BOOLEAN] /\ begins \in [Clients -> BOOLEAN]

LEMMA TypeParts ==
    TypeOK <=> OwnerType /\ RowType /\ ProcType /\ ClientType /\ faults \in 0 .. MaxFaults
  BY DEF TypeOK, OwnerType, RowType, ProcType, ClientType

LEMMA FaultSteps == ASSUME [Next]_vars PROVE faults' = faults \/ Fault
  <1>1. ASSUME NEW c \in Clients, Control(c) PROVE faults' = faults \/ Fault
    BY <1>1 DEF Control, Enter, Replace, Claim, ClaimRefused, ClaimLost, Join, JoinRefused,
       EnterFails, Leave, ResetRoom, ClearEngine, ReadPlayback, Rebuild, Place, Settle, Unpause,
       Launch, Pause, Stop, Raise, CancelWorker, ReleaseLease
  <1>2. ASSUME NEW p \in Procs, Worker(p) PROVE faults' = faults \/ Fault
    BY <1>2 DEF Worker, TickBegin, Apply, Advance, Complete, TickLost, WorkerFails, RecordFailed,
       WorkerCancelled, WorkerLeaves, CancelWorker, ReleaseLease
  <1>3. ASSUME NEW p \in Procs, LoseLease(p) \/ Crash(p) \/ Close(p)
        PROVE  faults' = faults \/ Fault
    BY <1>3 DEF LoseLease, Crash, Close
  <1>4. CASE Expire \/ Recover \/ UNCHANGED vars
    BY <1>4 DEF Expire, Recover, vars
  <1>5. ASSUME NEW c \in Clients, NEW q \in Procs, NEW k \in Kinds, NEW n \in 0 .. LastEvent,
               Request(c, q, k, n)
        PROVE  faults' = faults
    BY <1>5 DEF Request
  <1>6. QED
    BY <1>1, <1>2, <1>3, <1>4, <1>5 DEF Next

LEMMA FaultsKept == ASSUME TypeOK, [Next]_vars PROVE (faults \in 0 .. MaxFaults)'
  <1>1. faults \in 0 .. MaxFaults
    BY DEF TypeOK
  <1>2. QED
    BY <1>1, FaultSteps, MaxFaultsAssumption DEF Fault

\* A step that leaves the controls, or returns some of them.
LEMMA ReturnType ==
    ASSUME ClientType, NEW S, Return(S)
    PROVE  ClientType'
  <1>1. pc' \in [Clients -> Labels] /\ kind' \in [Clients -> Kinds \cup {"none"}]
    BY DEF ClientType, Return, Labels
  <1>2. where' \in [Clients -> Procs \cup {Nobody}]
    BY DEF ClientType, Return
  <1>3. target' \in [Clients -> 0 .. LastEvent]
    <2>1. 0 \in 0 .. LastEvent
      BY LastEventAssumption
    <2>2. QED
      BY <2>1 DEF ClientType, Return
  <1>4. finished' \in [Clients -> BOOLEAN] /\ begins' \in [Clients -> BOOLEAN]
    BY DEF ClientType, Return
  <1>5. QED
    BY <1>1, <1>2, <1>3, <1>4 DEF ClientType

LEMMA GotoType ==
    ASSUME ClientType, NEW c, NEW l \in Labels, Goto(c, l), UNCHANGED locals
    PROVE  ClientType'
  BY DEF ClientType, Goto, locals

LEMMA FirstStepType == \A k \in Kinds : FirstStep(k) \in Labels
  BY DEF FirstStep, Kinds, Labels, Body

LEMMA ControlClientType ==
    ASSUME IInv, NEW c \in Clients, Control(c)
    PROVE  ClientType'
  <1>0. ClientType /\ RowType /\ Placed
    BY TypeParts DEF IInv
  <1>1. CASE ClaimRefused(c) \/ ClaimLost(c) \/ JoinRefused(c) \/ EnterFails(c) \/ Stop(c)
    BY <1>0, <1>1, ReturnType DEF ClaimRefused, ClaimLost, JoinRefused, EnterFails, Stop
  <1>2. CASE Claim(c) \/ Join(c)
    <2>1. Goto(c, FirstStep(kind[c])) /\ UNCHANGED locals /\ pc[c] = "entering"
      BY <1>2 DEF Claim, Join
    <2>2. FirstStep(kind[c]) \in Labels
      BY <1>0, <2>1, FirstStepType DEF Placed
    <2>3. QED
      BY <1>0, <2>1, <2>2, GotoType
  <1>3. CASE Enter(c) \/ ResetRoom(c) \/ Rebuild(c) \/ Place(c) \/ Settle(c) \/ Unpause(c) \/ Launch(c) \/ Pause(c) \/ Raise(c)
    <2>1. UNCHANGED locals /\ \E l \in Labels : Goto(c, l)
      BY <1>3 DEF Enter, ResetRoom, Rebuild, Place, Settle, Unpause, Launch, Pause, Raise, Labels, Body
    <2>2. QED
      BY <1>0, <2>1, GotoType
  <1>4. CASE Leave(c)
    <2>1. "stopping" \in Labels
      BY DEF Labels
    <2>2. QED
      BY <1>0, <1>4, <2>1, GotoType, ReturnType DEF Leave
  <1>5. CASE Replace(c)
    BY <1>0, <1>5 DEF Replace, locals, ClientType
  <1>6. CASE ClearEngine(c) \/ ReadPlayback(c)
    <2>1. {"unpausing", "rebuilding"} \subseteq Labels
      BY DEF Labels, Body
    <2>2. pc' \in [Clients -> Labels]
      BY <1>0, <1>6, <2>1 DEF ClearEngine, ReadPlayback, Goto, ClientType
    <2>3. begins' \in [Clients -> BOOLEAN]
      BY <1>0, <1>6 DEF ClearEngine, ReadPlayback, ClientType
    <2>4. target' \in [Clients -> 0 .. LastEvent]
      <3>1. 0 \in 0 .. LastEvent /\ position \in 0 .. LastEvent
        BY <1>0, LastEventAssumption DEF RowType
      <3>2. QED
        BY <1>0, <1>6, <3>1 DEF ClearEngine, ReadPlayback, ClientType
    <2>5. UNCHANGED <<where, kind, finished>>
      BY <1>6 DEF ClearEngine, ReadPlayback
    <2>6. QED
      BY <1>0, <2>2, <2>3, <2>4, <2>5 DEF ClientType
  <1>7. QED
    BY <1>1, <1>2, <1>3, <1>4, <1>5, <1>6 DEF Control

LEMMA ClientTypeKept == ASSUME IInv, [Next]_vars PROVE ClientType'
  <1>0. ClientType
    BY TypeParts DEF IInv
  <1>1. CASE Elsewhere
    <2>1. UNCHANGED <<pc, locals>>
      BY <1>1 DEF Elsewhere, Worker, TickBegin, Apply, Advance, Complete, TickLost, WorkerFails,
         RecordFailed, WorkerCancelled, WorkerLeaves, LoseLease, Expire, Recover, vars, locals
    <2>2. QED
      BY <1>0, <2>1 DEF ClientType, locals
  <1>2. ASSUME NEW p \in Procs, Restarts(p) PROVE ClientType'
    BY <1>0, <1>2, ReturnType DEF Restarts, Crash, Close, Restarted
  <1>3. ASSUME NEW c \in Clients, NEW q \in Procs, NEW k \in Kinds, NEW n \in 0 .. LastEvent,
               Request(c, q, k, n)
        PROVE  ClientType'
    BY <1>0, <1>3 DEF Request, Goto, ClientType, Labels
  <1>4. QED
    BY <1>1, <1>2, <1>3, ControlClientType DEF Next, Elsewhere, Restarts

LEMMA RowTypeKept == ASSUME IInv, [Next]_vars PROVE OwnerType' /\ RowType'
  <1>0. OwnerType /\ RowType /\ ProcType /\ ClientType /\ Placed
    BY TypeParts DEF IInv
  <1>1. ASSUME NEW c \in Clients, Control(c) PROVE OwnerType' /\ RowType'
    <2>1. OwnerType'
      <3>1. CASE Claim(c) \/ ClaimLost(c)
        BY <1>0, <3>1 DEF Claim, ClaimLost, OwnerType, Placed
      <3>2. CASE Leave(c) \/ Stop(c) \/ Replace(c)
        BY <1>0, <3>2 DEF Leave, Stop, Replace, CancelWorker, ReleaseLease, ClearToken, ownership, OwnerType
      <3>3. CASE Enter(c) \/ ClaimRefused(c) \/ Join(c) \/ JoinRefused(c) \/ EnterFails(c) \/ ResetRoom(c) \/ ClearEngine(c) \/ ReadPlayback(c)
        BY <1>0, <3>3 DEF Enter, ClaimRefused, Join, JoinRefused, EnterFails, ResetRoom, ClearEngine,
                    ReadPlayback, ownership, OwnerType
      <3>4. CASE Rebuild(c) \/ Place(c) \/ Settle(c) \/ Unpause(c) \/ Launch(c) \/ Pause(c) \/ Raise(c)
        BY <1>0, <3>4 DEF Rebuild, Place, Settle, Unpause, Launch, Pause, Raise, ownership, OwnerType
      <3>5. QED
        BY <1>1, <3>1, <3>2, <3>3, <3>4 DEF Control
    <2>2. RowType'
      <3>1. CASE ResetRoom(c) \/ Place(c)
        <4>1. 0 \in 0 .. LastEvent /\ target[c] \in 0 .. LastEvent
          BY <1>0, LastEventAssumption DEF ClientType
        <4>2. QED
          BY <1>0, <3>1, <4>1 DEF ResetRoom, Place, RowType
      <3>2. CASE Settle(c) \/ Unpause(c) \/ Pause(c)
        BY <1>0, <3>2 DEF Settle, Unpause, Pause, RowType
      <3>3. CASE Enter(c) \/ Replace(c) \/ Claim(c) \/ ClaimRefused(c) \/ ClaimLost(c) \/ Join(c) \/ JoinRefused(c) \/ EnterFails(c)
        BY <1>0, <3>3 DEF Enter, Replace, Claim, ClaimRefused, ClaimLost, Join, JoinRefused,
                          EnterFails, playback, RowType
      <3>4. CASE Leave(c) \/ ClearEngine(c) \/ ReadPlayback(c) \/ Rebuild(c) \/ Launch(c) \/ Stop(c) \/ Raise(c)
        BY <1>0, <3>4 DEF Leave, ClearEngine, ReadPlayback, Rebuild, Launch, Stop, Raise, playback, RowType
      <3>5. QED
        BY <1>1, <3>1, <3>2, <3>3, <3>4 DEF Control
    <2>3. QED
      BY <2>1, <2>2
  <1>2. ASSUME NEW p \in Procs, Worker(p) PROVE OwnerType' /\ RowType'
    <2>1. OwnerType'
      BY <1>0, <1>2 DEF Worker, TickBegin, Apply, Advance, Complete, TickLost, WorkerFails,
         RecordFailed, WorkerCancelled, WorkerLeaves, CancelWorker, ReleaseLease, ClearToken,
         ownership, OwnerType
    <2>2. at[p] \in 0 .. LastEvent
      BY <1>0 DEF ProcType
    <2>3. RowType'
      BY <1>0, <1>2, <2>2 DEF Worker, TickBegin, Apply, Advance, Complete, TickLost, WorkerFails,
         RecordFailed, WorkerCancelled, WorkerLeaves, playback, RowType
    <2>4. QED
      BY <2>1, <2>3
  <1>3. ASSUME NEW p \in Procs, LoseLease(p) \/ Restarts(p) PROVE OwnerType' /\ RowType'
    BY <1>0, <1>3 DEF LoseLease, Restarts, Crash, Close, Restarted, ClearToken, ownership, playback,
                OwnerType, RowType
  <1>4. CASE Expire \/ Recover \/ UNCHANGED vars
    BY <1>0, <1>4 DEF Expire, Recover, vars, playback, OwnerType, RowType
  <1>5. ASSUME NEW c \in Clients, NEW q \in Procs, NEW k \in Kinds, NEW n \in 0 .. LastEvent,
               Request(c, q, k, n)
        PROVE  OwnerType' /\ RowType'
    BY <1>0, <1>5 DEF Request, ownership, playback, OwnerType, RowType
  <1>6. QED
    BY <1>1, <1>2, <1>3, <1>4, <1>5 DEF Next, Restarts

LEMMA WorksType ==
    ASSUME ProcType, NEW p, NEW l \in States, Works(p, l)
    PROVE  worker' \in [Procs -> States] /\ at' \in [Procs -> 0 .. LastEvent]
  <1>1. 0 \in 0 .. LastEvent
    BY LastEventAssumption
  <1>2. QED
    BY <1>1 DEF ProcType, Works

LEMMA CancelType ==
    ASSUME ProcType, NEW p, CancelWorker(p), UNCHANGED engine
    PROVE  ProcType'
  <1>1. "none" \in States
    BY DEF States
  <1>2. worker' \in [Procs -> States] /\ at' \in [Procs -> 0 .. LastEvent]
    BY <1>1, WorksType DEF CancelWorker
  <1>3. QED
    BY <1>2 DEF CancelWorker, ReleaseLease, ProcType

LEMMA ControlProcType ==
    ASSUME IInv, NEW c \in Clients, Control(c)
    PROVE  ProcType'
  <1>0. ProcType /\ ClientType
    BY TypeParts DEF IInv
  <1>1. CASE Enter(c) \/ ClaimRefused(c) \/ ClaimLost(c) \/ Join(c) \/ JoinRefused(c) \/ EnterFails(c)
    BY <1>0, <1>1 DEF Enter, ClaimRefused, ClaimLost, Join, JoinRefused, EnterFails, process, ProcType
  <1>2. CASE ResetRoom(c) \/ ReadPlayback(c) \/ Place(c) \/ Settle(c) \/ Unpause(c)
    BY <1>0, <1>2 DEF ResetRoom, ReadPlayback, Place, Settle, Unpause, process, ProcType
  <1>3. CASE Claim(c)
    BY <1>0, <1>3 DEF Claim, ProcType
  <1>4. CASE Replace(c)
    <2>1. CASE CancelWorker(where[c])
      BY <1>0, <1>4, <2>1, CancelType DEF Replace
    <2>2. CASE ~CancelWorker(where[c])
      <3>1. "none" \in States
        BY DEF States
      <3>2. worker' \in [Procs -> States] /\ at' \in [Procs -> 0 .. LastEvent]
        BY <1>0, <1>4, <2>2, <3>1, WorksType DEF Replace
      <3>3. QED
        BY <1>0, <1>4, <2>2, <3>2 DEF Replace, ProcType
    <2>3. QED
      BY <2>1, <2>2
  <1>5. CASE ClearEngine(c)
    BY <1>0, <1>5 DEF ClearEngine, ProcType
  <1>6. CASE Rebuild(c)
    <2>1. 1 .. target[c] \subseteq 1 .. LastEvent
      BY <1>0, LastEventAssumption DEF ClientType
    <2>2. QED
      BY <1>0, <1>6, <2>1 DEF Rebuild, ProcType
  <1>7. CASE Raise(c)
    <2>1. \A k \in 0 .. target[c] : 1 .. k \subseteq 1 .. LastEvent
      BY <1>0, LastEventAssumption DEF ClientType
    <2>2. engine' \in [Procs -> SUBSET (1 .. LastEvent)]
      BY <1>0, <1>7, <2>1 DEF Raise, ProcType
    <2>3. stops' \in [Procs -> SUBSET Clients]
      BY <1>0, <1>7 DEF Raise, ProcType
    <2>4. QED
      BY <1>0, <1>7, <2>2, <2>3 DEF Raise, ProcType
  <1>8. CASE Launch(c)
    <2>1. "waiting" \in States
      BY DEF States
    <2>2. worker' \in [Procs -> States] /\ at' \in [Procs -> 0 .. LastEvent]
      BY <1>0, <1>8, <2>1, WorksType DEF Launch
    <2>3. QED
      BY <1>0, <1>8, <2>2 DEF Launch, ProcType
  <1>9. CASE Pause(c)
    <2>1. stops' \in [Procs -> SUBSET Clients]
      BY <1>0, <1>9 DEF Pause, ProcType
    <2>2. QED
      BY <1>0, <1>9, <2>1 DEF Pause, ProcType
  <1>10. CASE Leave(c)
    BY <1>0, <1>10 DEF Leave, ReleaseLease, process, ProcType
  <1>11. CASE Stop(c)
    <2>1. CASE CancelWorker(where[c]) /\ UNCHANGED engine
      BY <1>0, <2>1, CancelType
    <2>2. CASE ~(CancelWorker(where[c]) /\ UNCHANGED engine)
      <3>1. /\ stops' = [stops EXCEPT ![where[c]] = @ \ {c}]
            /\ UNCHANGED <<lease, worker, at, engine>>
        BY <1>11, <2>2 DEF Stop
      <3>2. QED
        BY <1>0, <3>1 DEF ProcType
    <2>3. QED
      BY <2>1, <2>2
  <1>12. QED
    BY <1>1, <1>2, <1>3, <1>4, <1>5, <1>6, <1>7, <1>8, <1>9, <1>10, <1>11 DEF Control

LEMMA WorkerProcType ==
    ASSUME IInv, NEW p \in Procs, Worker(p)
    PROVE  ProcType'
  <1>0. ProcType /\ RowType
    BY TypeParts DEF IInv
  <1>1. CASE TickBegin(p)
    <2>1. {"ticking", "completing"} \subseteq States
      BY DEF States, Ticking
    <2>2. position < LastEvent => position + 1 \in 0 .. LastEvent
      BY <1>0, LastEventAssumption DEF RowType
    <2>3. worker' \in [Procs -> States]
      BY <1>0, <1>1, <2>1 DEF TickBegin, ProcType
    <2>4. at' \in [Procs -> 0 .. LastEvent]
      BY <1>0, <1>1, <2>2 DEF TickBegin, ProcType
    <2>5. QED
      BY <1>0, <1>1, <2>3, <2>4 DEF TickBegin, ProcType
  <1>2. CASE Apply(p)
    <2>1. at[p] \in 1 .. LastEvent
      BY <1>2 DEF Apply, IInv, Plays
    <2>2. engine' \in [Procs -> SUBSET (1 .. LastEvent)]
      BY <1>0, <1>2, <2>1 DEF Apply, Reduced, ProcType
    <2>3. worker' \in [Procs -> States]
      BY <1>0, <1>2 DEF Apply, ProcType, States, Ticking
    <2>4. QED
      BY <1>0, <1>2, <2>2, <2>3 DEF Apply, ProcType
  <1>3. CASE Advance(p)
    <2>1. "waiting" \in States
      BY DEF States
    <2>2. worker' \in [Procs -> States] /\ at' \in [Procs -> 0 .. LastEvent]
      BY <1>0, <1>3, <2>1, WorksType DEF Advance
    <2>3. QED
      BY <1>0, <1>3, <2>2 DEF Advance, ProcType
  <1>4. CASE Complete(p) \/ TickLost(p) \/ WorkerFails(p) \/ RecordFailed(p) \/ WorkerCancelled(p)
    <2>1. \E l \in {"leaving", "failing"} : Retire(p, l)
      BY <1>4 DEF Complete, TickLost, WorkerFails, RecordFailed, WorkerCancelled
    <2>2. UNCHANGED <<engine, stops>>
      BY <1>4 DEF Complete, TickLost, WorkerFails, RecordFailed, WorkerCancelled
    <2>3. {"leaving", "failing"} \subseteq States
      BY DEF States
    <2>4. worker' \in [Procs -> States] /\ at' \in [Procs -> 0 .. LastEvent]
      BY <1>0, <2>1, <2>3, WorksType DEF Retire
    <2>5. lease' \in [Procs -> {"none", "held", "lost", "retiring"}]
      BY <1>0, <2>1 DEF Retire, ProcType
    <2>6. QED
      BY <1>0, <2>2, <2>4, <2>5 DEF ProcType
  <1>5. CASE WorkerLeaves(p)
    BY <1>0, <1>5, CancelType DEF WorkerLeaves
  <1>6. QED
    BY <1>1, <1>2, <1>3, <1>4, <1>5 DEF Worker

LEMMA ProcTypeKept == ASSUME IInv, [Next]_vars PROVE ProcType'
  <1>0. ProcType
    BY TypeParts DEF IInv
  <1>1. ASSUME NEW p \in Procs, LoseLease(p) PROVE ProcType'
    BY <1>0, <1>1 DEF LoseLease, ProcType
  <1>2. ASSUME NEW p \in Procs, Restarts(p) PROVE ProcType'
    <2>1. Restarted(p)
      BY <1>2 DEF Restarts, Crash, Close
    <2>2. "none" \in States
      BY DEF States
    <2>3. worker' \in [Procs -> States] /\ at' \in [Procs -> 0 .. LastEvent]
      BY <1>0, <2>1, <2>2, WorksType DEF Restarted
    <2>4. Loaded \subseteq 1 .. LastEvent
      BY LastEventAssumption, SnapshotAssumption DEF Loaded
    <2>5. QED
      BY <1>0, <2>1, <2>3, <2>4 DEF Restarted, ProcType
  <1>3. CASE Expire \/ Recover \/ UNCHANGED vars
    BY <1>0, <1>3 DEF Expire, Recover, vars, process, ProcType
  <1>4. ASSUME NEW c \in Clients, NEW q \in Procs, NEW k \in Kinds, NEW n \in 0 .. LastEvent,
               Request(c, q, k, n)
        PROVE  ProcType'
    BY <1>0, <1>4 DEF Request, process, ProcType
  <1>5. QED
    BY <1>1, <1>2, <1>3, <1>4, ControlProcType, WorkerProcType DEF Next, Restarts

LEMMA TypeKept == ASSUME IInv, [Next]_vars PROVE TypeOK'
  <1>1. TypeOK
    BY DEF IInv
  <1>2. (faults \in 0 .. MaxFaults)' /\ ClientType' /\ OwnerType' /\ RowType' /\ ProcType'
    BY <1>1, FaultsKept, ClientTypeKept, RowTypeKept, ProcTypeKept
  <1>3. QED
    BY <1>2 DEF TypeOK, OwnerType, RowType, ProcType, ClientType

LEMMA InitType == Init => TypeOK
  <1>1. SUFFICES ASSUME Init PROVE TypeOK
    OBVIOUS
  <1>2. OwnerType /\ RowType
    <2>1. 0 \in 0 .. LastEvent
      BY LastEventAssumption
    <2>2. OwnerType
      BY <1>1 DEF Init, OwnerType
    <2>3. RowType
      BY <1>1, <2>1 DEF Init, RowType
    <2>4. QED
      BY <2>2, <2>3
  <1>3. ProcType
    <2>1. Loaded \subseteq 1 .. LastEvent /\ 0 \in 0 .. LastEvent
      BY LastEventAssumption, SnapshotAssumption DEF Loaded
    <2>2. QED
      BY <1>1, <2>1 DEF Init, ProcType, States
  <1>4. ClientType
    <2>1. 0 \in 0 .. LastEvent
      BY LastEventAssumption
    <2>2. QED
      BY <1>1, <2>1 DEF Init, ClientType, Labels
  <1>5. faults \in 0 .. MaxFaults
    BY <1>1, MaxFaultsAssumption DEF Init
  <1>6. QED
    BY <1>2, <1>3, <1>4, <1>5, TypeParts

LEMMA InitIInv == Init => IInv
  <1>1. SUFFICES ASSUME Init PROVE IInv
    OBVIOUS
  <1>2. TypeOK
    BY <1>1, InitType
  <1>3. Placed /\ Exclusive /\ WorkerHasLease
    BY <1>1 DEF Init, Placed, Exclusive, InBody, Body, WorkerHasLease
  <1>4. NoneAlive /\ NotYet /\ Plays
    BY <1>1 DEF Init, NoneAlive, Starts, NotYet, Plays
  <1>5. TickIsCurrent /\ LeaseHasUser /\ PausedNotReplaying
    BY <1>1 DEF Init, TickIsCurrent, Ticking, LeaseHasUser, PausedNotReplaying
  <1>6. QED
    BY <1>2, <1>3, <1>4, <1>5 DEF IInv

-----------------------------------------------------------------------------
(* The theorems.                                                           *)

\* Every reachable state satisfies IInv: mutex, leases, workers and the row of
\* room_replay.py agree.
THEOREM SpecIInv == Spec => []IInv
  <1>1. Init => IInv
    BY InitIInv
  <1>2. IInv /\ [Next]_vars => IInv'
    BY TypeKept, PlacedKept, ExclusiveKept, WorkerHasLeaseKept, NoneAliveKept, NotYetKept,
       PlaysKept, TickIsCurrentKept, LeaseHasUserKept, PausedKept DEF IInv
  <1>3. QED
    BY <1>1, <1>2, PTL DEF Spec

\* What a tick of the owner has read is still so when it writes, whatever controls,
\* other processes, expiries and restarts come in between (_run, _owned_operation).
THEOREM TicksAreCurrent == Spec => []TickIsCurrent
  <1>1. IInv => TickIsCurrent
    BY DEF IInv
  <1>2. QED
    BY <1>1, SpecIInv, PTL

\* A worker is only started where none is alive (_start_worker).
THEOREM StartsAlone == Spec => []OneWorker
  <1>1. IInv => OneWorker
    BY DEF IInv, NoneAlive, Starts, OneWorker
  <1>2. QED
    BY <1>1, SpecIInv, PTL

\* One worker plays, a lease is renewed for a user, and what the room reads agrees
\* with its playback (room_replay.py).
THEOREM RoomIsSound == Spec => []RoomSound
  <1>1. IInv => TypeOK /\ LeaseHasUser /\ PausedNotReplaying
    BY DEF IInv
  <1>2. QED
    BY <1>1, SpecIInv, StartsAlone, PTL DEF RoomSound

\* Whatever worker writes a tick moves the recorded position by one event, and only
\* while the row is unpaused (advance_replay under _require_replay_owner).
THEOREM PlaysTheNext == Spec => PlaysNext
  <1>1. ASSUME IInv, [Next]_vars
        PROVE  [\A p \in Procs : worker[p] = "applied" /\ worker'[p] = "waiting" =>
                    ~paused /\ position' = position + 1]_vars
    <2>1. SUFFICES ASSUME NEW p \in Procs, worker[p] = "applied", worker'[p] = "waiting"
                   PROVE  ~paused /\ position' = position + 1
      OBVIOUS
    <2>2. ~Launches(p)
      BY <1>1, <2>1 DEF Launches, Launch, IInv, NoneAlive, Starts
    <2>3. ~Apply(p) /\ ~TickBegin(p)
      BY <2>1 DEF Apply, TickBegin
    <2>4. Advance(p)
      BY <1>1, <2>1, <2>2, <2>3, HasMaps, ProcSteps
         DEF ProcMoves, Same, Ends, Retires, Loses, Claims, Ticks
    <2>5. QED
      BY <1>1, <2>4, AdvanceIsNext
  <1>2. QED
    BY <1>1, SpecIInv, PTL DEF Spec, PlaysNext

-----------------------------------------------------------------------------
(* One process and no failure.  While nothing fails a held lease owns the  *)
(* room, a control in its body works under a held lease, and an unpaused   *)
(* room has a worker or a control that goes on to start one.  QuietInv is  *)
(* inductive beside IInv; TLC checks it on three controls.                 *)

Alive(p) == worker[p] \in Ticking \cup {"waiting"}

\* The control starts a worker, or has entered to replace one.
Starting(c) == Starts(c) \/ (pc[c] = "entering" /\ kind[c] \in {"start", "restart"})

Seeks ==
    \A c \in Clients :
        /\ pc[c] = "reading" => kind[c] # "seek"
        /\ pc[c] \in {"rebuilding", "placing"} => (begins[c] <=> kind[c] # "seek")

LeaseQuiet(p) ==
    /\ lease[p] # "lost"
    /\ lease[p] = "held" => Owns(p) /\ (Alive(p) \/ worker[p] = "none")
    /\ lease[p] = "retiring" => paused /\ worker[p] = "leaving"
    /\ lease[p] = "none" => paused \/ ~Owns(p)

Relied(p) ==
    \A c \in Clients : pc[c] \in Body =>
        /\ lease[p] = "held"
        /\ pc[c] = "unpausing" /\ ~begins[c] => Alive(p)

Attended(p) == ~paused => Alive(p) \/ \E c \in Clients : Starting(c)

Quiet(p) == LeaseQuiet(p) /\ Relied(p) /\ Attended(p)

QuietInv == Seeks /\ \A p \in Procs : faults = 0 => Quiet(p)

\* A step of the only process at which nothing fails.
QuietStep(p) ==
    /\ IInv /\ Seeks /\ Quiet(p) /\ Procs = {p} /\ [Next]_vars
    /\ faults = 0 /\ faults' = 0

LEMMA NoFault == ASSUME NEW p, QuietStep(p) PROVE ~Fault
  BY DEF QuietStep, Fault

LEMMA QuietPlace ==
    ASSUME NEW p, QuietStep(p), NEW c \in Clients, pc[c] # "idle"
    PROVE  where[c] = p /\ kind[c] \in Kinds
  BY HasMaps DEF QuietStep, Placed

LEMMA QuietClaims ==
    ASSUME NEW p, QuietStep(p)
    PROVE  ~Claimable => Owns(p)
  <1>1. owner \in {p, Nobody}
    BY DEF QuietStep, IInv, TypeOK
  <1>2. QED
    BY <1>1 DEF Claimable, Owns

\* No control raises and no entry is refused but a claim.
LEMMA QuietControls ==
    ASSUME NEW p, QuietStep(p), NEW c \in Clients
    PROVE  ~Raise(c) /\ ~EnterFails(c) /\ ~ClaimLost(c) /\ ~JoinRefused(c)
  <1>1. ~EnterFails(c) /\ ~ClaimLost(c)
    BY NoFault DEF EnterFails, ClaimLost
  <1>2. ~Raise(c)
    <2>1. SUFFICES ASSUME Raise(c) PROVE FALSE
      OBVIOUS
    <2>2. pc[c] \in Body /\ ((~Owns(where[c]) /\ Fenced(c)) \/ lease[where[c]] # "held")
      BY <2>1, NoFault DEF Raise
    <2>3. where[c] = p
      BY <2>2, QuietPlace DEF Body
    <2>4. QED
      BY <2>2, <2>3 DEF QuietStep, Quiet, Relied, LeaseQuiet
  <1>3. ~JoinRefused(c)
    <2>1. SUFFICES ASSUME JoinRefused(c) PROVE FALSE
      OBVIOUS
    <2>2. where[c] = p
      BY <2>1, QuietPlace DEF JoinRefused
    <2>3. QED
      BY <2>1, <2>2 DEF JoinRefused, QuietStep, Quiet, LeaseQuiet
  <1>4. QED
    BY <1>1, <1>2, <1>3

\* The room becomes unpaused by the control that plays it.
LEMMA UnpauseOnly ==
    ASSUME [Next]_vars, paused, ~paused'
    PROVE  \E c \in Clients : Unpause(c)
  <1>1. ASSUME NEW c \in Clients, Control(c) PROVE Unpause(c)
    <2>1. ~UNCHANGED paused
      OBVIOUS
    <2>2. ~Enter(c) /\ ~Replace(c) /\ ~Claim(c) /\ ~ClaimRefused(c) /\ ~ClaimLost(c) /\ ~Join(c)
      BY <2>1 DEF Enter, Replace, Claim, ClaimRefused, ClaimLost, Join, playback
    <2>3. ~JoinRefused(c) /\ ~EnterFails(c) /\ ~Leave(c) /\ ~ClearEngine(c) /\ ~ReadPlayback(c)
      BY <2>1 DEF JoinRefused, EnterFails, Leave, ClearEngine, ReadPlayback, playback
    <2>4. ~Rebuild(c) /\ ~Place(c) /\ ~Settle(c) /\ ~Launch(c) /\ ~Stop(c) /\ ~Raise(c)
      BY <2>1 DEF Rebuild, Place, Settle, Launch, Stop, Raise, playback
    <2>5. ~ResetRoom(c) /\ ~Pause(c)
      BY DEF ResetRoom, Pause
    <2>6. QED
      BY <1>1, <2>2, <2>3, <2>4, <2>5 DEF Control
  <1>2. ASSUME NEW p \in Procs, Worker(p) \/ LoseLease(p) \/ Crash(p) \/ Close(p)
        PROVE  FALSE
    BY <1>2 DEF Worker, TickBegin, Apply, Advance, Complete, TickLost, WorkerFails, RecordFailed,
           WorkerCancelled, WorkerLeaves, LoseLease, Crash, Close, Restarted, playback
  <1>3. ~Expire /\ ~Recover /\ ~UNCHANGED vars
    BY DEF Expire, Recover, vars, playback
  <1>4. ASSUME NEW c \in Clients, NEW q \in Procs, NEW k \in Kinds, NEW n \in 0 .. LastEvent,
               Request(c, q, k, n)
        PROVE  FALSE
    BY <1>4 DEF Request, playback
  <1>5. QED
    BY <1>1, <1>2, <1>3, <1>4 DEF Next

\* What happens to the lease and the worker: the lease is given back under a
\* pause or with its token, by a control, by the second part of a pause or by a
\* worker that leaves.
QuietEnds(p) ==
    /\ Ends(p) /\ UNCHANGED paused /\ (paused \/ ~Owns(p)')
    /\ \/ \E c \in Clients : Replace(c)
       \/ worker[p] = "none" /\ \E c \in Clients : Leave(c)
       \/ MutexFree(p) /\ paused
       \/ worker[p] = "leaving"

QuietMoves(p) ==
    \/ Same(p) /\ (Owns(p)' => Owns(p)) /\ (lease[p] = "held" => Owns(p)')
    \/ QuietEnds(p)
    \/ Complete(p) /\ paused' /\ worker'[p] = "leaving" /\ lease'[p] = "retiring"
    \/ Claims(p) /\ Owns(p)'
    \/ Launches(p) /\ UNCHANGED ownership
    \/ Ticks(p) /\ UNCHANGED ownership

LEMMA QuietRelease ==
    ASSUME NEW p, QuietStep(p), ReleaseLease(p)
    PROVE  ~Owns(p)' /\ lease'[p] = "none"
  <1>1. ClearToken(p)
    BY NoFault DEF ReleaseLease
  <1>2. ~Owns(p)'
    <2>1. CASE Owns(p)
      BY <1>1, <2>1, Zenon DEF ClearToken, Owns
    <2>2. CASE ~Owns(p)
      <3>1. owner' = owner /\ valid' = valid
        BY <1>1, <2>2, HasMaps DEF ClearToken, QuietStep, IInv, TypeOK
      <3>2. QED
        BY <2>2, <3>1 DEF Owns
    <2>3. QED
      BY <2>1, <2>2
  <1>3. lease'[p] = "none"
    BY HasMaps DEF QuietStep, Maps, ReleaseLease
  <1>4. QED
    BY <1>2, <1>3

LEMMA QuietCancel ==
    ASSUME NEW p, QuietStep(p), CancelWorker(p)
    PROVE  ~Owns(p)' /\ Ends(p)
  BY QuietRelease, HasMaps DEF CancelWorker, Works, Ends, QuietStep, Maps

LEMMA QuietControlMoves ==
    ASSUME NEW p, QuietStep(p), NEW c \in Clients, Control(c)
    PROVE  QuietMoves(p)
  <1>1. Maps /\ p \in Procs
    BY HasMaps DEF QuietStep
  <1>2. lease[p] = "held" => Owns(p)
    BY DEF QuietStep, Quiet, LeaseQuiet
  <1>3. CASE Enter(c) \/ ClaimRefused(c) \/ Join(c)
    BY <1>2, <1>3 DEF Enter, ClaimRefused, Join, process, ownership, QuietMoves, Same, Owns
  <1>4. CASE ResetRoom(c) \/ ClearEngine(c) \/ ReadPlayback(c) \/ Rebuild(c) \/ Place(c)
    BY <1>2, <1>4 DEF ResetRoom, ClearEngine, ReadPlayback, Rebuild, Place, process, ownership,
           QuietMoves, Same, Owns
  <1>5. CASE Settle(c) \/ Unpause(c) \/ Pause(c)
    BY <1>2, <1>5 DEF Settle, Unpause, Pause, process, ownership, QuietMoves, Same, Owns
  <1>6. CASE Replace(c)
    <2>1. where[c] = p /\ UNCHANGED paused /\ lease[p] # "none"
      BY <1>6, QuietPlace DEF Replace, playback
    <2>2. CASE CancelWorker(p)
      BY <1>6, <2>1, <2>2, QuietCancel DEF QuietMoves, QuietEnds
    <2>3. CASE ~CancelWorker(p)
      <3>1. worker[p] = "leaving" /\ Ends(p)
        BY <1>1, <1>6, <2>1, <2>3 DEF Replace, Works, Ends, Maps
      <3>2. paused
        BY <1>1, <2>1, <3>1 DEF QuietStep, Quiet, LeaseQuiet, Alive, Ticking, Maps
      <3>3. QED
        BY <2>1, <3>1, <3>2 DEF QuietMoves, QuietEnds
    <2>4. QED
      BY <2>2, <2>3
  <1>7. CASE Claim(c)
    <2>1. where[c] = p
      BY <1>7, QuietPlace DEF Claim
    <2>2. QED
      BY <1>1, <1>7, <2>1 DEF Claim, QuietMoves, Claims, Maps, Owns
  <1>8. CASE Launch(c)
    <2>1. where[c] = p
      BY <1>8, QuietPlace DEF Launch
    <2>2. QED
      BY <1>1, <1>8, <2>1 DEF Launch, Works, QuietMoves, Launches, Maps
  <1>9. CASE Leave(c)
    <2>1. where[c] = p /\ UNCHANGED paused
      BY <1>9, QuietPlace DEF Leave, playback
    <2>2. CASE worker[p] = "none"
      <3>1. ReleaseLease(p) /\ UNCHANGED worker
        BY <1>9, <2>1, <2>2 DEF Leave
      <3>2. QED
        BY <1>9, <2>1, <2>2, <3>1, QuietRelease DEF QuietMoves, QuietEnds, Ends
    <2>3. CASE worker[p] # "none"
      BY <1>2, <1>9, <2>1, <2>3 DEF Leave, process, ownership, QuietMoves, Same, Owns
    <2>4. QED
      BY <2>2, <2>3
  <1>10. CASE Stop(c)
    <2>1. where[c] = p /\ UNCHANGED paused /\ MutexFree(p)
      BY <1>10, QuietPlace DEF Stop, playback
    <2>2. CASE CancelWorker(p) /\ paused
      BY <2>1, <2>2, QuietCancel DEF QuietMoves, QuietEnds
    <2>3. CASE ~(CancelWorker(p) /\ paused)
      BY <1>2, <1>10, <2>1, <2>3 DEF Stop, ownership, QuietMoves, Same, Owns
    <2>4. QED
      BY <2>2, <2>3
  <1>11. QED
    BY <1>3, <1>4, <1>5, <1>6, <1>7, <1>8, <1>9, <1>10, QuietControls DEF Control

LEMMA QuietWorkerMoves ==
    ASSUME NEW p, QuietStep(p), Worker(p)
    PROVE  QuietMoves(p)
  <1>1. Maps /\ p \in Procs
    BY HasMaps DEF QuietStep
  <1>2. CASE TickBegin(p) \/ Apply(p) \/ Advance(p)
    BY <1>2 DEF TickBegin, Apply, Advance, QuietMoves, Ticks
  <1>3. CASE Complete(p)
    BY <1>1, <1>3, NoFault DEF Complete, Retire, Works, Maps, QuietMoves
  <1>4. ~WorkerFails(p)
    BY NoFault DEF WorkerFails
  <1>5. lease[p] = "held" => Owns(p) /\ (Alive(p) \/ worker[p] = "none")
    BY DEF QuietStep, Quiet, LeaseQuiet
  <1>6. lease[p] = "retiring" => worker[p] = "leaving"
    BY DEF QuietStep, Quiet, LeaseQuiet
  <1>7. lease[p] = "none" => worker[p] = "none"
    BY <1>1 DEF QuietStep, IInv, WorkerHasLease
  <1>8. lease[p] \in {"none", "held", "retiring"}
    BY <1>1 DEF QuietStep, Quiet, LeaseQuiet, Maps
  <1>9. ~TickLost(p) /\ ~RecordFailed(p) /\ ~WorkerCancelled(p)
    BY <1>5, <1>6, <1>7, <1>8 DEF TickLost, RecordFailed, WorkerCancelled, Alive, Ticking
  <1>10. CASE WorkerLeaves(p)
    BY <1>10, QuietCancel DEF WorkerLeaves, playback, QuietMoves, QuietEnds
  <1>11. QED
    BY <1>2, <1>3, <1>4, <1>9, <1>10 DEF Worker

LEMMA QuietProc ==
    ASSUME NEW p, QuietStep(p)
    PROVE  QuietMoves(p)
  <1>1. p \in Procs /\ \A q \in Procs : q = p
    BY DEF QuietStep
  <1>2. lease[p] = "held" => Owns(p)
    BY DEF QuietStep, Quiet, LeaseQuiet
  <1>3. CASE \E c \in Clients : Control(c)
    BY <1>3, QuietControlMoves
  <1>4. CASE \E q \in Procs : Worker(q)
    BY <1>1, <1>4, QuietWorkerMoves
  <1>5. ASSUME NEW q \in Procs, LoseLease(q) \/ Crash(q) \/ Close(q)
        PROVE  FALSE
    BY <1>1, <1>2, <1>5, NoFault DEF LoseLease, Crash, Close
  <1>6. CASE Expire
    <2>1. owner \in {p, Nobody}
      BY DEF QuietStep, IInv, TypeOK
    <2>2. owner = p /\ lease[p] # "held"
      BY <1>6, <2>1, NoFault DEF Expire
    <2>3. QED
      BY <1>6, <2>2 DEF Expire, process, QuietMoves, Same, Owns
  <1>7. CASE Recover
    BY <1>1, <1>2, <1>7, NobodyAssumption DEF Recover, process, QuietMoves, Same, Owns, Claimable
  <1>8. CASE UNCHANGED vars
    BY <1>2, <1>8 DEF vars, QuietMoves, Same, Owns
  <1>9. CASE \E c \in Clients, q \in Procs, k \in Kinds, n \in 0 .. LastEvent : Request(c, q, k, n)
    BY <1>2, <1>9 DEF Request, process, ownership, QuietMoves, Same, Owns
  <1>10. QED
    BY <1>3, <1>4, <1>5, <1>6, <1>7, <1>8, <1>9 DEF Next, QuietStep

-----------------------------------------------------------------------------

\* While a control uses the lease, it is not given back.
LEMMA QuietHolds ==
    ASSUME NEW p, QuietStep(p), NEW c \in Clients, pc[c] \in Body, pc'[c] \in Body
    PROVE  lease'[p] = "held" /\ (Alive(p) => Alive(p)')
  <1>1. where[c] = p /\ lease[p] = "held" /\ InBody(c) /\ p \in Procs
    BY QuietPlace DEF QuietStep, Quiet, Relied, Body, InBody
  <1>2. Alive(p) \/ worker[p] = "none"
    BY <1>1 DEF QuietStep, Quiet, LeaseQuiet
  <1>3. worker[p] \notin Ticking
    BY <1>1 DEF QuietStep, IInv, Exclusive
  <1>4. ASSUME NEW d \in Clients, Replace(d) \/ Leave(d)
        PROVE  d = c
    BY <1>1, <1>4, QuietPlace DEF QuietStep, IInv, Exclusive, InBody, Body, Replace, Leave
  <1>5. ~Replace(c)
    BY DEF Replace, Body
  <1>6. ~Leave(c)
    <2>1. SUFFICES ASSUME Leave(c) PROVE FALSE
      OBVIOUS
    <2>2. pc'[c] = "stopping" \/ Returns(c)
      BY <2>1, HasMaps, ReturnSteps DEF Leave, Goto, QuietStep, Maps
    <2>3. QED
      BY <2>2 DEF Returns, Body
  <1>7. ~MutexFree(p)
    BY <1>1 DEF MutexFree, At, InBody
  <1>8. ~QuietEnds(p)
    BY <1>2, <1>4, <1>5, <1>6, <1>7 DEF QuietEnds, Alive, Ticking
  <1>9. ~Complete(p)
    BY <1>3 DEF Complete, Ticking
  <1>10. CASE Same(p) \/ Claims(p) \/ Launches(p)
    BY <1>1, <1>10 DEF Same, Claims, Launches, Alive
  <1>11. CASE Ticks(p)
    BY <1>1, <1>3, <1>7, <1>11 DEF Ticks, TickBegin, Apply, Advance, Ticking
  <1>12. QED
    BY <1>8, <1>9, <1>10, <1>11, QuietProc DEF QuietMoves

LEMMA LeaseQuietKept == ASSUME NEW p, QuietStep(p) PROVE LeaseQuiet(p)'
  <1>1. p \in Procs /\ Maps
    BY HasMaps DEF QuietStep
  <1>2. LeaseQuiet(p)
    BY DEF QuietStep, Quiet
  <1>3. lease[p] = "none" => worker[p] = "none"
    BY <1>1 DEF QuietStep, IInv, WorkerHasLease
  <1>4. paused /\ lease[p] # "held" => paused'
    <2>1. SUFFICES ASSUME paused, ~paused' PROVE lease[p] = "held"
      OBVIOUS
    <2>2. PICK c \in Clients : Unpause(c)
      BY <2>1, UnpauseOnly DEF QuietStep
    <2>3. QED
      BY <2>2 DEF Unpause, Body, QuietStep, Quiet, Relied
  <1>5. CASE Same(p) /\ (Owns(p)' => Owns(p)) /\ (lease[p] = "held" => Owns(p)')
    BY <1>2, <1>4, <1>5 DEF Same, LeaseQuiet, Alive
  <1>6. CASE QuietEnds(p)
    BY <1>6 DEF QuietEnds, Ends, LeaseQuiet
  <1>7. CASE Complete(p) /\ paused' /\ worker'[p] = "leaving" /\ lease'[p] = "retiring"
    BY <1>7 DEF LeaseQuiet
  <1>8. CASE Claims(p) /\ Owns(p)'
    <2>1. lease[p] = "none"
      BY <1>8 DEF Claims, Claim
    <2>2. QED
      BY <1>3, <1>8, <2>1 DEF Claims, LeaseQuiet
  <1>9. CASE Launches(p) /\ UNCHANGED ownership
    BY <1>2, <1>9 DEF Launches, LeaseQuiet, Alive, Owns, ownership
  <1>10. CASE Ticks(p) /\ UNCHANGED ownership
    <2>1. worker[p] \in Ticking \cup {"waiting"} /\ worker'[p] \in Ticking \cup {"waiting"}
      BY <1>1, <1>10 DEF Ticks, TickBegin, Apply, Advance, Works, Ticking, Maps
    <2>2. lease'[p] = lease[p] /\ lease[p] = "held"
      BY <1>1, <1>2, <1>3, <1>10, <2>1 DEF Ticks, LeaseQuiet, Ticking, Maps
    <2>3. QED
      BY <1>2, <1>10, <2>1, <2>2 DEF LeaseQuiet, Alive, Owns, ownership
  <1>11. QED
    BY <1>5, <1>6, <1>7, <1>8, <1>9, <1>10, QuietProc DEF QuietMoves

\* A seek rebuilds and places the room without starting a worker; a start, a
\* restart or a resume that rebuilds it goes on to start one.
LEMMA SeeksKept == ASSUME IInv, Seeks, [Next]_vars PROVE Seeks'
  <1>1. SUFFICES ASSUME NEW c \in Clients, pc'[c] \in {"reading", "rebuilding", "placing"}
                 PROVE  /\ pc'[c] = "reading" => kind'[c] # "seek"
                        /\ pc'[c] \in {"rebuilding", "placing"} => (begins'[c] <=> kind'[c] # "seek")
    BY DEF Seeks
  <1>2. CASE Stands(c)
    BY <1>1, <1>2 DEF Stands, Seeks
  <1>3. CASE Asks(c) \/ Returns(c)
    BY <1>1, <1>3 DEF Asks, Returns
  <1>4. CASE Goes(c) /\ ~Stands(c) /\ ~Returns(c)
    <2>1. Maps /\ Placed /\ Control(c) /\ kind'[c] = kind[c] /\ kind[c] \in Kinds
      BY <1>4, HasMaps DEF Goes, Placed
    <2>2. CASE Claim(c) \/ Join(c)
      <3>1. pc'[c] = FirstStep(kind[c]) /\ pc[c] = "entering" /\ UNCHANGED locals
        BY <2>1, <2>2 DEF Claim, Join, Goto, Maps
      <3>2. ~begins'[c]
        BY <3>1 DEF IInv, NotYet, locals
      <3>3. QED
        BY <1>1, <2>1, <3>1, <3>2 DEF FirstStep, Kinds
    <2>3. CASE ReadPlayback(c)
      <3>1. pc[c] = "reading" /\ kind[c] # "seek"
        BY <2>3 DEF ReadPlayback, Seeks
      <3>2. begins'[c] = (kind[c] = "start" \/ worker[where[c]] = "none")
        BY <2>1, <2>3 DEF ReadPlayback, Maps
      <3>3. /\ pc'[c] = IF kind[c] = "start" \/ (worker[where[c]] = "none" /\ position > 0)
                        THEN "rebuilding" ELSE "unpausing"
        BY <2>1, <2>3 DEF ReadPlayback, Goto, Maps
      <3>4. QED
        BY <1>1, <2>1, <3>1, <3>2, <3>3
    <2>4. CASE Rebuild(c)
      BY <1>1, <2>1, <2>4 DEF Rebuild, Goto, Maps, locals, Seeks
    <2>5. CASE Place(c) \/ ResetRoom(c) \/ ClearEngine(c) \/ Enter(c)
      BY <1>1, <2>1, <2>5 DEF Place, ResetRoom, ClearEngine, Enter, Goto, Maps
    <2>6. CASE Settle(c) \/ Unpause(c) \/ Launch(c) \/ Pause(c) \/ Raise(c)
      BY <1>1, <2>1, <2>6 DEF Settle, Unpause, Launch, Pause, Raise, Goto, Maps
    <2>7. CASE Leave(c)
      BY <1>1, <1>4, <2>1, <2>7, ReturnSteps DEF Leave, Goto, Maps
    <2>8. CASE Stop(c) \/ ClaimRefused(c) \/ ClaimLost(c) \/ JoinRefused(c) \/ EnterFails(c)
      BY <1>4, <2>1, <2>8, ReturnSteps DEF ClaimRefused, ClaimLost, JoinRefused, EnterFails, Stop
    <2>9. CASE Replace(c)
      BY <1>4, <2>9 DEF Replace, locals, Stands
    <2>10. QED
      BY <2>1, <2>2, <2>3, <2>4, <2>5, <2>6, <2>7, <2>8, <2>9 DEF Control
  <1>5. QED
    BY <1>2, <1>3, <1>4, HasMaps, ClientSteps

\* A control in its body works under a held lease; one that will unpause the
\* room without starting a worker has seen one alive.
LEMMA ReliedKept == ASSUME NEW p, QuietStep(p) PROVE Relied(p)'
  <1>1. SUFFICES ASSUME NEW c \in Clients, pc'[c] \in Body
                 PROVE  /\ lease'[p] = "held"
                        /\ pc'[c] = "unpausing" /\ ~begins'[c] => Alive(p)'
    BY DEF Relied, Body
  <1>2. Maps /\ p \in Procs
    BY HasMaps DEF QuietStep
  <1>3. Enter(c) \/ InBody(c)
    BY <1>1, <1>2, BodySteps DEF QuietStep, InBody
  <1>4. ~Enter(c)
    BY <1>1, <1>2 DEF Enter, Goto, Maps, Body
  <1>5. CASE pc[c] = "entering"
    <2>1. Control(c) \/ Stands(c)
      BY <1>1, <1>2, <1>5, ClientSteps DEF QuietStep, Asks, Returns, Goes, Body
    <2>2. ~Stands(c)
      BY <1>1, <1>5 DEF Stands, Body
    <2>3. ~Replace(c)
      BY <1>1, <1>5 DEF Replace, Body
    <2>4. ~ClaimRefused(c)
      BY <1>1, <1>2, ReturnSteps DEF ClaimRefused, Returns, Body
    <2>5. Claim(c) \/ Join(c)
      BY <1>5, <2>1, <2>2, <2>3, <2>4, QuietControls DEF Control, Enter, Leave, ResetRoom, ClearEngine,
         ReadPlayback, Rebuild, Place, Settle, Unpause, Launch, Pause, Stop
    <2>6. where[c] = p /\ kind[c] \in Kinds
      BY <1>5, QuietPlace
    <2>7. lease'[p] = "held"
      BY <1>2, <2>5, <2>6 DEF Claim, Join, Maps, process
    <2>8. pc'[c] = FirstStep(kind[c])
      BY <1>2, <2>5 DEF Claim, Join, Goto, Maps
    <2>9. pc'[c] # "unpausing"
      BY <2>6, <2>8 DEF FirstStep, Kinds
    <2>10. QED
      BY <2>7, <2>9
  <1>6. CASE pc[c] \in Body
    <2>1. lease'[p] = "held" /\ (Alive(p) => Alive(p)')
      BY <1>1, <1>6, QuietHolds
    <2>2. ASSUME pc'[c] = "unpausing", ~begins'[c]
          PROVE  Alive(p)
      <3>1. CASE Stands(c)
        BY <2>2, <3>1 DEF Stands, Body, QuietStep, Quiet, Relied
      <3>2. CASE ReadPlayback(c)
        <4>1. where[c] = p
          BY <3>2, QuietPlace DEF ReadPlayback
        <4>2. begins'[c] = (kind[c] = "start" \/ worker[p] = "none")
          BY <1>2, <3>2, <4>1 DEF ReadPlayback, Maps
        <4>3. QED
          BY <1>6, <2>2, <4>2 DEF QuietStep, Quiet, Relied, LeaseQuiet
      <3>3. ~ClearEngine(c)
        BY <1>2, <2>2 DEF ClearEngine, Maps
      <3>4. ~Place(c)
        <4>1. SUFFICES ASSUME Place(c) PROVE FALSE
          OBVIOUS
        <4>2. pc[c] = "placing" /\ kind[c] # "seek" /\ begins'[c] = begins[c]
          BY <1>2, <2>2, <4>1 DEF Place, Goto, Maps, locals
        <4>3. QED
          BY <2>2, <4>2 DEF QuietStep, Seeks
      <3>5. ~ResetRoom(c) /\ ~Rebuild(c) /\ ~Settle(c) /\ ~Launch(c) /\ ~Pause(c) /\ ~Unpause(c)
        BY <1>2, <2>2 DEF ResetRoom, Rebuild, Settle, Unpause, Launch, Pause, Goto, Maps
      <3>6. ~Leave(c)
        BY <1>2, <2>2, ReturnSteps DEF Leave, Goto, Maps, Returns
      <3>7. ~Enter(c) /\ ~Replace(c) /\ ~Claim(c) /\ ~ClaimRefused(c) /\ ~Join(c) /\ ~Stop(c)
        BY <1>6 DEF Enter, Replace, Claim, ClaimRefused, Join, Stop, Body
      <3>8. Control(c) \/ Stands(c)
        BY <1>2, <1>6, <2>2, ClientSteps DEF QuietStep, Asks, Returns, Goes, Body
      <3>9. QED
        BY <3>1, <3>2, <3>3, <3>4, <3>5, <3>6, <3>7, <3>8, QuietControls DEF Control
    <2>3. QED
      BY <2>1, <2>2
  <1>7. QED
    BY <1>3, <1>4, <1>5, <1>6 DEF InBody

\* A control that goes on to start a worker does so, unless the room is paused:
\* its claim is not refused, and a control that replaces the worker claims next.
LEMMA StartingGoes ==
    ASSUME NEW p, QuietStep(p), ~paused, NEW c \in Clients, Starting(c), Control(c)
    PROVE  paused' \/ Starting(c)' \/ Alive(p)'
  <1>1. Maps /\ p \in Procs
    BY HasMaps DEF QuietStep
  <1>2. /\ pc[c] \in {"resetting", "clearing", "launching", "reading", "rebuilding", "placing",
                      "unpausing", "entering"}
        /\ pc[c] = "reading" => kind[c] = "start"
        /\ pc[c] \in {"rebuilding", "placing", "unpausing"} => begins[c]
        /\ pc[c] = "entering" => kind[c] \in {"start", "restart"}
    BY DEF Starting, Starts
  <1>3. CASE Replace(c)
    BY <1>2, <1>3 DEF Replace, locals, Starting, Starts
  <1>4. CASE Claim(c)
    <2>1. pc'[c] = FirstStep(kind[c]) /\ kind[c] \in {"start", "restart"} /\ kind'[c] = kind[c]
      BY <1>1, <1>2, <1>4 DEF Claim, Goto, Maps, locals
    <2>2. QED
      BY <2>1 DEF FirstStep, Starting, Starts
  <1>5. ~ClaimRefused(c)
    <2>1. SUFFICES ASSUME ClaimRefused(c) PROVE FALSE
      OBVIOUS
    <2>2. where[c] = p
      BY <2>1, QuietPlace DEF ClaimRefused
    <2>3. lease[p] = "none" /\ Owns(p)
      BY <2>1, <2>2, QuietClaims DEF ClaimRefused
    <2>4. QED
      BY <2>3 DEF QuietStep, Quiet, LeaseQuiet
  <1>6. ~Join(c) /\ ~Enter(c)
    BY <1>2 DEF Join, Enter
  <1>7. CASE ResetRoom(c)
    BY <1>1, <1>7 DEF ResetRoom
  <1>8. CASE ClearEngine(c)
    <2>1. pc'[c] = "unpausing" /\ begins'[c]
      BY <1>1, <1>8 DEF ClearEngine, Goto, Maps
    <2>2. QED
      BY <2>1 DEF Starting, Starts
  <1>9. CASE ReadPlayback(c)
    <2>1. kind[c] = "start"
      BY <1>2, <1>9 DEF ReadPlayback
    <2>2. pc'[c] = "rebuilding" /\ begins'[c]
      BY <1>1, <1>9, <2>1 DEF ReadPlayback, Goto, Maps
    <2>3. QED
      BY <2>2 DEF Starting, Starts
  <1>10. CASE Rebuild(c)
    <2>1. pc'[c] = "placing" /\ begins'[c]
      BY <1>1, <1>2, <1>10 DEF Rebuild, Goto, Maps, locals
    <2>2. QED
      BY <2>1 DEF Starting, Starts
  <1>11. CASE Place(c)
    <2>1. kind[c] # "seek" /\ begins[c]
      BY <1>2, <1>11 DEF Place, QuietStep, Seeks
    <2>2. pc'[c] = "unpausing" /\ begins'[c]
      BY <1>1, <1>11, <2>1 DEF Place, Goto, Maps, locals
    <2>3. QED
      BY <2>2 DEF Starting, Starts
  <1>12. CASE Unpause(c)
    <2>1. pc'[c] = "launching"
      BY <1>1, <1>2, <1>12 DEF Unpause, Goto, Maps
    <2>2. QED
      BY <2>1 DEF Starting, Starts
  <1>13. CASE Launch(c)
    <2>1. where[c] = p
      BY <1>13, QuietPlace DEF Launch
    <2>2. QED
      BY <1>1, <1>13, <2>1 DEF Launch, Works, Maps, Alive
  <1>14. ~Settle(c) /\ ~Leave(c) /\ ~Pause(c) /\ ~Stop(c)
    BY <1>2 DEF Settle, Leave, Pause, Stop
  <1>15. QED
    BY <1>3, <1>4, <1>5, <1>6, <1>7, <1>8, <1>9, <1>10, <1>11, <1>12, <1>13, <1>14, QuietControls
       DEF Control

LEMMA StartingKept ==
    ASSUME NEW p, QuietStep(p), ~paused, NEW c \in Clients, Starting(c)
    PROVE  paused' \/ Starting(c)' \/ Alive(p)'
  <1>1. Maps
    BY HasMaps DEF QuietStep
  <1>2. CASE Stands(c)
    BY <1>2 DEF Stands, Starting, Starts
  <1>3. ASSUME NEW d \in Clients, Control(d)
        PROVE  Stands(c) \/ Control(c)
    BY <1>1, <1>3, ControlMoves DEF OnlyMoves
  <1>4. ASSUME NEW d \in Clients, NEW q \in Procs, NEW k \in Kinds, NEW n \in 0 .. LastEvent,
               Request(d, q, k, n)
        PROVE  Stands(c)
    <2>1. d # c
      BY <1>4 DEF Request, Starting, Starts
    <2>2. QED
      BY <1>1, <1>4, <2>1, RequestMoves
  <1>5. ASSUME NEW q \in Procs PROVE ~Crash(q) /\ ~Close(q)
    BY NoFault DEF Crash, Close
  <1>6. CASE Elsewhere
    BY <1>2, <1>6, ElsewhereStands
  <1>7. QED
    BY <1>2, <1>3, <1>4, <1>5, <1>6, StartingGoes DEF QuietStep, Next, Elsewhere

LEMMA AttendedKept == ASSUME NEW p, QuietStep(p) PROVE Attended(p)'
  <1>1. SUFFICES ASSUME ~paused'
                 PROVE  Alive(p)' \/ \E c \in Clients : Starting(c)'
    BY DEF Attended
  <1>2. Maps /\ p \in Procs
    BY HasMaps DEF QuietStep
  <1>3. CASE paused
    <2>1. PICK c \in Clients : Unpause(c)
      BY <1>1, <1>3, UnpauseOnly DEF QuietStep
    <2>2. CASE begins[c]
      <3>1. pc'[c] = "launching"
        BY <1>2, <2>1, <2>2 DEF Unpause, Goto, Maps
      <3>2. QED
        BY <3>1 DEF Starting, Starts
    <2>3. CASE ~begins[c]
      <3>1. Alive(p)
        BY <2>1, <2>3 DEF Unpause, Body, QuietStep, Quiet, Relied
      <3>2. QED
        BY <2>1, <3>1 DEF Unpause, process, Alive
    <2>4. QED
      BY <2>2, <2>3
  <1>4. CASE ~paused /\ Alive(p)
    <2>1. CASE QuietEnds(p)
      <3>1. PICK c \in Clients : Replace(c)
        BY <1>4, <2>1 DEF QuietEnds, Alive, Ticking
      <3>2. Starting(c)'
        BY <3>1 DEF Replace, locals, Starting
      <3>3. QED
        BY <3>2
    <2>2. CASE Same(p) \/ Claims(p) \/ Launches(p)
      BY <1>4, <2>2 DEF Same, Claims, Launches, Alive
    <2>3. CASE Ticks(p)
      BY <1>2, <2>3 DEF Ticks, TickBegin, Apply, Advance, Works, Ticking, Maps, Alive
    <2>4. QED
      BY <1>1, <2>1, <2>2, <2>3, QuietProc DEF QuietMoves
  <1>5. CASE ~paused /\ \E c \in Clients : Starting(c)
    BY <1>1, <1>5, StartingKept
  <1>6. QED
    BY <1>3, <1>4, <1>5 DEF QuietStep, Quiet, Attended

LEMMA InitQuiet == Init => QuietInv
  BY DEF Init, QuietInv, Seeks, Quiet, LeaseQuiet, Relied, Attended, Body

LEMMA QuietInvKept ==
    ASSUME NEW p, Procs = {p}, IInv, QuietInv, [Next]_vars
    PROVE  QuietInv'
  <1>1. Seeks'
    BY SeeksKept DEF QuietInv
  <1>2. ASSUME faults' = 0 PROVE Quiet(p)'
    <2>1. faults = 0
      BY <1>2, FaultSteps, MaxFaultsAssumption DEF IInv, TypeOK, Fault
    <2>2. QuietStep(p)
      BY <1>2, <2>1 DEF QuietStep, QuietInv
    <2>3. QED
      BY <2>2, LeaseQuietKept, ReliedKept, AttendedKept DEF Quiet
  <1>3. QED
    BY <1>1, <1>2 DEF QuietInv

\* With one process and no failure, an unpaused room is played, unless a control is
\* executing: a pause whose second part finds the room resumed stops no worker, and
\* no control takes the worker away without starting another (_stop_after_pause,
\* resume and _start_worker).
THEOREM RoomIsServed ==
    ASSUME NEW p, Procs = {p}
    PROVE  Spec => []Served
  <1>1. Init => QuietInv
    BY InitQuiet
  <1>2. IInv /\ QuietInv /\ [Next]_vars => QuietInv'
    BY QuietInvKept
  <1>3. IInv /\ QuietInv => Served
    <2>1. SUFFICES ASSUME IInv, QuietInv, faults = 0, ~paused
                   PROVE  Served
      BY DEF Served
    <2>2. p \in Procs /\ Quiet(p) /\ Maps
      BY <2>1, HasMaps DEF QuietInv
    <2>3. CASE Alive(p)
      <3>1. lease[p] = "held"
        BY <2>1, <2>2, <2>3 DEF Quiet, LeaseQuiet, Maps, IInv, WorkerHasLease, Alive, Ticking
      <3>2. QED
        BY <2>2, <2>3, <3>1 DEF Quiet, LeaseQuiet, Served, Alive
    <2>4. ASSUME NEW c \in Clients, Starting(c)
          PROVE  Served
      <3>1. InBody(c)
        BY <2>4, StartsInBody DEF Starting, InBody
      <3>2. where[c] = p
        BY <2>1, <3>1, HasMaps DEF Placed, InBody, Body
      <3>3. c \in At(p, Body \cup {"entering"})
        BY <3>1, <3>2 DEF At, InBody
      <3>4. QED
        BY <2>2, <3>3 DEF Served
    <2>5. QED
      BY <2>1, <2>2, <2>3, <2>4 DEF Quiet, Attended
  <1>4. QED
    BY <1>1, <1>2, <1>3, SpecIInv, PTL DEF Spec
=============================================================================
