------------------------- MODULE DetailReads_proofs -------------------------
(***************************************************************************)
(* Safety of the shared history reads for any number of callers, keys and  *)
(* places.  IInv adds to the properties what ties callers, reads and the   *)
(* register together: who waits has a started read, and every task that    *)
(* has not ended is registered, which is what makes the register a bound.  *)
(***************************************************************************)
EXTENDS DetailReads, FiniteSetTheorems, TLAPS

Waiters == \A c \in Callers : caller[c] = "waiting" =>
    read[c] \in Reads /\ task[read[c]] # "new"

Started == \A k \in Keys : inflight[k] # NoRead => task[inflight[k]] # "new"

Owned == Unfinished \subseteq Registered

Places == IsFiniteSet(Registered) /\ Cardinality(Registered) <= MaxTasks

Seats == \A r \in Reads :
    IsFiniteSet(Waiting(r)) /\ Cardinality(Waiting(r)) <= MaxPerTask

IInv ==
    /\ TypeOK /\ Waiters /\ Started /\ Owned /\ Places /\ Seats
    /\ RunningIsWanted /\ ClosedIsEmpty

LEMMA InitIInv == Init => IInv
  <1> SUFFICES ASSUME Init PROVE IInv
    OBVIOUS
  <1> USE ReadsAssumption DEF Init
  <1>1. TypeOK
    BY DEF TypeOK
  <1>2. Waiters /\ Started /\ ClosedIsEmpty
    BY DEF Waiters, Started, ClosedIsEmpty
  <1>3. Unfinished = {} /\ Registered = {}
    BY DEF Unfinished, Registered
  <1>4. \A r \in Reads : Waiting(r) = {}
    BY DEF Waiting
  <1>5. IsFiniteSet({}) /\ Cardinality({}) = 0 /\ MaxTasks \in Nat /\ MaxPerTask \in Nat
    BY FS_EmptySet
  <1>7. Owned /\ Places
    BY <1>3, <1>5 DEF Owned, Places
  <1>8. Seats
    <2> SUFFICES ASSUME NEW r \in Reads
                 PROVE  IsFiniteSet(Waiting(r)) /\ Cardinality(Waiting(r)) <= MaxPerTask
      BY DEF Seats
    <2>1. Waiting(r) = {}
      BY <1>4
    <2>2. Cardinality(Waiting(r)) = 0 /\ IsFiniteSet(Waiting(r))
      BY <2>1, <1>5
    <2>3. 0 <= MaxPerTask
      BY <1>5
    <2> QED
      BY <2>2, <2>3
  <1>6. RunningIsWanted
    BY DEF RunningIsWanted
  <1> QED
    BY <1>1, <1>2, <1>6, <1>7, <1>8 DEF IInv

-----------------------------------------------------------------------------
(* What the steps do to the callers of a read.                             *)

\* A read that is opened was nobody's.
LEMMA OpenedRead ==
    ASSUME Unused # {}
    PROVE  LET r == CHOOSE r \in Unused : TRUE
           IN  r \in Reads /\ r \notin Registered /\ r \notin Unfinished /\ Waiting(r) = {}
  BY DEF Unused

\* Who waits for a read after a caller has begun to.
LEMMA WaitAdds ==
    ASSUME TypeOK, NEW c \in Callers, NEW r \in Reads, Wait(c, r), caller[c] = "idle"
    PROVE  /\ Waiting(r)' = Waiting(r) \cup {c}
           /\ \A other \in Reads \ {r} : Waiting(other)' = Waiting(other)
  BY DEF Wait, Waiting, TypeOK

\* Who waits after a caller that did not wait has got its answer.
LEMMA RefusalKeeps ==
    ASSUME TypeOK, NEW c \in Callers, NEW how, Ends(c, how), caller[c] # "waiting"
    PROVE  \A r \in Reads : Waiting(r)' = Waiting(r)
  BY DEF Ends, Waiting, TypeOK

\* Who waits after a caller has got its answer, or has left.
LEMMA EndRemoves ==
    ASSUME TypeOK, NEW c \in Callers, NEW r \in Reads, read[c] = r,
           caller[c] = "waiting", caller'[c] # "waiting",
           \A o \in Callers \ {c} : caller'[o] = caller[o] /\ read'[o] = read[o]
    PROVE  /\ Waiting(r)' = Waiting(r) \ {c}
           /\ \A other \in Reads \ {r} : Waiting(other)' = Waiting(other)
  BY DEF Waiting, TypeOK

-----------------------------------------------------------------------------
(* Types.                                                                  *)

LEMMA TypeKept == IInv /\ [Next]_vars => TypeOK'
  <1> SUFFICES ASSUME IInv, [Next]_vars PROVE TypeOK'
    OBVIOUS
  <1> USE ReadsAssumption DEF IInv, TypeOK
  <1>1. ASSUME NEW c \in Callers, Leave(c) PROVE TypeOK'
    BY <1>1 DEF Leave, Detach, CancelUnwanted
  <1>2. ASSUME NEW c \in Callers, Left(c) PROVE TypeOK'
    BY <1>2 DEF Left, Ends
  <1>3. ASSUME NEW c \in Callers, Wake(c) PROVE TypeOK'
    <2>1. read[c] \in Reads /\ task[read[c]] # "new" /\ read[c] \notin Unfinished
      BY <1>3 DEF Wake, Waiters
    <2>2. task[read[c]] \in {"result", "cancelled"}
      BY <2>1 DEF Unfinished
    <2> QED
      BY <1>3, <2>2 DEF Wake, Ends
  <1>4. ASSUME NEW c \in Callers, NEW k \in Keys, Join(c, k) PROVE TypeOK'
    <2>1. inflight[k] \in Reads
      BY <1>4 DEF Join
    <2>2. CASE HasSeat(inflight[k])
      BY <1>4, <2>1, <2>2 DEF Join, Wait
    <2>3. CASE ~HasSeat(inflight[k])
      BY <1>4, <2>3 DEF Join, Ends
    <2> QED
      BY <2>2, <2>3
  <1>5. ASSUME NEW c \in Callers, NEW k \in Keys, Open(c, k) PROVE TypeOK'
    <2> DEFINE r == CHOOSE r \in Unused : TRUE
    <2>1. r \in Reads
      BY <1>5, OpenedRead DEF Open
    <2>2. /\ inflight' = [inflight EXCEPT ![k] = r]
          /\ task' = [task EXCEPT ![r] = "running"]
          /\ Wait(c, r) /\ UNCHANGED <<closed, cached>>
      BY <1>5 DEF Open
    <2> HIDE DEF r
    <2> QED
      BY <2>1, <2>2 DEF Wait
  <1>6. ASSUME NEW c \in Callers, NEW k \in Keys, Busy(c, k) PROVE TypeOK'
    BY <1>6 DEF Busy, Ends
  <1>7. ASSUME NEW r \in Reads, Finish(r) PROVE TypeOK'
    BY <1>7 DEF Finish, Remember
  <1>8. ASSUME NEW r \in Reads, Cancelled(r) PROVE TypeOK'
    BY <1>8 DEF Cancelled, Remember
  <1>9. ASSUME NEW r \in Reads, Finished(r) PROVE TypeOK'
    BY <1>9 DEF Finished
  <1>10. CASE Close
    BY <1>10 DEF Close
  <1>11. CASE Evict
    BY <1>11 DEF Evict
  <1>12. CASE UNCHANGED vars
    BY <1>12 DEF vars
  <1> QED
    BY <1>1, <1>2, <1>3, <1>4, <1>5, <1>6, <1>7, <1>8, <1>9, <1>10, <1>11, <1>12 DEF Next

-----------------------------------------------------------------------------
(* Each step, as what it does to the callers and to the tasks.             *)

\* A caller leaves: its read loses it, and its task if it was the last.
LEMMA LeaveEffect ==
    ASSUME IInv, NEW c \in Callers, Leave(c)
    PROVE  \E r \in Reads :
               /\ read[c] = r /\ c \in Waiting(r) /\ Waiting(r)' = Waiting(r) \ {c}
               /\ \A other \in Reads \ {r} : Waiting(other)' = Waiting(other)
               /\ task' = [task EXCEPT ![r] =
                      IF @ = "running" /\ Waiting(r) = {c} THEN "cancelling" ELSE @]
               /\ UNCHANGED <<inflight, closed, cached>>
  <1> DEFINE r == read[c]
  <1>1. r \in Reads /\ caller[c] = "waiting" /\ c \in Waiting(r)
    BY DEF Leave, IInv, Waiters, Waiting
  <1>2. caller' = [caller EXCEPT ![c] = "leaving"] /\ read' = [read EXCEPT ![c] = NoRead]
    BY DEF Leave, Detach
  <1>3. /\ caller'[c] # "waiting"
        /\ \A o \in Callers \ {c} : caller'[o] = caller[o] /\ read'[o] = read[o]
    BY <1>2 DEF IInv, TypeOK
  <1>4. \A s \in Reads : read[c] = s =>
            /\ Waiting(s)' = Waiting(s) \ {c}
            /\ \A other \in Reads \ {s} : Waiting(other)' = Waiting(other)
    BY <1>1, <1>3, EndRemoves DEF IInv
  <1>5. task' = [task EXCEPT ![r] =
            IF @ = "running" /\ Waiting(r) = {c} THEN "cancelling" ELSE @]
    BY DEF Leave, CancelUnwanted
  <1>6. UNCHANGED <<inflight, closed, cached>>
    BY DEF Leave, Detach
  <1>7. PICK s \in Reads : s = r
    BY <1>1
  <1> QED
    BY <1>1, <1>4, <1>5, <1>6, <1>7

\* A caller gets its answer: its read, whose task has ended, loses it.
LEMMA WakeEffect ==
    ASSUME IInv, NEW c \in Callers, Wake(c)
    PROVE  \E r \in Reads :
               /\ r \notin Unfinished /\ Waiting(r)' = Waiting(r) \ {c}
               /\ \A other \in Reads \ {r} : Waiting(other)' = Waiting(other)
               /\ UNCHANGED <<inflight, task, closed, cached>>
  <1> DEFINE r == read[c]
  <1>1. r \in Reads /\ caller[c] = "waiting" /\ r \notin Unfinished
    BY DEF Wake, IInv, Waiters
  <1>2. caller' = [caller EXCEPT ![c] = "idle"] /\ read' = [read EXCEPT ![c] = NoRead]
    BY DEF Wake, Ends
  <1>3. /\ caller'[c] # "waiting"
        /\ \A o \in Callers \ {c} : caller'[o] = caller[o] /\ read'[o] = read[o]
    BY <1>2 DEF IInv, TypeOK
  <1>4. \A s \in Reads : read[c] = s =>
            /\ Waiting(s)' = Waiting(s) \ {c}
            /\ \A other \in Reads \ {s} : Waiting(other)' = Waiting(other)
    BY <1>1, <1>3, EndRemoves DEF IInv
  <1>5. UNCHANGED <<inflight, task, closed, cached>>
    BY DEF Wake
  <1> QED
    BY <1>1, <1>4, <1>5

\* A caller joins a read that has a seat for it, or is refused.
LEMMA JoinEffect ==
    ASSUME IInv, NEW c \in Callers, NEW k \in Keys, Join(c, k)
    PROVE  /\ UNCHANGED <<inflight, task, closed, cached>>
           /\ \/ \A r \in Reads : Waiting(r)' = Waiting(r)
              \/ \E r \in Reads :
                    /\ r = inflight[k] /\ Cardinality(Waiting(r)) < MaxPerTask
                    /\ Wait(c, r) /\ Waiting(r)' = Waiting(r) \cup {c}
                    /\ \A other \in Reads \ {r} : Waiting(other)' = Waiting(other)
  <1>1. UNCHANGED <<inflight, task, closed, cached>> /\ caller[c] = "idle"
    BY DEF Join
  <1>2. inflight[k] \in Reads
    BY DEF Join, IInv, TypeOK
  <1>3. CASE HasSeat(inflight[k])
    <2>1. Wait(c, inflight[k]) /\ Cardinality(Waiting(inflight[k])) < MaxPerTask
      BY <1>3 DEF Join, HasSeat
    <2>2. PICK r \in Reads : r = inflight[k]
      BY <1>2
    <2>3. Wait(c, r) /\ Cardinality(Waiting(r)) < MaxPerTask
      BY <2>1, <2>2
    <2>4. /\ Waiting(r)' = Waiting(r) \cup {c}
          /\ \A other \in Reads \ {r} : Waiting(other)' = Waiting(other)
      BY <1>1, <2>3, WaitAdds DEF IInv
    <2> QED
      BY <1>1, <2>2, <2>3, <2>4
  <1>4. CASE ~HasSeat(inflight[k])
    <2>1. Ends(c, "busy")
      BY <1>4 DEF Join
    <2> QED
      BY <1>1, <2>1, RefusalKeeps DEF IInv
  <1> QED
    BY <1>3, <1>4

\* A caller opens a read that is nobody's.
LEMMA OpenEffect ==
    ASSUME IInv, NEW c \in Callers, NEW k \in Keys, Open(c, k)
    PROVE  \E r \in Reads :
               /\ r \notin Registered /\ Waiting(r) = {} /\ SlotFree
               /\ inflight[k] = NoRead /\ inflight' = [inflight EXCEPT ![k] = r]
               /\ task' = [task EXCEPT ![r] = "running"]
               /\ Wait(c, r) /\ Waiting(r)' = {c}
               /\ \A other \in Reads \ {r} : Waiting(other)' = Waiting(other)
               /\ UNCHANGED <<closed, cached>>
  <1> DEFINE r == CHOOSE r \in Unused : TRUE
  <1>1. r \in Reads /\ r \notin Registered /\ Waiting(r) = {}
    BY OpenedRead DEF Open
  <1>2. /\ inflight[k] = NoRead /\ caller[c] = "idle" /\ SlotFree
        /\ inflight' = [inflight EXCEPT ![k] = r]
        /\ task' = [task EXCEPT ![r] = "running"]
        /\ Wait(c, r) /\ UNCHANGED <<closed, cached>>
    BY DEF Open
  <1> HIDE DEF r
  <1>3. PICK s \in Reads : s = r
    BY <1>1
  <1>4. /\ Waiting(s)' = Waiting(s) \cup {c}
        /\ \A other \in Reads \ {s} : Waiting(other)' = Waiting(other)
    BY <1>2, <1>3, WaitAdds DEF IInv
  <1>5. Waiting(s)' = {c}
    BY <1>1, <1>3, <1>4
  <1> QED
    BY <1>1, <1>2, <1>3, <1>4, <1>5

\* Nobody begins or ends to wait in the other steps.
LEMMA QuietEffect ==
    ASSUME IInv,
           \/ \E c \in Callers : Left(c) \/ \E k \in Keys : Busy(c, k)
           \/ \E r \in Reads : Finish(r) \/ Cancelled(r) \/ Finished(r)
           \/ Close \/ Evict \/ UNCHANGED vars
    PROVE  \A r \in Reads : Waiting(r)' = Waiting(r)
  <1>1. ASSUME NEW c \in Callers, Left(c) PROVE \A r \in Reads : Waiting(r)' = Waiting(r)
    <2>1. PICK how : Ends(c, how)
      BY <1>1 DEF Left
    <2> QED
      BY <1>1, <2>1, RefusalKeeps DEF Left, IInv
  <1>2. ASSUME NEW c \in Callers, NEW k \in Keys, Busy(c, k)
        PROVE  \A r \in Reads : Waiting(r)' = Waiting(r)
    BY <1>2, RefusalKeeps DEF Busy, IInv
  <1>3. ASSUME UNCHANGED <<caller, read>> PROVE \A r \in Reads : Waiting(r)' = Waiting(r)
    BY <1>3 DEF Waiting
  <1> QED
    BY <1>1, <1>2, <1>3 DEF Finish, Cancelled, Finished, Close, Evict, vars

-----------------------------------------------------------------------------
(* Each conjunct of IInv, kept.                                            *)

\* A task that was started stays so.
LEMMA StaysStarted ==
    ASSUME IInv, [Next]_vars, NEW r \in Reads, task[r] # "new"
    PROVE  task'[r] # "new"
  <1> USE DEF IInv, TypeOK
  <1>1. ASSUME NEW c \in Callers, Leave(c) PROVE task'[r] # "new"
    BY <1>1 DEF Leave, CancelUnwanted
  <1>2. ASSUME NEW c \in Callers, NEW k \in Keys, Open(c, k) PROVE task'[r] # "new"
    <2>1. PICK s \in Reads : task' = [task EXCEPT ![s] = "running"]
      BY <1>2, OpenEffect
    <2> QED
      BY <2>1
  <1>3. ASSUME NEW s \in Reads, Finish(s) \/ Cancelled(s) PROVE task'[r] # "new"
    BY <1>3 DEF Finish, Cancelled
  <1>4. CASE Close
    BY <1>4 DEF Close
  <1>5. CASE UNCHANGED task
    BY <1>5
  <1> QED
    BY <1>1, <1>2, <1>3, <1>4, <1>5 DEF Next, vars, Left, Wake, Join, Busy, Finished, Evict

LEMMA WaitersKept == IInv /\ [Next]_vars => Waiters'
  <1> SUFFICES ASSUME IInv, [Next]_vars, NEW c \in Callers, caller'[c] = "waiting"
               PROVE  read'[c] \in Reads /\ task'[read'[c]] # "new"
    BY DEF Waiters
  <1> USE DEF IInv, TypeOK
  <1>1. CASE caller[c] = "waiting" /\ read'[c] = read[c]
    BY <1>1, StaysStarted DEF Waiters
  <1>2. ASSUME NEW r \in Reads, NEW d \in Callers, Wait(d, r), task'[r] # "new"
        PROVE  read'[c] \in Reads /\ task'[read'[c]] # "new"
    <2>1. CASE c = d
      BY <1>2, <2>1 DEF Wait
    <2>2. CASE c # d
      BY <1>2, <2>2, <1>1 DEF Wait
    <2> QED
      BY <2>1, <2>2
  <1>3. ASSUME NEW d \in Callers, NEW k \in Keys, Open(d, k)
        PROVE  read'[c] \in Reads /\ task'[read'[c]] # "new"
    <2>1. PICK r \in Reads : Wait(d, r) /\ task' = [task EXCEPT ![r] = "running"]
      BY <1>3, OpenEffect
    <2>2. task'[r] # "new"
      BY <2>1
    <2> QED
      BY <1>2, <2>1, <2>2
  <1>4. ASSUME NEW d \in Callers, NEW k \in Keys, Join(d, k)
        PROVE  read'[c] \in Reads /\ task'[read'[c]] # "new"
    <2>1. CASE HasSeat(inflight[k])
      <3>1. inflight[k] \in Reads /\ task[inflight[k]] # "new"
        BY <1>4 DEF Join, Started
      <3>2. Wait(d, inflight[k]) /\ UNCHANGED task
        BY <1>4, <2>1 DEF Join
      <3> QED
        BY <1>2, <3>1, <3>2
    <2>2. CASE ~HasSeat(inflight[k])
      BY <1>1, <1>4, <2>2 DEF Join, Ends
    <2> QED
      BY <2>1, <2>2
  <1>5. ASSUME NEW d \in Callers, Leave(d) \/ Left(d) \/ Wake(d) \/ \E k \in Keys : Busy(d, k)
        PROVE  read'[c] \in Reads /\ task'[read'[c]] # "new"
    BY <1>1, <1>5 DEF Leave, Detach, Left, Wake, Busy, Ends
  <1>6. CASE UNCHANGED <<caller, read>>
    BY <1>1, <1>6
  <1> QED
    BY <1>3, <1>4, <1>5, <1>6 DEF Next, vars, Finish, Cancelled, Finished, Close, Evict

LEMMA StartedKept == IInv /\ [Next]_vars => Started'
  <1> SUFFICES ASSUME IInv, [Next]_vars, NEW k \in Keys, inflight'[k] # NoRead
               PROVE  task'[inflight'[k]] # "new"
    BY DEF Started
  <1> USE DEF IInv, TypeOK
  <1>1. CASE inflight'[k] = inflight[k]
    BY <1>1, StaysStarted DEF Started
  <1>2. ASSUME NEW c \in Callers, NEW l \in Keys, Open(c, l)
        PROVE  task'[inflight'[k]] # "new"
    <2>1. PICK r \in Reads : /\ inflight' = [inflight EXCEPT ![l] = r]
                             /\ task' = [task EXCEPT ![r] = "running"]
      BY <1>2, OpenEffect
    <2>2. CASE k = l
      BY <2>1, <2>2
    <2>3. CASE k # l
      BY <1>1, <2>1, <2>3
    <2> QED
      BY <2>2, <2>3
  <1>3. ASSUME NEW r \in Reads, Finished(r) PROVE task'[inflight'[k]] # "new"
    BY <1>1, <1>3 DEF Finished
  <1>4. ASSUME NEW c \in Callers, Leave(c) PROVE UNCHANGED inflight
    BY <1>4 DEF Leave, Detach
  <1> QED
    BY <1>1, <1>2, <1>3, <1>4
    DEF Next, vars, Left, Wake, Join, Busy, Finish, Cancelled, Close, Evict

\* The register and the tasks that have not ended.
LEMMA OwnedKept == IInv /\ [Next]_vars => Owned'
  <1> SUFFICES ASSUME IInv, [Next]_vars PROVE Owned'
    OBVIOUS
  <1> USE DEF IInv, TypeOK
  <1>1. ASSUME UNCHANGED inflight, Unfinished' \subseteq Unfinished PROVE Owned'
    BY <1>1 DEF Owned, Registered
  <1>2. ASSUME NEW c \in Callers, Leave(c) PROVE Owned'
    <2>1. PICK r \in Reads : /\ UNCHANGED inflight
                             /\ task' = [task EXCEPT ![r] =
                                   IF @ = "running" /\ Waiting(r) = {c} THEN "cancelling" ELSE @]
      BY <1>2, LeaveEffect
    <2>2. Unfinished' \subseteq Unfinished
      BY <2>1 DEF Unfinished
    <2> QED
      BY <1>1, <2>1, <2>2
  <1>3. ASSUME NEW c \in Callers, NEW k \in Keys, Open(c, k) PROVE Owned'
    <2>1. PICK r \in Reads : /\ inflight[k] = NoRead /\ inflight' = [inflight EXCEPT ![k] = r]
                             /\ task' = [task EXCEPT ![r] = "running"]
      BY <1>3, OpenEffect
    <2>2. Unfinished' \subseteq Unfinished \cup {r}
      BY <2>1 DEF Unfinished
    <2>3. Registered \cup {r} \subseteq Registered'
      BY <2>1, ReadsAssumption DEF Registered
    <2> QED
      BY <2>2, <2>3 DEF Owned
  <1>4. ASSUME NEW r \in Reads, Finish(r) \/ Cancelled(r) PROVE Owned'
    BY <1>1, <1>4 DEF Finish, Cancelled, Unfinished
  <1>5. ASSUME NEW r \in Reads, Finished(r) PROVE Owned'
    <2>1. UNCHANGED Unfinished /\ r \notin Unfinished
      BY <1>5 DEF Finished, Unfinished
    <2>2. Registered \ {r} \subseteq Registered'
      BY <1>5 DEF Finished, Registered
    <2> QED
      BY <2>1, <2>2 DEF Owned
  <1>6. CASE Close
    BY <1>1, <1>6 DEF Close, Unfinished
  <1>7. CASE UNCHANGED <<inflight, task>>
    BY <1>1, <1>7 DEF Unfinished
  <1> QED
    BY <1>2, <1>3, <1>4, <1>5, <1>6, <1>7 DEF Next, vars, Left, Wake, Join, Busy, Evict

LEMMA PlacesKept == IInv /\ [Next]_vars => Places'
  <1> SUFFICES ASSUME IInv, [Next]_vars PROVE Places'
    OBVIOUS
  <1> USE DEF IInv, TypeOK
  <1>0. MaxTasks \in Nat /\ Cardinality(Registered) \in Nat
    BY ReadsAssumption, FS_CardinalityType DEF Places
  <1>1. ASSUME Registered' \subseteq Registered PROVE Places'
    <2>1. IsFiniteSet(Registered') /\ Cardinality(Registered') <= Cardinality(Registered)
      BY <1>1, FS_Subset DEF Places
    <2>2. Cardinality(Registered') \in Nat
      BY <2>1, FS_CardinalityType
    <2> QED
      BY <1>0, <2>1, <2>2 DEF Places
  <1>2. ASSUME NEW c \in Callers, NEW k \in Keys, Open(c, k) PROVE Places'
    <2>1. PICK r \in Reads : /\ r \notin Registered /\ SlotFree /\ inflight[k] = NoRead
                             /\ inflight' = [inflight EXCEPT ![k] = r]
      BY <1>2, OpenEffect
    <2>2. Registered' = Registered \cup {r}
      BY <2>1, ReadsAssumption DEF Registered
    <2>3. /\ IsFiniteSet(Registered \cup {r})
          /\ Cardinality(Registered \cup {r}) = Cardinality(Registered) + 1
      BY <2>1, FS_AddElement DEF Places
    <2>4. Cardinality(Registered) + 1 <= MaxTasks
      BY <1>0, <2>1 DEF SlotFree
    <2>5. IsFiniteSet(Registered') /\ Cardinality(Registered') = Cardinality(Registered) + 1
      BY <2>2, <2>3
    <2> QED
      BY <2>4, <2>5 DEF Places
  <1>3. ASSUME NEW r \in Reads, Finished(r) PROVE Places'
    <2>1. Registered' \subseteq Registered
      BY <1>3, ReadsAssumption DEF Finished, Registered
    <2> QED
      BY <1>1, <2>1
  <1>4. CASE UNCHANGED inflight
    BY <1>1, <1>4 DEF Registered
  <1>5. ASSUME NEW c \in Callers, Leave(c) PROVE UNCHANGED inflight
    BY <1>5 DEF Leave, Detach
  <1> QED
    BY <1>2, <1>3, <1>4, <1>5
    DEF Next, vars, Left, Wake, Join, Busy, Finish, Cancelled, Close, Evict

\* The seats of a read: they are given one at a time, below the limit.
LEMMA SeatsKept == IInv /\ [Next]_vars => Seats'
  <1> SUFFICES ASSUME IInv, [Next]_vars, NEW r \in Reads
               PROVE  IsFiniteSet(Waiting(r)') /\ Cardinality(Waiting(r)') <= MaxPerTask
    BY DEF Seats
  <1>0. /\ MaxPerTask \in Nat /\ 1 <= MaxPerTask /\ Cardinality(Waiting(r)) \in Nat
        /\ IsFiniteSet(Waiting(r)) /\ Cardinality(Waiting(r)) <= MaxPerTask
    BY ReadsAssumption, FS_CardinalityType DEF IInv, Seats
  <1>1. ASSUME Waiting(r)' \subseteq Waiting(r)
        PROVE  IsFiniteSet(Waiting(r)') /\ Cardinality(Waiting(r)') <= MaxPerTask
    <2>1. IsFiniteSet(Waiting(r)') /\ Cardinality(Waiting(r)') <= Cardinality(Waiting(r))
      BY <1>0, <1>1, FS_Subset
    <2>2. Cardinality(Waiting(r)') \in Nat
      BY <2>1, FS_CardinalityType
    <2> QED
      BY <1>0, <2>1, <2>2
  <1>2. ASSUME NEW c \in Callers, Leave(c) \/ Wake(c) PROVE Waiting(r)' \subseteq Waiting(r)
    BY <1>2, LeaveEffect, WakeEffect
  <1>3. ASSUME NEW c \in Callers, NEW k \in Keys, Open(c, k)
        PROVE  IsFiniteSet(Waiting(r)') /\ Cardinality(Waiting(r)') <= MaxPerTask
    <2>1. PICK s \in Reads : /\ Waiting(s)' = {c}
                             /\ \A other \in Reads \ {s} : Waiting(other)' = Waiting(other)
      BY <1>3, OpenEffect
    <2>2. CASE r = s
      <3>1. IsFiniteSet({c}) /\ Cardinality({c}) = 1
        BY FS_Singleton
      <3>2. Waiting(r)' = {c}
        BY <2>1, <2>2
      <3> QED
        BY <1>0, <3>1, <3>2
    <2>3. CASE r # s
      BY <1>1, <2>1, <2>3
    <2> QED
      BY <2>2, <2>3
  <1>4. ASSUME NEW c \in Callers, NEW k \in Keys, Join(c, k)
        PROVE  IsFiniteSet(Waiting(r)') /\ Cardinality(Waiting(r)') <= MaxPerTask
    <2>1. CASE \A s \in Reads : Waiting(s)' = Waiting(s)
      BY <1>1, <2>1
    <2>2. CASE \E s \in Reads :
              /\ Cardinality(Waiting(s)) < MaxPerTask /\ Waiting(s)' = Waiting(s) \cup {c}
              /\ \A other \in Reads \ {s} : Waiting(other)' = Waiting(other)
      <3>1. PICK s \in Reads :
                /\ Cardinality(Waiting(s)) < MaxPerTask /\ Waiting(s)' = Waiting(s) \cup {c}
                /\ \A other \in Reads \ {s} : Waiting(other)' = Waiting(other)
        BY <2>2
      <3>2. CASE r = s
        <4>1. /\ IsFiniteSet(Waiting(r) \cup {c})
              /\ \/ Cardinality(Waiting(r) \cup {c}) = Cardinality(Waiting(r)) + 1
                 \/ Cardinality(Waiting(r) \cup {c}) = Cardinality(Waiting(r))
          BY <1>0, FS_AddElement
        <4>2. Waiting(r)' = Waiting(r) \cup {c} /\ Cardinality(Waiting(r)) + 1 <= MaxPerTask
          BY <1>0, <3>1, <3>2
        <4> QED
          BY <1>0, <4>1, <4>2
      <3>3. CASE r # s
        BY <1>1, <3>1, <3>3
      <3> QED
        BY <3>2, <3>3
    <2> QED
      BY <1>4, <2>1, <2>2, JoinEffect
  <1>5. CASE \/ \E c \in Callers : Left(c) \/ \E k \in Keys : Busy(c, k)
             \/ \E s \in Reads : Finish(s) \/ Cancelled(s) \/ Finished(s)
             \/ Close \/ Evict \/ UNCHANGED vars
    BY <1>1, <1>5, QuietEffect
  <1> QED
    BY <1>1, <1>2, <1>3, <1>4, <1>5 DEF Next

\* A running task that loses its last caller stops running in that step.
LEMMA WantedKept == IInv /\ [Next]_vars => RunningIsWanted'
  <1> SUFFICES ASSUME IInv, [Next]_vars, NEW r \in Reads, task'[r] = "running"
               PROVE  Waiting(r)' # {}
    BY DEF RunningIsWanted
  <1> USE DEF IInv, TypeOK
  <1>1. ASSUME task[r] = "running", Waiting(r) \subseteq Waiting(r)' PROVE Waiting(r)' # {}
    BY <1>1 DEF RunningIsWanted
  <1>2. ASSUME NEW c \in Callers, Leave(c) PROVE Waiting(r)' # {}
    <2>1. PICK s \in Reads :
              /\ c \in Waiting(s) /\ Waiting(s)' = Waiting(s) \ {c}
              /\ \A other \in Reads \ {s} : Waiting(other)' = Waiting(other)
              /\ task' = [task EXCEPT ![s] =
                    IF @ = "running" /\ Waiting(s) = {c} THEN "cancelling" ELSE @]
      BY <1>2, LeaveEffect
    <2>2. CASE r = s
      <3>1. task[r] = "running" /\ Waiting(r) # {c}
        BY <2>1, <2>2
      <3> QED
        BY <2>1, <2>2, <3>1
    <2>3. CASE r # s
      BY <1>1, <2>1, <2>3
    <2> QED
      BY <2>2, <2>3
  <1>3. ASSUME NEW c \in Callers, Wake(c) PROVE Waiting(r)' # {}
    <2>1. PICK s \in Reads :
              /\ s \notin Unfinished /\ UNCHANGED task
              /\ \A other \in Reads \ {s} : Waiting(other)' = Waiting(other)
      BY <1>3, WakeEffect
    <2>2. task[r] = "running" /\ r # s
      BY <2>1 DEF Unfinished
    <2> QED
      BY <1>1, <2>1, <2>2
  <1>4. ASSUME NEW c \in Callers, NEW k \in Keys, Join(c, k) PROVE Waiting(r)' # {}
    <2>1. UNCHANGED task /\ Waiting(r) \subseteq Waiting(r)'
      BY <1>4, JoinEffect
    <2> QED
      BY <1>1, <2>1
  <1>5. ASSUME NEW c \in Callers, NEW k \in Keys, Open(c, k) PROVE Waiting(r)' # {}
    <2>1. PICK s \in Reads :
              /\ task' = [task EXCEPT ![s] = "running"] /\ Waiting(s)' = {c}
              /\ \A other \in Reads \ {s} : Waiting(other)' = Waiting(other)
      BY <1>5, OpenEffect
    <2>2. CASE r = s
      BY <2>1, <2>2
    <2>3. CASE r # s
      BY <1>1, <2>1, <2>3
    <2> QED
      BY <2>2, <2>3
  <1>6. CASE \/ \E c \in Callers : Left(c) \/ \E k \in Keys : Busy(c, k)
             \/ \E s \in Reads : Finish(s) \/ Cancelled(s) \/ Finished(s)
             \/ Close \/ Evict \/ UNCHANGED vars
    <2>1. task[r] = "running"
      BY <1>6 DEF Left, Busy, Finish, Cancelled, Finished, Close, Evict, vars
    <2>2. Waiting(r)' = Waiting(r)
      BY <1>6, QuietEffect
    <2> QED
      BY <1>1, <2>1, <2>2
  <1> QED
    BY <1>2, <1>3, <1>4, <1>5, <1>6 DEF Next

LEMMA ClosedKept == IInv /\ [Next]_vars => ClosedIsEmpty'
  <1> SUFFICES ASSUME IInv, [Next]_vars PROVE ClosedIsEmpty'
    OBVIOUS
  <1> USE DEF IInv, ClosedIsEmpty
  <1>1. CASE UNCHANGED <<closed, cached>>
    BY <1>1
  <1>2. ASSUME NEW r \in Reads, Finish(r) \/ Cancelled(r) PROVE ClosedIsEmpty'
    BY <1>2 DEF Finish, Cancelled, Remember
  <1>3. CASE Close \/ Evict
    BY <1>3 DEF Close, Evict
  <1>4. ASSUME NEW c \in Callers, NEW k \in Keys, Open(c, k) PROVE UNCHANGED <<closed, cached>>
    BY <1>4 DEF Open
  <1> QED
    BY <1>1, <1>2, <1>3, <1>4 DEF Next, vars, Leave, Left, Wake, Join, Busy, Finished

-----------------------------------------------------------------------------
(* The theorems.                                                           *)

\* Every reachable state satisfies IInv: callers, reads and the register of
\* history_details.py's HistoryDetailReader agree.
THEOREM SpecIInv == Spec => []IInv
  <1>1. Init => IInv
    BY InitIInv
  <1>2. IInv /\ [Next]_vars => IInv'
    BY TypeKept, WaitersKept, StartedKept, OwnedKept, PlacesKept, SeatsKept,
       WantedKept, ClosedKept DEF IInv
  <1> QED
    BY <1>1, <1>2, PTL DEF Spec

\* The reader's variables keep their types.
THEOREM TypeCorrect == Spec => []TypeOK
  <1>1. IInv => TypeOK
    BY DEF IInv
  <1> QED
    BY <1>1, SpecIInv, PTL

\* At most MaxTasks reconstructions have not ended, those that were cancelled
\* and still clean up included: each keeps its place in _inflight.
THEOREM TasksAreBounded == Spec => []TasksBounded
  <1>1. IInv => TasksBounded
    <2> SUFFICES ASSUME IInv PROVE Cardinality(Unfinished) <= MaxTasks
      BY DEF TasksBounded
    <2>1. IsFiniteSet(Unfinished) /\ Cardinality(Unfinished) <= Cardinality(Registered)
      BY FS_Subset DEF IInv, Owned, Places
    <2>2. Cardinality(Unfinished) \in Nat /\ Cardinality(Registered) \in Nat /\ MaxTasks \in Nat
      BY <2>1, ReadsAssumption, FS_CardinalityType DEF IInv, Places
    <2> QED
      BY <2>1, <2>2 DEF IInv, Places
  <1> QED
    BY <1>1, SpecIInv, PTL

\* No read ever has more callers than one task may serve.
THEOREM SeatsAreBounded == Spec => []SeatsBounded
  <1>1. IInv => SeatsBounded
    BY DEF IInv, Seats, SeatsBounded
  <1> QED
    BY <1>1, SpecIInv, PTL

\* A task that was not cancelled works for a caller that still waits.
THEOREM RunningWanted == Spec => []RunningIsWanted
  <1>1. IInv => RunningIsWanted
    BY DEF IInv
  <1> QED
    BY <1>1, SpecIInv, PTL

\* A closed reader remembers nothing, however late its tasks end.
THEOREM ClosedEmpty == Spec => []ClosedIsEmpty
  <1>1. IInv => ClosedIsEmpty
    BY DEF IInv
  <1> QED
    BY <1>1, SpecIInv, PTL

\* Only the last caller to leave, or close(), cancels a task.
THEOREM PeersKept == Spec => PeersKeepTask
  <1>1. IInv /\ [Next]_vars =>
            [\A r \in Reads : task[r] = "running" /\ task'[r] = "cancelling"
                => closed' \/ Waiting(r)' = {}]_vars
    <2> SUFFICES ASSUME IInv, Next, NEW r \in Reads,
                        task[r] = "running", task'[r] = "cancelling"
                 PROVE  closed' \/ Waiting(r)' = {}
      OBVIOUS
    <2> USE DEF IInv, TypeOK
    <2>1. ASSUME NEW c \in Callers, Leave(c) PROVE Waiting(r)' = {}
      <3>1. PICK s \in Reads :
                /\ Waiting(s)' = Waiting(s) \ {c}
                /\ task' = [task EXCEPT ![s] =
                      IF @ = "running" /\ Waiting(s) = {c} THEN "cancelling" ELSE @]
        BY <2>1, LeaveEffect
      <3>2. r = s /\ Waiting(r) = {c}
        BY <3>1
      <3> QED
        BY <3>1, <3>2
    <2>2. ASSUME NEW c \in Callers, NEW k \in Keys, Open(c, k) PROVE FALSE
      <3>1. PICK s \in Reads : task' = [task EXCEPT ![s] = "running"]
        BY <2>2, OpenEffect
      <3> QED
        BY <3>1
    <2>3. ASSUME NEW s \in Reads, Finish(s) \/ Cancelled(s) PROVE FALSE
      BY <2>3 DEF Finish, Cancelled
    <2>4. ASSUME UNCHANGED task PROVE FALSE
      BY <2>4
    <2>5. CASE Close
      BY <2>5 DEF Close
    <2> QED
      BY <2>1, <2>2, <2>3, <2>4, <2>5
      DEF Next, Left, Wake, Join, Busy, Finished, Evict
  <1> QED
    BY <1>1, SpecIInv, PTL DEF Spec, PeersKeepTask

\* Reads are shared by any number of callers without overtaking a bound of the
\* reader, working for nobody, or outliving it in memory (HistoryDetailReader).
THEOREM ReadsAreShared == Spec => []ReadsShared
  BY TypeCorrect, TasksAreBounded, SeatsAreBounded, RunningWanted, ClosedEmpty, PTL
     DEF ReadsShared
=============================================================================
