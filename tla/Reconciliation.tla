--------------------------- MODULE Reconciliation ---------------------------
(***************************************************************************)
(* Recovery of recently completed sessions (RecentSessionReconciliation-   *)
(* Service): passes of several processes, serialised by an advisory lease  *)
(* on a connection, each take the few completed rooms that were attempted  *)
(* least recently, mark the attempt durably and ask the provider whether   *)
(* there is enough to run a backfill.  The operator's command backfills    *)
(* the same rooms, oldest first, from a list it read once.  A backfill     *)
(* itself is BackfillJob's subject: here it holds the session's lease and  *)
(* ends with what the provider had.                                        *)
(***************************************************************************)
EXTENDS Naturals, Sequences, FiniteSets, SequencesExt

CONSTANTS
    Hosts,        \* processes that run passes
    Operator,     \* the operator's command
    Rooms,        \* completed rooms: 1 is the newest session
    Limit,        \* rooms taken by a pass
    MaxTrouble,   \* bound on crashes and lost connections
    MaxCommands,  \* bound on the operator's commands
    Empty         \* rooms for which the provider never publishes anything

LimitAssumption == Limit \in Nat \ {0}

None == "none"
Workers == Hosts \cup {Operator}

VARIABLES
    ended,     \* rooms whose session is over, past the provider's grace
    expired,   \* rooms older than the lookback
    ing,       \* room -> its ingestion status
    marks,     \* rooms by reconciliation_attempted_at, oldest mark first
    offered,   \* room -> what the provider has: none, session, core, full
    lease,     \* the host whose connection holds the reconciliation lock
    busy,      \* room -> the worker that holds the session's backfill lock
    pc, batch, \* worker -> its step and the rooms it has left
    overtaken, \* how often r was attempted since s was, or became a candidate
    trouble, dropped, commands

vars == <<ended, expired, ing, marks, offered, lease, busy, pc, batch, overtaken, trouble, dropped, commands>>
world == <<ended, expired, offered>>

Init ==
    /\ ended = {} /\ expired = {}
    /\ ing = [r \in Rooms |-> "pending"]
    /\ marks = <<>>
    /\ offered = [r \in Rooms |-> "none"]
    /\ lease = None
    /\ busy = [r \in Rooms |-> None]
    /\ pc = [w \in Workers |-> "idle"]
    /\ batch = [w \in Workers |-> <<>>]
    /\ overtaken = [s \in Rooms |-> [r \in Rooms |-> 0]]
    /\ trouble = 0 /\ dropped = 0 /\ commands = 0

Goto(w, step) == pc' = [pc EXCEPT ![w] = step]
Candidates == {r \in ended \ expired : ing[r] # "ready"}

-----------------------------------------------------------------------------
(* A pass *)

\* Never attempted, newest first; then the least recently attempted
Ordered ==
    LET tried == ToSet(marks)
    IN  SetToSortSeq(Candidates \ tried, <) \o SelectSeq(marks, LAMBDA r : r \in Candidates)

Enter(h) ==
    /\ pc[h] = "idle"
    /\ lease = None
    /\ lease' = h
    /\ Goto(h, "list")
    /\ UNCHANGED <<world, ing, marks, busy, batch, overtaken, trouble, dropped, commands>>

\* After the catalogue refresh, whether that fails or not
List(h) ==
    /\ pc[h] = "list"
    /\ batch' = [batch EXCEPT ![h] = SubSeq(Ordered, 1, IF Len(Ordered) < Limit THEN Len(Ordered) ELSE Limit)]
    /\ Goto(h, "mark")
    /\ UNCHANGED <<world, ing, marks, lease, busy, overtaken, trouble, dropped, commands>>

\* Before any fallible provider work
Marked(r) == Append(Remove(marks, r), r)

Mark(h) ==
    /\ pc[h] = "mark"
    /\ batch[h] # <<>>
    /\ LET r == Head(batch[h]) IN
        /\ marks' = Marked(r)
        /\ overtaken' = [s \in Rooms |->
              IF s = r THEN [t \in Rooms |-> 0]
              ELSE IF s \in Candidates /\ overtaken[s][r] < 3
              THEN [overtaken[s] EXCEPT ![r] = @ + 1] ELSE overtaken[s]]
    /\ Goto(h, "inspect")
    /\ UNCHANGED <<world, ing, lease, busy, batch, trouble, dropped, commands>>

\* resolve and inspect_endpoints ask the provider; any request may fail, which
\* counts as nothing published
Seen(r) == {offered[r], "none"}

\* Drivers and some timing are enough to start; a session that is known is bound
Inspect(h) ==
    /\ pc[h] = "inspect"
    /\ \E seen \in Seen(Head(batch[h])) :
        LET r == Head(batch[h]) IN
        /\ ing' = IF seen = "none" THEN ing ELSE [ing EXCEPT ![r] = "matching"]
        /\ IF seen \in {"core", "full"}
           THEN Goto(h, "backfill") /\ UNCHANGED batch
           ELSE Goto(h, "mark") /\ batch' = [batch EXCEPT ![h] = Tail(@)]
    /\ UNCHANGED <<world, marks, lease, busy, overtaken, trouble, dropped, commands>>

Leave(h) ==
    /\ pc[h] = "mark"
    /\ batch[h] = <<>>
    /\ lease' = IF lease = h THEN None ELSE lease
    /\ Goto(h, "idle")
    /\ UNCHANGED <<world, ing, marks, busy, batch, overtaken, trouble, dropped, commands>>

-----------------------------------------------------------------------------
(* The backfill of a session and the operator's command *)

\* Mutant: everybody gets the lease
FreeAlways(r) == TRUE

\* backfill_lease
Free(r) == busy[r] = None

\* LOCKED: another worker is at it
Locked(w) ==
    /\ pc[w] = "backfill"
    /\ ~Free(Head(batch[w]))
    /\ Goto(w, "mark")
    /\ batch' = [batch EXCEPT ![w] = Tail(@)]
    /\ UNCHANGED <<world, ing, marks, lease, busy, overtaken, trouble, dropped, commands>>

\* The operator has no session to match before the provider names one
Begin(w) ==
    LET r == Head(batch[w]) IN
    /\ pc[w] = "backfill"
    /\ Free(r)
    /\ IF offered[r] = "none"
       THEN Goto(w, "mark") /\ batch' = [batch EXCEPT ![w] = Tail(@)] /\ UNCHANGED <<busy, ing>>
       ELSE /\ busy' = [busy EXCEPT ![r] = w]
            /\ ing' = [ing EXCEPT ![r] = "matching"]
            /\ Goto(w, "run")
            /\ UNCHANGED batch
    /\ UNCHANGED <<world, marks, lease, overtaken, trouble, dropped, commands>>

\* What finalize makes of it; an endpoint that fails leaves the room partial
Outcome(r) ==
    CASE offered[r] = "full" -> {"ready", "partial"}
      [] offered[r] = "core" -> {"partial"}
      [] OTHER -> {"unavailable"}

EndRun(w) ==
    LET r == Head(batch[w]) IN
    /\ pc[w] = "run"
    /\ \E s \in Outcome(r) : ing' = [ing EXCEPT ![r] = s]
    /\ busy' = [busy EXCEPT ![r] = IF @ = w THEN None ELSE @]
    /\ batch' = [batch EXCEPT ![w] = Tail(@)]
    /\ Goto(w, "mark")
    /\ UNCHANGED <<world, marks, lease, overtaken, trouble, dropped, commands>>

\* list_completed_backfill_candidates: oldest first, whatever their age
Open ==
    /\ pc[Operator] = "idle"
    /\ commands < MaxCommands
    /\ commands' = commands + 1
    /\ batch' = [batch EXCEPT ![Operator] = SetToSortSeq({r \in ended : ing[r] # "ready"}, >)]
    /\ Goto(Operator, "mark")
    /\ UNCHANGED <<world, ing, marks, lease, busy, overtaken, trouble, dropped>>

\* One room after the other, by the list read at the start
Continue ==
    /\ pc[Operator] = "mark"
    /\ Goto(Operator, IF batch[Operator] = <<>> THEN "idle" ELSE "backfill")
    /\ UNCHANGED <<world, ing, marks, lease, busy, batch, overtaken, trouble, dropped, commands>>

-----------------------------------------------------------------------------
(* The world *)

Finish(r) ==
    /\ r \notin ended
    /\ ended' = ended \cup {r}
    /\ UNCHANGED <<expired, offered, ing, marks, lease, busy, pc, batch, overtaken, trouble, dropped, commands>>

\* Past the lookback; a host still at it goes on
Expire(r) ==
    /\ r \in ended \ expired
    /\ expired' = expired \cup {r}
    /\ overtaken' = [overtaken EXCEPT ![r] = [t \in Rooms |-> 0]]
    /\ UNCHANGED <<ended, offered, ing, marks, lease, busy, pc, batch, trouble, dropped, commands>>

Publish(r) ==
    /\ r \in ended \ Empty
    /\ offered[r] # "full"
    /\ offered' = [offered EXCEPT ![r] = CASE @ = "none" -> "session" [] @ = "session" -> "core"
                                           [] OTHER -> "full"]
    /\ UNCHANGED <<ended, expired, ing, marks, lease, busy, pc, batch, overtaken, trouble, dropped, commands>>

Crash(w) ==
    /\ trouble < MaxTrouble
    /\ pc[w] # "idle"
    /\ Goto(w, "idle")
    /\ batch' = [batch EXCEPT ![w] = <<>>]
    /\ lease' = IF lease = w THEN None ELSE lease
    /\ busy' = [r \in Rooms |-> IF busy[r] = w THEN None ELSE busy[r]]
    /\ trouble' = trouble + 1
    /\ UNCHANGED <<world, ing, marks, overtaken, dropped, commands>>

\* The connection with the reconciliation lock dies, its host goes on
DropLease ==
    /\ trouble < MaxTrouble
    /\ lease # None
    /\ lease' = None
    /\ trouble' = trouble + 1
    /\ dropped' = dropped + 1
    /\ UNCHANGED <<world, ing, marks, busy, pc, batch, overtaken, commands>>

Pass(h) == List(h) \/ Mark(h) \/ Leave(h) \/ Locked(h) \/ Begin(h) \/ EndRun(h)
Command == Continue \/ Locked(Operator) \/ Begin(Operator) \/ EndRun(Operator)

Next ==
    \/ \E h \in Hosts : Enter(h) \/ Pass(h) \/ Inspect(h)
    \/ Open \/ Command
    \/ \E r \in Rooms : Finish(r) \/ Expire(r) \/ Publish(r)
    \/ \E w \in Workers : Crash(w)
    \/ DropLease

Spec == Init /\ [][Next]_vars

\* The reconciliation loop of some host runs on; a pass and a command end; what
\* the provider has is seen and stored again and again
FairSpec ==
    /\ Spec
    /\ \A h \in Hosts :
        /\ SF_vars(Enter(h)) /\ WF_vars(Pass(h)) /\ WF_vars(Inspect(h))
        /\ \A r \in Rooms :
            /\ SF_vars(Inspect(h) /\ Head(batch[h]) = r /\ (pc'[h] = "backfill" \/ offered[r] # "full"))
            /\ SF_vars(EndRun(h) /\ Head(batch[h]) = r /\ (ing'[r] = "ready" \/ offered[r] # "full"))
    /\ WF_vars(Command)

-----------------------------------------------------------------------------
TypeOK ==
    /\ ended \subseteq Rooms /\ expired \subseteq ended
    /\ ing \in [Rooms -> {"pending", "matching", "partial", "unavailable", "ready"}]
    /\ IsInjective(marks) /\ ToSet(marks) \subseteq Rooms
    /\ lease \in Hosts \cup {None} /\ busy \in [Rooms -> Workers \cup {None}]
    /\ pc \in [Workers -> {"idle", "list", "mark", "inspect", "backfill", "run"}]
    /\ \A w \in Workers : ToSet(batch[w]) \subseteq ended

\* While a room waits for its turn no other room has two, except that two hosts
\* may serve the same room when one of them lost its lease.
OvertakenOnce == \A s, r \in Rooms : overtaken[s][r] <= 1 + dropped

\* A backfill is alone on its session, whoever started it: a host or the
\* operator's command.
AloneOnSession ==
    \A v, w \in Workers :
        v # w /\ pc[v] = "run" /\ pc[w] = "run" => Head(batch[v]) # Head(batch[w])

=============================================================================
