-------------------------- MODULE CaptureAdmission --------------------------
(***************************************************************************)
(* When the live capture of one session stops.  The MQTT feed asks         *)
(* admit_mqtt for every message; three coroutines of one event loop write  *)
(* the flags it answers from and suspend in the middle: the runner's pass, *)
(* the consumer of committed events, and the publication of a recovered    *)
(* state.  Each asks the database whether the finish (or a cancellation)   *)
(* has been observed and stores the answer later; the answer is no while a *)
(* source is pending, whatever it was before.                              *)
(***************************************************************************)
EXTENDS Naturals, FiniteSets

CONSTANTS MaxMeta, MaxTrouble, MaxStaged   \* bounds: provider changes; failed polls and restarts; sources

VARIABLES
    observed,   \* committed observations: subset of {"finished", "cancelled"}
    pending,    \* a source of the session is pending in the projection
    expired,    \* the capture window is over
    metadata,   \* the provider's row of the session
    room,       \* status the capture wrote
    p,          \* LiveSessionProgress
    pc, ans,    \* where each coroutine is, and the answer it holds
    meta, trouble, staged

vars == <<observed, pending, expired, metadata, room, p, pc, ans, meta, trouble, staged>>

Tasks == {"runner", "consumer", "recovery"}
Reasons == {"none", "terminal", "cancelled", "expired_unconfirmed"}

Fresh == [enrolled |-> FALSE, terminal |-> FALSE, cancelled |-> FALSE, ready |-> FALSE,
          complete |-> FALSE, reason |-> "none"]

Init ==
    /\ observed = {} /\ pending = FALSE /\ expired = FALSE
    /\ metadata = "listed"
    /\ room = "live"
    /\ p = Fresh
    /\ pc = [t \in Tasks |-> "idle"]
    /\ ans = [t \in Tasks |-> "none"]
    /\ meta = 0 /\ trouble = 0 /\ staged = 0

-----------------------------------------------------------------------------
(* The answers *)

Observed(o) == o \in observed /\ ~pending

\* capture_policy, for a session that has started
Policy(terminal, cancelled) ==
    IF terminal THEN "terminal"
    ELSE IF cancelled THEN "cancelled"
    ELSE IF expired THEN "expired_unconfirmed"
    ELSE "watching"

\* admit_mqtt answers "accepted"
Accepts ==
    /\ p.enrolled /\ p.ready
    /\ Policy(p.terminal, p.cancelled) = "watching"
    /\ ~p.complete

-----------------------------------------------------------------------------
(* Questions to the database: read now, resumed later *)

About(at) == IF at \in {"cancellations", "enrol_cancelled", "recovered", "recovered_end"} THEN "cancelled" ELSE "finished"

Read(t) ==
    /\ pc[t] # "idle" /\ pc[t] # "decide"
    /\ ans[t] = "none"
    /\ ans' = [ans EXCEPT ![t] = IF Observed(About(pc[t])) THEN "yes" ELSE "no"]
    /\ UNCHANGED <<observed, pending, expired, metadata, room, p, pc, meta, trouble, staged>>

\* A coroutine resumes from at with the answer and goes to next
Resume(t, at, next) ==
    /\ pc[t] = at /\ ans[t] # "none"
    /\ pc' = [pc EXCEPT ![t] = next]
    /\ ans' = [ans EXCEPT ![t] = "none"]

Yes(t) == ans[t] = "yes"

-----------------------------------------------------------------------------
(* The consumer and the recovered state *)

\* A committed source observation is announced to consume
Commit(o) ==
    /\ o \notin observed /\ ~pending
    /\ pc["consumer"] = "idle"
    /\ observed' = observed \cup {o}
    /\ p' = IF ~p.enrolled THEN p
            ELSE IF o = "cancelled" THEN [p EXCEPT !.cancelled = TRUE]
            ELSE [p EXCEPT !.ready = FALSE]
    /\ pc' = IF p.enrolled /\ o = "finished" THEN [pc EXCEPT !["consumer"] = "consume"] ELSE pc
    /\ UNCHANGED <<pending, expired, metadata, room, ans, meta, trouble, staged>>

Stage ==
    /\ ~pending /\ staged < MaxStaged
    /\ pending' = TRUE /\ staged' = staged + 1
    /\ UNCHANGED <<observed, expired, metadata, room, p, pc, ans, meta, trouble>>

\* The pending source is projected, and is no observation
Project ==
    /\ pending
    /\ pending' = FALSE
    /\ UNCHANGED <<observed, expired, metadata, room, p, pc, ans, meta, trouble, staged>>

Consumed ==
    /\ Resume("consumer", "consume", "idle")
    /\ p' = [p EXCEPT !.terminal = Yes("consumer"), !.ready = TRUE]
    /\ UNCHANGED <<observed, pending, expired, metadata, room, meta, trouble, staged>>

\* publish_recovered_state
Recover ==
    /\ pc["recovery"] = "idle" /\ p.enrolled
    /\ p' = [p EXCEPT !.ready = FALSE]
    /\ pc' = [pc EXCEPT !["recovery"] = IF "finished" \in observed THEN "recovered_end" ELSE "recovered"]
    /\ UNCHANGED <<observed, pending, expired, metadata, room, ans, meta, trouble, staged>>

\* A finished state asks once more
Recovered ==
    /\ \/ /\ Resume("recovery", "recovered", "idle")
          /\ p' = [p EXCEPT !.cancelled = @ \/ Yes("recovery"), !.ready = TRUE]
       \/ /\ Resume("recovery", "recovered_end", "recovered_finished")
          /\ p' = [p EXCEPT !.cancelled = @ \/ Yes("recovery"), !.ready = FALSE]
       \/ /\ Resume("recovery", "recovered_finished", "idle")
          /\ p' = [p EXCEPT !.terminal = Yes("recovery"), !.ready = TRUE]
    /\ UNCHANGED <<observed, pending, expired, metadata, room, meta, trouble, staged>>

-----------------------------------------------------------------------------
(* The runner's pass *)

Begin ==
    /\ pc["runner"] = "idle"
    /\ pc' = [pc EXCEPT !["runner"] = "cancellations"]
    /\ UNCHANGED <<observed, pending, expired, metadata, room, p, ans, meta, trouble, staged>>

\* A room of the window that is not cancelled is enrolled; one of the pass that
\* is cancelled or over the window is completed
Select ==
    LET cancelled == Yes("runner") \/ metadata = "cancelled"
        active == Policy(FALSE, cancelled) = "watching"
        reason == Policy(FALSE, cancelled \/ p.cancelled)
        stop == p.enrolled /\ ~p.complete /\ reason # "watching"
    IN  /\ Resume("runner", "cancellations",
                  IF ~p.enrolled THEN IF active THEN "enrol_cancelled" ELSE "idle"
                  ELSE IF p.complete \/ stop THEN "idle" ELSE "decide")
        /\ p' = IF stop THEN [p EXCEPT !.complete = TRUE, !.reason = reason, !.ready = TRUE,
                                       !.cancelled = @ \/ reason = "cancelled"]
                ELSE IF ~p.enrolled /\ active THEN [p EXCEPT !.enrolled = TRUE]
                ELSE p
        /\ UNCHANGED <<observed, pending, expired, metadata, room, meta, trouble, staged>>

EnrolCancelled ==
    /\ Resume("runner", "enrol_cancelled", "enrol_terminal")
    /\ p' = [p EXCEPT !.cancelled = Yes("runner")]
    /\ UNCHANGED <<observed, pending, expired, metadata, room, meta, trouble, staged>>

\* Already over: finalised at once
EnrolTerminal ==
    /\ Resume("runner", "enrol_terminal", IF Yes("runner") THEN "idle" ELSE "decide")
    /\ IF Yes("runner")
       THEN /\ p' = [p EXCEPT !.terminal = TRUE, !.complete = TRUE, !.reason = "terminal"]
            /\ room' = "completed"
       ELSE UNCHANGED <<p, room>>
    /\ UNCHANGED <<observed, pending, expired, metadata, meta, trouble, staged>>

\* Without the provider's row there is no poll, and no message is admitted
Decide ==
    LET reason == Policy(FALSE, p.cancelled \/ metadata = "cancelled")
        stop == reason # "watching"
    IN  /\ pc["runner"] = "decide"
        /\ pc' = [pc EXCEPT !["runner"] =
                    IF stop \/ metadata = "absent" THEN "idle" ELSE IF p.ready THEN "poll" ELSE "admit"]
        /\ p' = IF stop THEN [p EXCEPT !.complete = TRUE, !.reason = reason, !.ready = TRUE,
                                       !.cancelled = @ \/ reason = "cancelled"]
                ELSE IF metadata = "absent" THEN [p EXCEPT !.ready = FALSE]
                ELSE p
        /\ UNCHANGED <<observed, pending, expired, metadata, room, ans, meta, trouble, staged>>

Admit ==
    /\ Resume("runner", "admit", "poll")
    /\ p' = [p EXCEPT !.terminal = Yes("runner"), !.ready = TRUE]
    /\ UNCHANGED <<observed, pending, expired, metadata, room, meta, trouble, staged>>

\* The poll raises, and the pass with it
PollFails ==
    /\ pc["runner"] = "poll" /\ ans["runner"] = "none"
    /\ trouble < MaxTrouble
    /\ trouble' = trouble + 1
    /\ pc' = [pc EXCEPT !["runner"] = "idle"]
    /\ UNCHANGED <<observed, pending, expired, metadata, room, p, ans, meta, staged>>

\* The end of _poll
Poll ==
    /\ Resume("runner", "poll", "idle")
    /\ IF Yes("runner")
       THEN /\ room' = "completed"
            /\ p' = [p EXCEPT !.complete = TRUE, !.reason = "terminal"]
       ELSE UNCHANGED <<p, room>>
    /\ UNCHANGED <<observed, pending, expired, metadata, meta, trouble, staged>>

-----------------------------------------------------------------------------
Provider ==
    /\ meta < MaxMeta
    /\ meta' = meta + 1
    /\ metadata' \in {"absent", "listed", "cancelled"} \ {metadata}
    /\ UNCHANGED <<observed, pending, expired, room, p, pc, ans, trouble, staged>>

Expire ==
    /\ ~expired /\ expired' = TRUE
    /\ UNCHANGED <<observed, pending, metadata, room, p, pc, ans, meta, trouble, staged>>

Restart ==
    /\ trouble < MaxTrouble
    /\ trouble' = trouble + 1
    /\ p' = Fresh
    /\ pc' = [t \in Tasks |-> "idle"]
    /\ ans' = [t \in Tasks |-> "none"]
    /\ UNCHANGED <<observed, pending, expired, metadata, room, meta, staged>>

Runner == Begin \/ Select \/ EnrolCancelled \/ EnrolTerminal \/ Decide \/ Admit \/ Poll

Next ==
    \/ Runner \/ PollFails \/ Provider \/ Expire \/ Restart \/ Stage \/ Project
    \/ Recover \/ Recovered \/ Consumed
    \/ \E t \in Tasks : Read(t)
    \/ \E o \in {"finished", "cancelled"} : Commit(o)

Spec == Init /\ [][Next]_vars

\* The runner runs for as long as the process does, a question is answered, a
\* pending source is projected and the window ends.
FairSpec ==
    /\ Spec
    /\ WF_vars(Runner) /\ WF_vars(Consumed) /\ WF_vars(Recovered)
    /\ WF_vars(Project)
    /\ \A t \in Tasks : WF_vars(Read(t))

-----------------------------------------------------------------------------
TypeOK ==
    /\ observed \subseteq {"finished", "cancelled"}
    /\ p \in [enrolled : BOOLEAN, terminal : BOOLEAN, cancelled : BOOLEAN, ready : BOOLEAN,
              complete : BOOLEAN, reason : Reasons]
    /\ p.complete <=> p.reason # "none"
    /\ room \in {"live", "completed"}

\* The capture calls a session finished only when its finish was committed.
FinishWasObserved ==
    /\ room = "completed" \/ p.reason = "terminal" \/ p.terminal => "finished" \in observed

\* A session whose capture stopped stays stopped, for the reason given, whatever
\* the coroutines that were suspended write afterwards.
StaysStopped ==
    [][p.complete /\ p'.enrolled => p'.complete /\ p'.reason = p.reason /\ ~Accepts']_vars

\* Once the finish or the cancellation is committed the feed is refused for good.
StopsForGood == observed # {} ~> [](~Accepts)
=============================================================================
