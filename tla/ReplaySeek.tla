----------------------------- MODULE ReplaySeek -----------------------------
(***************************************************************************)
(* Where a seek lands in a recorded session and which session clock the    *)
(* readers of the room are shown (services/room_replay.py).  The log has a *)
(* number for every row that was offered to it, and no row where the offer *)
(* was a duplicate.  The clock needs the span of the session's location    *)
(* samples, which is looked up in two queries and, once found, kept.       *)
(*                                                                         *)
(* Bounds: MaxSeq numbers, MaxTime instants, MaxFaults failing queries.    *)
(***************************************************************************)
EXTENDS Integers, Sequences, FiniteSets, FiniteSetsExt

CONSTANTS Rows,      \* what a row may carry: lap, phase and session time
          Goals,     \* what a seek may ask for: [by, value]
          Readers,   \* requests that show the playback with its clock
          None,
          Skips,     \* may the log skip a number?
          Grows,     \* may the session grow after its span was found?
          MaxSeq, MaxTime, MaxFaults

SeekAssumption ==
    /\ {MaxSeq, MaxTime, MaxFaults} \subseteq Nat
    /\ {Skips, Grows} \subseteq BOOLEAN

VARIABLES
    log,      \* normalized rows of the session: [seq, at, row]
    offered,  \* the last number that was given out
    samples,  \* None or the first and the last location sample
    span,     \* _spans[session]: None or [start, end, maximum]
    missed,   \* _span_misses[session] lies in the future
    pc,       \* reader -> idle, spanning
    range,    \* reader -> what time_range returned
    position, \* playback.current_event_sequence
    seeker,   \* None or [goal, target, maximum]: a seek before its rebuild
    sought,   \* the goal the position was sought for, None once played on
    shown,    \* None or the last clock shown: [position, clock, how]
    faults

vars == <<log, offered, samples, span, missed, pc, range, position, seeker,
          sought, shown, faults>>
session == <<log, offered, samples>>
playback == <<position, seeker, sought>>
reading == <<span, missed, pc, range>>

NoRange == [first |-> None, last |-> None]

Init ==
    /\ log = << >> /\ offered = 0 /\ samples = None
    /\ span = None /\ missed = FALSE
    /\ pc = [r \in Readers |-> "idle"] /\ range = [r \in Readers |-> NoRange]
    /\ position = 0 /\ seeker = None /\ sought = None /\ shown = None
    /\ faults = 0

-----------------------------------------------------------------------------
(* The log.                                                                *)
LastOf(s) == s[Len(s)]
MaxSequence == IF log = << >> THEN 0 ELSE LastOf(log).seq

RowAt(n) == {i \in DOMAIN log : log[i].seq = n}
After(n) == {i \in DOMAIN log : log[i].seq > n}

Elapsed(i) == IF log[i].row.time # None THEN log[i].row.time
              ELSE log[i].at - log[1].at

Meets(i, goal) ==
    CASE goal.by = "lap"   -> log[i].row.lap # None /\ log[i].row.lap >= goal.value
      [] goal.by = "phase" -> log[i].row.phase = goal.value
      [] goal.by = "time"  -> Elapsed(i) >= goal.value

Boundary(goal) == {i \in DOMAIN log : Meets(i, goal)}

(* The position before the first row that meets the goal.                  *)
Target(goal) == log[Min(Boundary(goal))].seq - 1

-----------------------------------------------------------------------------
(* The session is recorded: rows, numbers that no row took, and samples.   *)
MayGrow == Grows \/ span = None

Record(t, row) ==
    /\ MayGrow /\ offered < MaxSeq
    /\ offered' = offered + 1
    /\ log' = Append(log, [seq |-> offered + 1, at |-> t, row |-> row])
    /\ UNCHANGED <<samples, reading, playback, shown, faults>>

OfferDuplicate ==
    /\ MayGrow /\ Skips /\ offered < MaxSeq
    /\ offered' = offered + 1
    /\ UNCHANGED <<log, samples, reading, playback, shown, faults>>

Sample(t) ==
    /\ MayGrow
    /\ samples' = IF samples = None THEN [first |-> t, last |-> t]
                  ELSE [first |-> Min({samples.first, t}), last |-> Max({samples.last, t})]
    /\ samples' # samples
    /\ UNCHANGED <<log, offered, reading, playback, shown, faults>>

-----------------------------------------------------------------------------
(* Mutant: the row of the last number instead of the position's.           *)
ClockTargetLast(n, maximum) == maximum

ClockTarget(n, maximum) == Min({n, maximum})

(* with_session_clock, for a span that is known.                           *)
Clock(n, s) ==
    IF n <= 0 THEN s.start
    ELSE LET t == ClockTarget(n, s.maximum)
         IN  IF RowAt(t) = {} THEN s.end ELSE log[CHOOSE i \in RowAt(t) : TRUE].at

Show(n, clock, how) == shown' = [position |-> n, clock |-> clock, how |-> how]

(* A reader with the span at hand shows the clock.                         *)
ReadClock(r) ==
    /\ pc[r] = "idle" /\ span # None
    /\ Show(position, Clock(position, span), "read")
    /\ UNCHANGED <<session, reading, playback, faults>>

(* _session_span: the two queries, with the session growing in between.    *)
AskRange(r) ==
    /\ pc[r] = "idle" /\ span = None /\ ~missed
    /\ pc' = [pc EXCEPT ![r] = "spanning"]
    /\ range' = [range EXCEPT ![r] = IF samples = None THEN NoRange ELSE samples]
    /\ UNCHANGED <<session, span, missed, playback, shown, faults>>

Miss == missed' = TRUE /\ UNCHANGED span

IsSpan(found, maximum) ==
    found.first # None /\ found.last > found.first /\ maximum > 0

AskMaximum(r) ==
    /\ pc[r] = "spanning"
    /\ pc' = [pc EXCEPT ![r] = "idle"]
    /\ range' = [range EXCEPT ![r] = NoRange]
    /\ IF IsSpan(range[r], MaxSequence)
       THEN LET found == [start |-> range[r].first, end |-> range[r].last,
                          maximum |-> MaxSequence]
            IN  /\ span' = found /\ missed' = FALSE
                /\ Show(position, Clock(position, found), "read")
       ELSE Miss /\ UNCHANGED shown
    /\ UNCHANGED <<session, playback, faults>>

SpanFails(r) ==
    /\ pc[r] = "spanning" /\ faults < MaxFaults
    /\ faults' = faults + 1
    /\ pc' = [pc EXCEPT ![r] = "idle"]
    /\ range' = [range EXCEPT ![r] = NoRange]
    /\ Miss
    /\ UNCHANGED <<session, playback, shown>>

BackoffEnds ==
    /\ missed
    /\ missed' = FALSE
    /\ UNCHANGED <<session, span, pc, range, playback, shown, faults>>

-----------------------------------------------------------------------------
(* Playback: a tick plays the next row and shows its own time.             *)
Tick ==
    /\ After(position) # {}
    /\ LET next == log[Min(After(position))]
       IN  /\ position' = next.seq
           /\ IF span = None THEN UNCHANGED shown
              ELSE Show(next.seq, next.at, "tick")
    /\ sought' = None
    /\ UNCHANGED <<session, reading, seeker, faults>>

(* seek_to_lap, seek_to_phase, seek_to_session_time: the target is looked  *)
(* up before the room's mutex is taken.                                    *)
SeekLookup(goal) ==
    /\ seeker = None
    /\ Boundary(goal) # {}
    /\ seeker' = [goal |-> goal, target |-> Target(goal)]
    /\ UNCHANGED <<session, reading, position, sought, shown, faults>>

SeekRebuild ==
    /\ seeker # None
    /\ position' = seeker.target
    /\ sought' = seeker.goal
    /\ seeker' = None
    /\ IF span = None THEN UNCHANGED shown
       ELSE Show(seeker.target, Clock(seeker.target, span), "read")
    /\ UNCHANGED <<session, reading, faults>>

Next ==
    \/ \E t \in 0 .. MaxTime : Sample(t) \/ \E row \in Rows : Record(t, row)
    \/ OfferDuplicate
    \/ \E r \in Readers : ReadClock(r) \/ AskRange(r) \/ AskMaximum(r) \/ SpanFails(r)
    \/ BackoffEnds \/ Tick \/ SeekRebuild
    \/ \E goal \in Goals : SeekLookup(goal)

Spec == Init /\ [][Next]_vars

(* Queries end, backoffs run out, and the room's page is read again: while *)
(* it is open the stream and every control show the playback.              *)
Fairness == /\ WF_vars(BackoffEnds)
            /\ \A r \in Readers : WF_vars(AskRange(r)) /\ WF_vars(AskMaximum(r) \/ SpanFails(r))

LiveSpec == Spec /\ Fairness

-----------------------------------------------------------------------------
(* Types: numbers of the log rise, and a span is of real samples and rows. *)
TypeOK ==
    /\ \A i \in 1 .. Len(log) - 1 : log[i].seq < log[i + 1].seq
    /\ offered \in 0 .. MaxSeq /\ MaxSequence <= offered
    /\ position \in 0 .. offered
    /\ span # None => /\ samples.first <= span.start /\ span.start < span.end
                      /\ span.end <= samples.last
                      /\ span.maximum \in 1 .. MaxSequence

(* A seek lands before its goal and next to it: no row that was rebuilt    *)
(* meets the goal, and the next row that is played does, although the      *)
(* target was looked up before the room was locked and the log grows.      *)
SeekLandsBefore ==
    sought # None =>
        /\ \A i \in DOMAIN log : log[i].seq <= position => ~Meets(i, sought)
        /\ After(position) # {} /\ Meets(Min(After(position)), sought)

(* Where every number has a row, the clock is never that of a row the      *)
(* viewer has not reached, however old the span is (with_session_clock).   *)
ClockNotAhead ==
    (~Skips /\ shown # None) =>
        \/ shown.position = 0 /\ span # None /\ shown.clock = span.start
        \/ \E i \in DOMAIN log : log[i].seq <= shown.position /\ log[i].at = shown.clock

(* A missing span is asked for again: once the session has samples and     *)
(* rows, its clock comes (_session_span: a miss is never cached).          *)
SpanKnown == span # None
ClockComes ==
    (samples # None /\ samples.first < samples.last /\ log # << >>) ~> SpanKnown

(* The clock shown is the time of the most recent row of the position.     *)
ClockIsMostRecent ==
    (shown # None /\ shown.position > 0) =>
        LET played == {i \in DOMAIN log : log[i].seq <= shown.position}
        IN  played # {} => shown.clock = log[Max(played)].at
=============================================================================
