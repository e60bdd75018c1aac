--------------------------- MODULE LocationSeries ---------------------------
(***************************************************************************)
(* The stored track positions of one car in one session: the windowed      *)
(* fetch of LocationIngestionService with its retry sweeps, the two        *)
(* commands that run it, the live recorder that writes beside it, and the  *)
(* idempotent insert they share.  Time is in half seconds, because the     *)
(* provider's filters take whole seconds only.  Thinning works per car, so *)
(* one car is enough.                                                      *)
(***************************************************************************)
EXTENDS Integers, Sequences, FiniteSets, SequencesExt

CONSTANTS
    Jobs,          \* processes that run an ingestion of the session
    Start, Until,    \* the session's window
    Step,          \* fetch_window_seconds
    Interval,      \* sample_interval_ms
    Retries,       \* window_retry_passes
    MaxStored,     \* max_samples_per_session
    MaxCrashes, MaxRuns, MaxLive, MaxFailures   \* bounds

StepAssumption == Step \in Nat \ {0}

VARIABLES
    fixes,     \* when the provider has a fix
    stored,    \* session_location_samples
    pc,        \* job -> idle, sweep
    pending,   \* job -> windows of this sweep that are left
    failed,    \* job -> windows for the next sweep
    attempt,   \* job -> sweeps done
    inserted,  \* job -> rows it inserted
    capped,    \* job -> whether the ceiling ended its work early
    clean,     \* jobs whose run began after the last reset
    whole,     \* whether some run since the last reset stored every window
    loaded,    \* whether a command has called the room already loaded
    crashes, runs, lives, failures

vars == <<fixes, stored, pc, pending, failed, attempt, inserted, capped, clean, whole, loaded, crashes,
          runs, lives, failures>>
task == <<pending, failed, attempt, inserted, capped>>
bounds == <<crashes, runs, lives, failures>>

Init ==
    /\ fixes \in SUBSET (Start .. Until)
    /\ stored = {}
    /\ pc = [j \in Jobs |-> "idle"]
    /\ pending = [j \in Jobs |-> <<>>] /\ failed = [j \in Jobs |-> <<>>]
    /\ attempt = [j \in Jobs |-> 0] /\ inserted = [j \in Jobs |-> 0]
    /\ capped = [j \in Jobs |-> FALSE]
    /\ clean = {} /\ whole = FALSE /\ loaded = FALSE
    /\ crashes = 0 /\ runs = 0 /\ lives = 0 /\ failures = 0

-----------------------------------------------------------------------------
(* Windows, filters and thinning *)

Second == 2
Floor(t) == t - (t % Second)
Least(a, b) == IF a < b THEN a ELSE b

\* Every run starts at the session's start
Origin == Start

Windows(from) ==
    [i \in 1 .. (Until - from + Step - 1) \div Step |->
        <<from + (i - 1) * Step, Least(from + i * Step, Until)>>]

\* date> and date<, one second early, in whole seconds
Answered(w) == {t \in fixes : t > Floor(w[1] - Second) /\ t < Floor(w[2])}

\* A fix is kept when the last one kept is an interval away
Thin(times) ==
    FoldLeft(LAMBDA kept, t : IF \E u \in kept : t - u < Interval THEN kept ELSE kept \cup {t},
             {}, SetToSortSeq(times, <))

-----------------------------------------------------------------------------
(* A run *)

Launch(j) ==
    /\ pc' = [pc EXCEPT ![j] = "sweep"]
    /\ pending' = [pending EXCEPT ![j] = Windows(Origin)]
    /\ failed' = [failed EXCEPT ![j] = <<>>]
    /\ attempt' = [attempt EXCEPT ![j] = 0]
    /\ inserted' = [inserted EXCEPT ![j] = 0]
    /\ capped' = [capped EXCEPT ![j] = FALSE]

\* backfill_locations for one session, with or without --reset
Single(j, reset) ==
    /\ runs < MaxRuns /\ pc[j] = "idle"
    /\ runs' = runs + 1
    /\ stored' = IF reset THEN {} ELSE stored
    /\ whole' = (whole /\ ~reset)
    /\ clean' = (IF reset THEN {} ELSE clean) \cup {j}
    /\ Launch(j)
    /\ UNCHANGED <<fixes, loaded, crashes, lives, failures>>

\* --all-rooms skips a session that has samples
AllRooms(j) ==
    /\ runs < MaxRuns /\ pc[j] = "idle"
    /\ runs' = runs + 1
    /\ IF stored # {}
       THEN loaded' = TRUE /\ UNCHANGED <<pc, task, clean>>
       ELSE Launch(j) /\ clean' = clean \cup {j} /\ UNCHANGED loaded
    /\ UNCHANGED <<fixes, stored, whole, crashes, lives, failures>>

\* The unique constraint on session, car and time drops what is stored
Inserted(old, new) == old \cup new

\* One window: the answer changes nothing before its rows are inserted
Window(j) ==
    /\ pc[j] = "sweep"
    /\ pending[j] # <<>>
    /\ inserted[j] < MaxStored
    /\ LET new == Thin(Answered(Head(pending[j]))) IN
        /\ stored' = Inserted(stored, new)
        /\ inserted' = [inserted EXCEPT ![j] = @ + Cardinality(new \ stored)]
    /\ pending' = [pending EXCEPT ![j] = Tail(@)]
    /\ UNCHANGED <<fixes, pc, failed, attempt, capped, clean, whole, loaded, bounds>>

WindowFails(j) ==
    /\ failures < MaxFailures
    /\ failures' = failures + 1
    /\ pc[j] = "sweep"
    /\ pending[j] # <<>>
    /\ inserted[j] < MaxStored
    /\ failed' = [failed EXCEPT ![j] = Append(@, Head(pending[j]))]
    /\ pending' = [pending EXCEPT ![j] = Tail(@)]
    /\ UNCHANGED <<fixes, stored, pc, attempt, inserted, capped, clean, whole, loaded,
                   crashes, runs, lives>>

\* The windows behind the ceiling are forgotten
Ceiling(j) ==
    /\ pc[j] = "sweep"
    /\ pending[j] # <<>>
    /\ inserted[j] >= MaxStored
    /\ capped' = [capped EXCEPT ![j] = TRUE]
    /\ pending' = [pending EXCEPT ![j] = <<>>]
    /\ UNCHANGED <<fixes, stored, pc, failed, attempt, inserted, clean, whole, loaded, bounds>>

Again(j) == attempt[j] < Retries

Resweep(j) ==
    /\ pc[j] = "sweep"
    /\ pending[j] = <<>> /\ failed[j] # <<>>
    /\ Again(j)
    /\ pending' = [pending EXCEPT ![j] = failed[j]]
    /\ failed' = [failed EXCEPT ![j] = <<>>]
    /\ attempt' = [attempt EXCEPT ![j] = @ + 1]
    /\ UNCHANGED <<fixes, stored, pc, inserted, capped, clean, whole, loaded, bounds>>

\* The summary, or LocationUnavailableError; the outline is built from what is
\* stored
Finish(j) ==
    /\ pc[j] = "sweep"
    /\ pending[j] = <<>>
    /\ failed[j] = <<>> \/ ~Again(j)
    /\ pc' = [pc EXCEPT ![j] = "idle"]
    /\ whole' = (whole \/ (j \in clean /\ failed[j] = <<>> /\ ~capped[j]))
    /\ UNCHANGED <<fixes, stored, task, clean, loaded, bounds>>

Crash(j) ==
    /\ crashes < MaxCrashes
    /\ pc[j] # "idle"
    /\ pc' = [pc EXCEPT ![j] = "idle"]
    /\ crashes' = crashes + 1
    /\ UNCHANGED <<fixes, stored, task, clean, whole, loaded, runs, lives, failures>>

\* The live recorder and the live poll store fixes as they come
Live(t) ==
    /\ lives < MaxLive
    /\ t \notin stored
    /\ stored' = Inserted(stored, {t})
    /\ lives' = lives + 1
    /\ UNCHANGED <<fixes, pc, task, clean, whole, loaded, crashes, runs, failures>>

Next ==
    \/ \E j \in Jobs :
        \/ \E reset \in BOOLEAN : Single(j, reset)
        \/ AllRooms(j) \/ Window(j) \/ WindowFails(j) \/ Ceiling(j) \/ Resweep(j) \/ Finish(j)
        \/ Crash(j)
    \/ \E t \in fixes : Live(t)

Spec == Init /\ [][Next]_vars

-----------------------------------------------------------------------------
TypeOK ==
    /\ stored \subseteq fixes
    /\ pc \in [Jobs -> {"idle", "sweep"}]
    /\ attempt \in [Jobs -> 0 .. Retries]
    /\ \A j \in Jobs : ToSet(pending[j] \o failed[j]) \subseteq ToSet(Windows(Start))

Covered ==
    \A t \in fixes : t < Floor(Until) => \E u \in stored : u <= t /\ t - u < Interval

\* After a run that stored every window, no fix of the session is an interval
\* away from the one stored before it: the provider's strict filters in whole
\* seconds leave no gap between two windows, whatever failed in the meantime.
Gapless == whole => Covered

\* Running it again adds nothing, however often and after whatever crash.
RerunAddsNothing == [][whole /\ whole' /\ lives' = lives => stored' = stored]_vars

\* A room the command calls loaded has the whole series: an interrupted run
\* is resumed.
LoadedIsWhole == loaded => Covered

\* Rows fetched twice are dropped, so the series has one fix per interval.
OnePerInterval == \A t, u \in stored : t < u => u - t >= Interval
=============================================================================
