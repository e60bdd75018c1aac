------------------------------ MODULE MCLeases ------------------------------
(****************************************************************************)
(* Who may do what for TLC: the locks of the writers, the duties behind    *)
(* the singleton lease, the status that is reported of the providers, the  *)
(* backfill jobs and the reconciliation that starts them, and the loading  *)
(* of location series. They share no state here and are checked side by    *)
(* side: in a behaviour only the part named by part moves.                 *)
(****************************************************************************)
EXTENDS WriterLocks, Integers, Sequences, TLC

CONSTANTS
  Parts,     \* the parts that move in this run
  Ingestors, Combined, MaxFaults, MaxBroken,  \* of WorkerDuties
  Backfillers, Forced, Order, MaxTrouble,     \* of BackfillJob
  Unset      \* no time and no report, of ProviderStatus

VARIABLES
  part,        \* the part that moves: it never changes
  \* WorkerDuties
  holder, owned, workerAt, closing, retry, running, faults, broken,
  \* ProviderStatus
  now, worker, diedAt, mqtt, pass, report, answer,
  \* BackfillJob
  job, jobLease, jobPc, jobAt, known, got, partial, run, beat, jobStored, room, jobTrouble,
  \* Reconciliation
  ended, expired, ing, marks, offered, reconLease, busy, reconPc, batch, overtaken,
  reconTrouble, dropped, commands,
  \* LocationSeries
  fixes, locStored, locPc, pending, failed, attempt, inserted, capped, clean, whole, loaded,
  crashes, runs, lives, failures

\* A rolling deployment of combined processes beside an ingestor; the
\* connection of a lease may die.
Duty == INSTANCE WorkerDuties WITH at <- workerAt

\* Two combined processes whose queries fail, and the property that needs
\* fairness.
Handover == INSTANCE WorkerDuties WITH
  Ingestors <- {}, Combined <- {"c1", "c2"}, MaxFaults <- 2, MaxBroken <- 0, at <- workerAt

\* One worker and one API process, for twice the limit and more.
Polling == INSTANCE ProviderStatus WITH
  Limit <- 2, MqttOn <- FALSE, MaxTime <- 6, None <- Unset

\* The same with the status of MQTT.
Mqtt == INSTANCE ProviderStatus WITH
  Limit <- 2, MqttOn <- TRUE, MaxTime <- 3, None <- Unset

\* The reconciler and the operator backfill one session.
SessionThenLaps == <<"sessions", "laps">>

Job == INSTANCE BackfillJob WITH
  Workers <- Backfillers, lease <- jobLease, pc <- jobPc, at <- jobAt, stored <- jobStored,
  trouble <- jobTrouble

\* The reconciler alone, for the property that needs fairness.
Fetched == INSTANCE BackfillJob WITH
  Workers <- {"reconciler"}, Forced <- {"reconciler"},
  Order <- <<"sessions", "drivers", "laps">>, MaxTrouble <- 2, lease <- jobLease, pc <- jobPc,
  at <- jobAt, stored <- jobStored, trouble <- jobTrouble

\* Three sessions that two hosts reconcile, two at a time.
Reconcile == INSTANCE Reconciliation WITH
  Hosts <- {"api", "ingestor"}, Operator <- "cli", Rooms <- {1, 2, 3}, Limit <- 2,
  MaxTrouble <- 0, MaxCommands <- 0, Empty <- {1, 2}, lease <- reconLease, pc <- reconPc,
  trouble <- reconTrouble

\* Two sessions that the operator reconciles too.
Commanded == INSTANCE Reconciliation WITH
  Hosts <- {"api", "ingestor"}, Operator <- "cli", Rooms <- {1, 2}, Limit <- 1, MaxTrouble <- 1,
  MaxCommands <- 1, Empty <- {1}, lease <- reconLease, pc <- reconPc, trouble <- reconTrouble

\* Two jobs load one series; one of them may crash.
Locations == INSTANCE LocationSeries WITH
  Jobs <- {"cli", "cron"}, Start <- 1, Until <- 6, Step <- 3, Interval <- 2, Retries <- 1,
  MaxStored <- 100, MaxCrashes <- 1, MaxRuns <- 2, MaxLive <- 0, MaxFailures <- 1,
  stored <- locStored, pc <- locPc

\* One job up to the ceiling of stored rows, beside live samples.
Ceiling == INSTANCE LocationSeries WITH
  Jobs <- {"cli"}, Start <- 0, Until <- 7, Step <- 3, Interval <- 3, Retries <- 1,
  MaxStored <- 3, MaxCrashes <- 0, MaxRuns <- 2, MaxLive <- 1, MaxFailures <- 1,
  stored <- locStored, pc <- locPc

ASSUME PartsAssumption ==
  /\ Duty!WorkerAssumption
  /\ Job!JobAssumption
  /\ Polling!StatusAssumption
  /\ Reconcile!LimitAssumption
  /\ Locations!StepAssumption

-----------------------------------------------------------------------------

workerVars ==
  <<holder, owned, workerAt, closing, retry, running, faults, broken>>
statusVars ==
  <<now, worker, diedAt, mqtt, pass, report, answer>>
jobVars ==
  <<job, jobLease, jobPc, jobAt, known, got, partial, run, beat, jobStored, room, jobTrouble>>
reconVars ==
  <<ended, expired, ing, marks, offered, reconLease, busy, reconPc, batch, overtaken,
    reconTrouble, dropped, commands>>
locVars ==
  <<fixes, locStored, locPc, pending, failed, attempt, inserted, capped, clean, whole, loaded,
    crashes, runs, lives, failures>>

partsVars ==
  <<part, vars, workerVars, statusVars, jobVars, reconVars, locVars>>

\* What a step of part p leaves alone: every other part.
Only(p) ==
  /\ part = p
  /\ UNCHANGED part
  /\ IF p = "locks" THEN TRUE ELSE UNCHANGED vars
  /\ IF p \in {"duties", "handover"} THEN TRUE ELSE UNCHANGED workerVars
  /\ IF p \in {"status", "mqtt"} THEN TRUE ELSE UNCHANGED statusVars
  /\ IF p \in {"backfill", "fetched"} THEN TRUE ELSE UNCHANGED jobVars
  /\ IF p \in {"reconcile", "command"} THEN TRUE ELSE UNCHANGED reconVars
  /\ IF p \in {"locations", "ceiling"} THEN TRUE ELSE UNCHANGED locVars

PartsInit ==
  /\ part \in Parts
  /\ Init
  /\ IF part = "handover" THEN Handover!Init ELSE Duty!Init
  /\ IF part = "mqtt" THEN Mqtt!Init ELSE Polling!Init
  /\ IF part = "fetched" THEN Fetched!Init ELSE Job!Init
  /\ IF part = "command" THEN Commanded!Init ELSE Reconcile!Init
  /\ IF part = "ceiling" THEN Ceiling!Init ELSE Locations!Init
  /\ part = "locations" \/ part = "ceiling" \/ fixes = {}

\* One part takes a step of its own; a part that may come to rest stays there.
PartsNext ==
  \/ Only("locks") /\ Next
  \/ Only("duties") /\ Duty!Next
  \/ Only("handover") /\ Handover!Next
  \/ Only("status") /\ Polling!Next
  \/ Only("mqtt") /\ Mqtt!Next
  \/ Only("backfill") /\ Job!Next
  \/ Only("fetched") /\ Fetched!Next
  \/ Only("reconcile") /\ Reconcile!Next
  \/ Only("command") /\ Commanded!Next
  \/ Only("locations") /\ Locations!Next
  \/ Only("ceiling") /\ Ceiling!Next
  \/ UNCHANGED partsVars

PartsSpec == PartsInit /\ [][PartsNext]_partsVars

\* The fairness of each part, taken together: only one part moves in a behaviour.
PartsFairSpec ==
  /\ PartsSpec
  /\ WF_partsVars(\/ Only("handover") /\ Handover!Boot("c1")
                  \/ Only("fetched") /\ Fetched!Work("reconciler"))
  /\ WF_partsVars(\/ Only("handover") /\ Handover!Retry("c1")
                  \/ Only("fetched") /\ Fetched!Notice("reconciler"))
  /\ WF_partsVars(Only("handover") /\ Handover!Close("c1"))
  /\ WF_partsVars(Only("handover") /\ Handover!Boot("c2"))
  /\ WF_partsVars(Only("handover") /\ Handover!Retry("c2"))
  /\ WF_partsVars(Only("handover") /\ Handover!Close("c2"))
  /\ SF_partsVars(Only("fetched") /\ jobAt["reconciler"] = 1 /\ Fetched!Fetch("reconciler", TRUE))
  /\ SF_partsVars(Only("fetched") /\ jobAt["reconciler"] = 2 /\ Fetched!Fetch("reconciler", TRUE))
  /\ SF_partsVars(Only("fetched") /\ jobAt["reconciler"] = 3 /\ Fetched!Fetch("reconciler", TRUE))
  /\ SF_partsVars(Only("fetched") /\ Fetched!Acquire("reconciler"))

-----------------------------------------------------------------------------

\* Every part holds values of its types.
PartsTypeOK ==
  /\ TypeOK
  /\ part = "duties" => Duty!TypeOK
  /\ part = "handover" => Handover!TypeOK
  /\ part = "status" => Polling!TypeOK
  /\ part = "mqtt" => Mqtt!TypeOK
  /\ part = "backfill" => Job!TypeOK
  /\ part = "fetched" => Fetched!TypeOK
  /\ part = "reconcile" => Reconcile!TypeOK
  /\ part = "command" => Commanded!TypeOK
  /\ part = "locations" => Locations!TypeOK
  /\ part = "ceiling" => Ceiling!TypeOK

\* WorkerDuties: whoever runs a duty holds the lock, until the connection of
\* a lease dies; a process that serves and no longer tries for the lease runs
\* every duty; a process that has ended left no task, no client and no lease
\* behind.
DutiesSafe == part = "duties" =>
  /\ Duty!TypeOK
  /\ Duty!DutyHasLease
  /\ Duty!UpIsWhole
  /\ Duty!ClosedIsQuiet

\* BackfillJob: the rows of every endpoint that is checkpointed are stored; a
\* worker checkpoints what its run says completed, and fails only what it
\* does not; what is called completed or ready has every endpoint.
BackfillsAgree == part = "backfill" =>
  /\ Job!TypeOK
  /\ Job!CheckpointsBacked
  /\ Job!RunsAgree
  /\ Job!WholeIsWhole

\* Reconciliation: while a room waits for its turn no other room has two; a
\* backfill is alone on its session, whoever started it.
TurnsAreFair ==
  /\ part = "reconcile" => Reconcile!OvertakenOnce
  /\ part = "command" => Commanded!OvertakenOnce
  /\ part = "command" => Commanded!AloneOnSession

\* LocationSeries: after a run that stored every window no fix is an interval
\* away from the one before.
SeriesGapless ==
  /\ part = "locations" => Locations!Gapless
  /\ part = "ceiling" => Ceiling!Gapless

\* WorkerDuties: the same as DutiesSafe where queries fail.
HandoverSafe == part = "handover" =>
  Handover!DutyHasLease /\ Handover!UpIsWhole /\ Handover!ClosedIsQuiet

\* Failing queries break no duty, Reconciliation shares its turns fairly and
\* LocationSeries leaves no gap.  No step loses what is stored.  BackfillJob: no
\* checkpoint is lost.  LocationSeries: running it again adds nothing.
\* ProviderStatus: once the worker is gone for longer than the limit, no answer
\* calls it healthy.
LeaseSteps ==
  /\ [](PartsTypeOK /\ HandoverSafe /\ TurnsAreFair /\ SeriesGapless)
  /\ Job!CheckpointsKept
  /\ Locations!RerunAddsNothing
  /\ [][part = "status" => Polling!AnswersInTime]_statusVars

\* WorkerDuties: a combined process does not wait for ever for a lease that
\* is free.  BackfillJob: every endpoint is fetched in the end.
LeasesProgress ==
  /\ part = "handover" => Handover!RetryPicksUp
  /\ part = "fetched" => Fetched!AllFetched

=============================================================================
