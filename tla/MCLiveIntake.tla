---------------------------- MODULE MCLiveIntake ----------------------------
(****************************************************************************)
(* The live intake for TLC. The five components share no state: the queue  *)
(* between the MQTT thread and the loop, the buffer that puts events in    *)
(* order, the polling worker, the capture runner and the provider client.  *)
(* They are checked side by side: in a behaviour only the part named by    *)
(* part moves.                                                             *)
(****************************************************************************)
EXTENDS LiveDispatch, TLC

CONSTANTS
  Parts,     \* the parts that move in this run
  Rows, Time, Window, MaxBuffered, MaxBatch, MaxFaults,                  \* of IngestBuffer
  Dates, Overlap, Warmup, Degraded, SeenLimit, PollTime, PollTrouble,    \* of LivePoll
  MaxMeta, CaptureTrouble, MaxStaged,                                    \* of CaptureAdmission
  Callers, Keys, Attempts, Interval, Base, LongestDelay, Ttls, Capacity, \* of ProviderClient
  Buffer, Lifetime, ClientTime, LastStart

VARIABLES
  part,        \* the part that moves: it never changes
  \* IngestBuffer
  raw, log, buffer, latest, bufferPc, todo, ready, flushing, faults, stranded, late, early,
  \* LivePoll
  pollNow, published, pollIngested, cursor, seen, pass, feed, since, fetched, pollTrouble,
  \* CaptureAdmission
  observed, pending, expired, metadata, room, captureP, capturePc, ans, meta, captureTrouble,
  staged,
  \* ProviderClient
  clientNow, next, pacing, cache, required, expires, refreshing, call

\* The rows of one session; a row is its time.
Dated == [r \in Rows |-> r]
Buffering == INSTANCE IngestBuffer WITH pc <- bufferPc

\* A feed that comes and goes, and polls that fail.
Polling == INSTANCE LivePoll WITH
  MaxTime <- PollTime, MaxTrouble <- PollTrouble, now <- pollNow, ingested <- pollIngested,
  trouble <- pollTrouble

\* One session, whose provider row changes.
Capture == INSTANCE CaptureAdmission WITH
  MaxTrouble <- CaptureTrouble, p <- captureP, pc <- capturePc, trouble <- captureTrouble

\* The same without staged sources and with a provider row that stays, for the property that needs fairness.
CaptureEnd == INSTANCE CaptureAdmission WITH
  MaxMeta <- 0, MaxTrouble <- CaptureTrouble, MaxStaged <- 0, p <- captureP, pc <- capturePc,
  trouble <- captureTrouble

\* Callers that ask for the same rows.
Client == INSTANCE ProviderClient WITH MaxTime <- ClientTime, now <- clientNow

\* Calls that begin together, with a token and retries.
Retried == INSTANCE ProviderClient WITH
  LastStart <- 0, MaxTime <- ClientTime, now <- clientNow

\* Calls that begin later, each of a single attempt.
Cached == INSTANCE ProviderClient WITH
  Attempts <- 1, MaxTime <- ClientTime, now <- clientNow

ASSUME PartsAssumption ==
  /\ Buffering!TimeAssumption
  /\ Buffering!BoundsAssumption
  /\ Polling!DatesAssumption
  /\ Polling!BoundsAssumption
  /\ Client!CallersAssumption
  /\ Client!BoundsAssumption

-----------------------------------------------------------------------------

bufferVars ==
  <<raw, log, buffer, latest, bufferPc, todo, ready, flushing, faults, stranded, late, early>>
pollVars ==
  <<pollNow, published, pollIngested, cursor, seen, pass, feed, since, fetched, pollTrouble>>
captureVars ==
  <<observed, pending, expired, metadata, room, captureP, capturePc, ans, meta, captureTrouble,
    staged>>
clientVars ==
  <<clientNow, next, pacing, cache, required, expires, refreshing, call>>

partsVars ==
  <<part, vars, bufferVars, pollVars, captureVars, clientVars>>

\* What a step of part p leaves alone: every other part.
Only(p) ==
  /\ part = p
  /\ UNCHANGED part
  /\ IF p = "dispatch" THEN TRUE ELSE UNCHANGED vars
  /\ IF p = "buffer" THEN TRUE ELSE UNCHANGED bufferVars
  /\ IF p = "poll" THEN TRUE ELSE UNCHANGED pollVars
  /\ IF p \in {"capture", "capture to the end"} THEN TRUE ELSE UNCHANGED captureVars
  /\ IF p \in {"client", "cached client"} THEN TRUE ELSE UNCHANGED clientVars

PartsInit ==
  /\ part \in Parts
  /\ Init
  /\ Buffering!Init
  /\ Polling!Init
  /\ Capture!Init
  /\ Client!Init

\* One part takes a step of its own; a part that may come to rest stays there.
PartsNext ==
  \/ Only("dispatch") /\ Next
  \/ Only("buffer") /\ Buffering!Next
  \/ Only("poll") /\ Polling!Next
  \/ Only("capture") /\ Capture!Next
  \/ Only("capture to the end") /\ CaptureEnd!Next
  \/ Only("client") /\ Retried!Next
  \/ Only("cached client") /\ Cached!Next
  \/ UNCHANGED partsVars

PartsSpec == PartsInit /\ [][PartsNext]_partsVars

\* The fairness of each part, taken together: only one part moves in a behaviour.
PartsFairSpec ==
  /\ PartsSpec
  /\ WF_partsVars(\/ Only("dispatch") /\ (Overflow \/ Enqueue)
                  \/ Only("buffer") /\ Buffering!Working
                  \/ Only("capture to the end") /\ (CaptureEnd!Runner \/ CaptureEnd!Read("runner")))
  /\ WF_partsVars(\/ Only("dispatch") /\ StartDispatch
                  \/ Only("capture to the end") /\ (CaptureEnd!Consumed \/ CaptureEnd!Read("consumer")))
  /\ WF_partsVars(\/ Only("dispatch") /\ Dispatch
                  \/ Only("capture to the end") /\ (CaptureEnd!Recovered \/ CaptureEnd!Read("recovery")))
  /\ WF_partsVars(Only("capture to the end") /\ CaptureEnd!Project)
  /\ SF_partsVars(Only("buffer") /\ Buffering!FlushSession)

-----------------------------------------------------------------------------

\* Every part holds values of its types.
PartsTypeOK ==
  /\ TypeOK
  /\ Buffering!TypeOK
  /\ Polling!TypeOK
  /\ Capture!TypeOK
  /\ Client!TypeOK

\* What was received is kept.  IngestBuffer: a stored row is in memory until
\* it is done, unless an accident took it away; the log is in the order of
\* event time, but for rows that came too late, and what is in it was held
\* for the whole window or flushed.  LivePoll: every row published in time is
\* stored after a poll, whatever failed before it.  CaptureAdmission: a
\* session is called finished only when its finish was committed.
\* ProviderClient: a live read was read by the provider after the call began.
RowsKept ==
  /\ PartsTypeOK
  /\ Buffering!PendingHeld
  /\ Buffering!InTimeOrder
  /\ Buffering!HeldForWindow
  /\ Polling!NothingMissed
  /\ Capture!FinishWasObserved
  /\ Client!LiveIsFresh

\* No step takes back what was decided.  CaptureAdmission: a capture that
\* stopped stays stopped, for the reason given.  ProviderClient: slots for
\* requests are an interval apart; a token is asked for only when the one at
\* hand has run down.
IntakeSteps ==
  /\ Capture!StaysStopped
  /\ Client!Spaced
  /\ Client!SharedRefresh

\* The intake comes to an end.  LiveDispatch: every message leaves the queue,
\* whatever becomes of the messages before it; what was ingested is flushed
\* in the end, or the status reports a gap.  IngestBuffer: a buffered row is
\* done in the end, or a crash has taken it.  CaptureAdmission: after a
\* committed end the feed is refused for good.
IntakeEnds ==
  /\ part = "dispatch" => QueueDrains
  /\ part = "dispatch" => BufferFlushed
  /\ part = "buffer" => Buffering!BufferDrains
  /\ part = "capture to the end" => CaptureEnd!StopsForGood

=============================================================================
