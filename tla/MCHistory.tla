----------------------------- MODULE MCHistory -----------------------------
(****************************************************************************)
(* The facts of a session for TLC: who reads its history and what is read, *)
(* the control state and the laps, the detectors of overtakes, battles and *)
(* qualifying, and the situations and trends of the strategy analysis.     *)
(* They share no state here and are checked side by side: in a behaviour   *)
(* only the part named by part moves.                                      *)
(****************************************************************************)
EXTENDS DetailReads, Integers, Sequences, TLC

CONSTANTS
  Parts,     \* the parts that move in this run
  d1,        \* cars, by their place on the grid
  d2,        \* 
  d3,        \* 
  q1,        \* drivers of a qualifying session
  q2,        \* 
  q3,        \* 
  ver,       \* drivers with laps
  nor,       \* 
  sig1,      \* what a situation says
  sig2       \* 

VARIABLES
  part,        \* the part that moves: it never changes
  \* DetailHistory
  log, done, histPending, ref, detail, blobs, snaps, private, shown, faults,
  \* FactualContext
  ctl, facts, lapLaps, pits, stint, cut, rows, lapTold, gone,
  \* OvertakeDetection
  passPos, confirmed, cand, passPending, excluded, far, passBlocked, emitted, lead, passTold,
  \* BattleLifecycle
  battlePos, battles, battleBlocked, updates, begun, near, summaries, run,
  \* QualifyingSession
  race, qualiLaps, whole, quali, qualiTold,
  \* StrategyTransitions
  sequence, now, emissions, strategyActive, frame, strategyTold, inputs, restores,
  \* PairTrends
  position, interval, trendActive, clock, ring, racing, since

\* The order of two and of three cars.
Two == d1 :> 1 @@ d2 :> 2
Three == d1 :> 1 @@ d2 :> 2 @@ d3 :> 3

\* Messages of race control that change a field another one changes.
Said == {"red flag", "resumed", "finished", "green", "safety car", "yellow", "sector yellow", "sector clear"}

\* The checkpoints of a session, with a crash; a cadence of two facts or three positions.
History == INSTANCE DetailHistory WITH
  Every <- 2, Span <- 3, Transforms <- 4, SnapEvery <- 2, Legacy <- <<>>, MaxLog <- 5,
  MaxFaults <- 1, None <- NoRead, pending <- histPending

\* The same behind a log that an older release left.
Legacy == INSTANCE DetailHistory WITH
  Every <- 2, Span <- 3, Transforms <- 4, SnapEvery <- 2, Legacy <- <<"fact", "sample">>,
  MaxLog <- 6, MaxFaults <- 1, None <- NoRead, pending <- histPending

\* Four messages of race control of which three are kept.
Control == INSTANCE FactualContext WITH
  Messages <- Said, Times <- {1, 2}, MaxHistory <- 2, MaxFacts <- 4, Drivers <- {}, Laps <- {},
  Durations <- {1}, Starts <- {}, MaxLaps <- 1, MaxDrivers <- 1, Stints <- {}, Stops <- {},
  laps <- lapLaps, told <- lapTold

\* Laps, corrections and deletions of two drivers without race control.
LapBook == INSTANCE FactualContext WITH
  Messages <- {}, Times <- {1}, MaxHistory <- 1, MaxFacts <- 0, Drivers <- {ver, nor},
  Laps <- {1, 2, 3}, Durations <- {1}, Starts <- {}, MaxLaps <- 2, MaxDrivers <- 2,
  Stints <- {}, Stops <- {}, laps <- lapLaps, told <- lapTold

\* A driver whose laps race control judges, and who stops.
Judgement == INSTANCE FactualContext WITH
  Messages <- {"green", "safety car", "sector yellow"}, Times <- {1, 2}, MaxHistory <- 2,
  MaxFacts <- 2, Drivers <- {ver}, Laps <- {1, 2}, Durations <- {1}, Starts <- {1},
  MaxLaps <- 2, MaxDrivers <- 1, Stints <- {1}, Stops <- {1}, laps <- lapLaps, told <- lapTold

\* Two cars whose change of places takes two samples to confirm.
Overtakes == INSTANCE OvertakeDetection WITH
  Drivers <- {d1, d2}, Grid <- Two, Order <- Two, Confirm <- 2, Samples <- 2,
  Positions <- {1, 2, 3}, Aside <- {d1, d2}, pos <- passPos, pending <- passPending,
  blocked <- passBlocked, told <- passTold

\* Three cars.
Field == INSTANCE OvertakeDetection WITH
  Drivers <- {d1, d2, d3}, Grid <- Three, Order <- Three, Confirm <- 1, Samples <- 2,
  Positions <- {1, 2, 3}, Aside <- {d1}, pos <- passPos, pending <- passPending,
  blocked <- passBlocked, told <- passTold

\* Two cars at five distances.
Battle == INSTANCE BattleLifecycle WITH
  Drivers <- {d1, d2}, Grid <- Two, StartSamples <- 3, EndSamples <- 3,
  Bands <- {0, 1, 2, 4, 5}, pos <- battlePos, blocked <- battleBlocked

\* Three cars.
Train == INSTANCE BattleLifecycle WITH
  Drivers <- {d1, d2, d3}, Grid <- Three, StartSamples <- 2, EndSamples <- 1, Bands <- {3, 5},
  pos <- battlePos, blocked <- battleBlocked

\* Two drivers with laps of two numbers and two times.
Qualifying == INSTANCE QualifyingSession WITH
  Drivers <- {q1, q2}, LapNumbers <- {1}, Durations <- {1, 2}, Phases <- <<"Q1", "Q2", "Q3">>,
  Q3Places <- 1, laps <- qualiLaps, told <- qualiTold

\* Three drivers around the drop zone.
Cut == INSTANCE QualifyingSession WITH
  Drivers <- {q1, q2, q3}, LapNumbers <- {}, Durations <- {1}, Phases <- <<"Q1", "Q2", "Q3">>,
  Q3Places <- 1, laps <- qualiLaps, told <- qualiTold

\* One key that appears, changes and vanishes, with a reconstruction.
Situation == INSTANCE StrategyTransitions WITH
  NKeys <- 1, Signatures <- {sig1, sig2}, None <- NoRead, Cooldown <- 1, MaxRecords <- 1,
  MaxShown <- 1, Oversize <- TRUE, MaxSources <- 3, MaxTime <- 3, MaxRestores <- 1,
  active <- strategyActive, told <- strategyTold

\* Two keys that compete for one record and one place in the frame.
Situations == INSTANCE StrategyTransitions WITH
  NKeys <- 2, Signatures <- {sig1, sig2}, None <- NoRead, Cooldown <- 2, MaxRecords <- 1,
  MaxShown <- 1, Oversize <- FALSE, MaxSources <- 3, MaxTime <- 3, MaxRestores <- 0,
  active <- strategyActive, told <- strategyTold

\* Two cars whose positions and intervals come late.
Trends == INSTANCE PairTrends WITH
  Drivers <- {1, 2}, Positions <- {1, 2}, Gaps <- {1}, None <- NoRead, FreshFor <- 3, Skew <- 1,
  MaxTime <- 3, RingSize <- 2, active <- trendActive

\* Three cars at one moment.
Pairing == INSTANCE PairTrends WITH
  Drivers <- {1, 2, 3}, Positions <- {1, 2, 3}, Gaps <- {1}, None <- NoRead, FreshFor <- 1,
  Skew <- 0, MaxTime <- 0, RingSize <- 1, active <- trendActive

ASSUME PartsAssumption ==
  /\ History!HistoryAssumption
  /\ Control!ControlAssumption
  /\ LapBook!FactsAssumption
  /\ Qualifying!DriversAssumption
  /\ Qualifying!NumbersAssumption
  /\ Qualifying!PhasesAssumption
  /\ Situation!StrategyAssumption
  /\ Trends!IndexAssumption

-----------------------------------------------------------------------------

histVars ==
  <<log, done, histPending, ref, detail, blobs, snaps, private, shown, faults>>
lapVars ==
  <<ctl, facts, lapLaps, pits, stint, cut, rows, lapTold, gone>>
passVars ==
  <<passPos, confirmed, cand, passPending, excluded, far, passBlocked, emitted, lead, passTold>>
battleVars ==
  <<battlePos, battles, battleBlocked, updates, begun, near, summaries, run>>
qualiVars ==
  <<race, qualiLaps, whole, quali, qualiTold>>
strategyVars ==
  <<sequence, now, emissions, strategyActive, frame, strategyTold, inputs, restores>>
trendVars ==
  <<position, interval, trendActive, clock, ring, racing, since>>

partsVars ==
  <<part, vars, histVars, lapVars, passVars, battleVars, qualiVars, strategyVars, trendVars>>

\* What a step of part p leaves alone: every other part.
Only(p) ==
  /\ part = p
  /\ UNCHANGED part
  /\ IF p = "reads" THEN TRUE ELSE UNCHANGED vars
  /\ IF p \in {"history", "legacy"} THEN TRUE ELSE UNCHANGED histVars
  /\ IF p \in {"control", "laps", "judged"} THEN TRUE ELSE UNCHANGED lapVars
  /\ IF p \in {"overtakes", "field"} THEN TRUE ELSE UNCHANGED passVars
  /\ IF p \in {"battle", "train"} THEN TRUE ELSE UNCHANGED battleVars
  /\ IF p \in {"qualifying", "cutoff"} THEN TRUE ELSE UNCHANGED qualiVars
  /\ IF p \in {"situation", "situations"} THEN TRUE ELSE UNCHANGED strategyVars
  /\ IF p \in {"trends", "pairs"} THEN TRUE ELSE UNCHANGED trendVars

PartsInit ==
  /\ part \in Parts
  /\ Init
  /\ IF part = "legacy" THEN Legacy!WriterInit ELSE History!WriterInit
  /\ IF part = "laps" THEN LapBook!FactsInit ELSE IF part = "judged" THEN Judgement!FactsInit ELSE Control!FactsInit
  /\ IF part = "field" THEN Field!Init ELSE Overtakes!Init
  /\ IF part = "train" THEN Train!Init ELSE Battle!Init
  /\ IF part = "cutoff" THEN Cut!Init ELSE Qualifying!Init
  /\ IF part = "situations" THEN Situations!Init ELSE Situation!Init
  /\ IF part = "pairs" THEN Pairing!Init ELSE Trends!Init
  /\ part = "trends" \/ part = "pairs" \/ racing = TRUE

\* One part takes a step of its own; a part that may come to rest stays there.
PartsNext ==
  \/ Only("reads") /\ Next
  \/ Only("history") /\ History!WriterNext
  \/ Only("legacy") /\ Legacy!WriterNext
  \/ Only("control") /\ Control!ControlNext /\ UNCHANGED <<lapLaps, pits, stint, cut, rows, lapTold, gone>>
  \/ Only("laps") /\ LapBook!FactsNext
  \/ Only("judged") /\ Judgement!FactsNext
  \/ Only("overtakes") /\ Overtakes!Next
  \/ Only("field") /\ Field!Next
  \/ Only("battle") /\ Battle!Next
  \/ Only("train") /\ Train!Next
  \/ Only("qualifying") /\ Qualifying!Next
  \/ Only("cutoff") /\ Cut!Next
  \/ Only("situation") /\ Situation!Next
  \/ Only("situations") /\ Situations!Next
  \/ Only("trends") /\ Trends!Next
  \/ Only("pairs") /\ Pairing!Next
  \/ UNCHANGED partsVars

PartsSpec == PartsInit /\ [][PartsNext]_partsVars

-----------------------------------------------------------------------------

\* Every part holds values of its types.
PartsTypeOK ==
  /\ TypeOK
  /\ part = "history" => History!TypeOK
  /\ part = "legacy" => Legacy!TypeOK
  /\ part = "control" => Control!ControlTypeOK
  /\ part = "laps" => LapBook!FactsTypeOK
  /\ part = "judged" => Judgement!FactsTypeOK
  /\ part = "overtakes" => Overtakes!TypeOK
  /\ part = "field" => Field!TypeOK
  /\ part = "battle" => Battle!TypeOK
  /\ part = "train" => Train!TypeOK
  /\ part = "qualifying" => Qualifying!TypeOK
  /\ part = "cutoff" => Cut!TypeOK
  /\ part = "situation" => Situation!TypeOK
  /\ part = "situations" => Situations!TypeOK
  /\ part = "trends" => Trends!TypeOK
  /\ part = "pairs" => Pairing!TypeOK

\* Histories are exact.  DetailHistory: what is answered for a cursor is
\* every relevant fact up to it and nothing later; the history of every
\* published state can be read, unless it was too large to encode; a
\* restarted projection has the cadence and the status that are stored; no
\* reference is acknowledged, or kept in a snapshot, without its checkpoint.
\* FactualContext: a session that was ever called finished stays finished, by
\* the first finish in effect; the latest message in effect holds, whatever
\* was dropped and whatever came late; a lap up to now that is called green
\* agrees with what holds now; a best lap called available
\* is the best of all laps sent and not deleted; the public row of a driver
\* is what his history says; every lap is excluded for what race control says
\* of its time now; the lap of a stop is not a racing lap, whichever came
\* first.
HistoriesExact ==
  /\ PartsTypeOK
  /\ (IF part = "legacy" THEN Legacy!ExactOrUnavailable ELSE History!ExactOrUnavailable)
  /\ part = "history" => History!LiveReadable /\ History!RestartAgrees
  /\ History!ReferencesBacked
  /\ part = "control" => Control!FinishKept /\ Control!LatestHolds /\ Control!GreenAgrees
  /\ part = "laps" => LapBook!BestIsBest /\ LapBook!RowsCurrent
  /\ part = "judged" => Judgement!RowsCurrent /\ Judgement!JudgedNow /\ Judgement!StopsExcluded

\* What the detectors hold is what was seen.  OvertakeDetection: an overtake
\* told was seen ahead for as long as the confirmation takes; a change that
\* waits for its samples is one the detector still weighs.  BattleLifecycle:
\* a battle is public exactly between its start and its end; a chaser is in
\* one battle.  QualifyingSession: the cutoff is that of the phase and of the
\* drivers seen.  PairTrends: a ring counts only time in which the gap was
\* known without a break; its neighbours are in order and within twice the
\* skew, and the last is the interval the index holds; no car follows two
\* cars or is followed by two.
DetectorsSafe ==
  /\ part = "overtakes" => Overtakes!ConfirmedHeld
  /\ part = "field" => Field!PendingWeighed
  /\ (IF part = "train" THEN Train!PublicIsActive ELSE Battle!PublicIsActive)
  /\ part = "train" => Train!OneEdgePerChaser
  /\ part = "cutoff" => Cut!CutoffCurrent
  /\ part = "trends" => Trends!FollowedThroughout /\ Trends!StepsAreClose /\ Trends!RingIsCurrent
  /\ part = "pairs" => Pairing!PairsFormChains

\* No detector tells what is not so.  OvertakeDetection: one overtake is told
\* once.  BattleLifecycle: a battle starts after enough samples close behind,
\* and ends after enough apart; its proximity events alternate.
\* QualifyingSession: a lap told as the fastest is as fast as every valid
\* lap, and a personal best beats all valid laps of its driver; a drop zone
\* entered is left before it is entered again.
TellsTruth ==
  /\ [][part = "field" => Field!NoneRepeated]_passVars
  /\ [][part = "battle" => Battle!LongEnough]_battleVars
  /\ Battle!ProximityAlternates
  /\ [][part = "qualifying" => Qualifying!ToldFastest]_qualiVars
  /\ [][part = "qualifying" => Qualifying!ToldPersonal]_qualiVars
  /\ [][part = "cutoff" => Cut!MovesAgree]_qualiVars

\* StrategyTransitions: no two transitions share a revision, also after a
\* reconstruction; what an agent said of a key forms one chain; a key with a
\* record is told again only after the cooldown; what is withdrawn had been
\* told, and is taken back once; a situation shown under a revision says what
\* was told.
StrategyLinear ==
  /\ part = "situation" => Situation!RevisionsAreOne
  /\ part = "situation" => Situation!ChainIsLinear
  /\ part = "situation" => Situation!Throttled
  /\ part = "situation" => Situation!WithdrawnWasTold
  /\ part = "situations" => Situations!ShownAsTold

=============================================================================
