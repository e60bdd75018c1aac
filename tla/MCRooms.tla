------------------------------ MODULE MCRooms ------------------------------
(****************************************************************************)
(* The rooms for TLC: the discussion and what triggers it, the budget of   *)
(* its sentences, the row of the catalogue and its writers, the standings  *)
(* cache and the numbers of the standings. They share no state here and    *)
(* are checked side by side: in a behaviour only the part named by part    *)
(* moves.                                                                  *)
(****************************************************************************)
EXTENDS GenerationBudget, Sequences, TLC

CONSTANTS
  Parts      \* the parts that move in this run

VARIABLES
  part,        \* the part that moves: it never changes
  \* RoomDiscussion
  gen, msgs, counters, genStatus, claims, talkCall, talkSeen, recent, talkLock, next, resetting,
  refused, talkUsed,
  \* DiscussionTriggers
  clock, triggerSeen, topicLast, agentLast, window, triggers, arrived, resets,
  \* RoomCatalogue
  catNow, calendar, offered, catSeen, room, work, fix, stored, terminal, halted, said, news,
  \* StandingsCache
  world, up, cached, last, cacheLock, cacheCall, cacheSeen, cacheUsed,
  \* StandingsStats
  races, qualifying, sprints

\* Events as the generator sees them: who speaks, about what, and the position taken.
Flag == [agents |-> <<"mira", "lena">>, critical |-> TRUE, content |-> "flag",
         sit |-> "none", status |-> "none"]
Passed == [agents |-> <<"theo">>, critical |-> FALSE, content |-> "pass",
           sit |-> "none", status |-> "none"]
Moved == [agents |-> <<"mira", "theo">>, critical |-> FALSE, content |-> "window",
          sit |-> "a", status |-> "revised"]

\* A replay and an operator generate over two facts, with a restart and a rebuild.
Facts == INSTANCE RoomDiscussion WITH
  Events <- <<Flag, Passed>>, Callers <- {"replay", "cli"}, Retained <- 2, RecentSize <- 2,
  MaxRestarts <- 1, MaxForced <- 1, MaxCrashes <- 0, MaxRebuilds <- 1, call <- talkCall,
  seen <- talkSeen, lock <- talkLock, used <- talkUsed

\* A replay and a request generate over a position that moves twice; one of them crashes.
Claims == INSTANCE RoomDiscussion WITH
  Events <- <<Moved, Moved>>, Callers <- {"replay", "request"}, Retained <- 1, RecentSize <- 2,
  MaxRestarts <- 1, MaxForced <- 0, MaxCrashes <- 1, MaxRebuilds <- 0, call <- talkCall,
  seen <- talkSeen, lock <- talkLock, used <- talkUsed

\* One session whose events come in the order of their times.
Triggers == INSTANCE DiscussionTriggers WITH
  Sessions <- {"race"}, Kinds <- {"safety_car", "retirement", "overtake", "fastest_lap"},
  Ids <- {"e1", "e2", "e3"}, Late <- FALSE, MaxTime <- 5, MaxEvents <- 4, MaxResets <- 0,
  TopicCooldown <- 2, AgentCooldown <- 1, Minute <- 4, RoomMax <- 2, Capacity <- 2,
  seen <- triggerSeen

\* Two sessions, late events and resets.
Reset == INSTANCE DiscussionTriggers WITH
  Sessions <- {"race", "sprint"}, Kinds <- {"safety_car", "retirement"}, Ids <- {"e1", "e2"},
  Late <- TRUE, MaxTime <- 2, MaxEvents <- 3, MaxResets <- 1, TopicCooldown <- 2,
  AgentCooldown <- 1, Minute <- 2, RoomMax <- 2, Capacity <- 3, seen <- triggerSeen

\* One slot whose provider session is replaced, captured live.
Catalogue == INSTANCE RoomCatalogue WITH
  Slots <- {"s1"}, Keys <- {"k1", "k2"}, Syncers <- {"p1"}, Writers <- {"live", "chat"},
  Starts <- {0, 1}, Window <- 2, Late <- 1, Length <- 1, MaxTime <- 2, MaxNews <- 2,
  now <- catNow, seen <- catSeen

\* Everything that writes the data of a room, next to a live session.
EveryWriter == INSTANCE RoomCatalogue WITH
  Slots <- {"s1"}, Keys <- {"k1"}, Syncers <- {"p1"},
  Writers <- {"live", "reconcile", "ingest"}, Starts <- {0, 1}, Window <- 2, Late <- 1,
  Length <- 1, MaxTime <- 1, MaxNews <- 1, now <- catNow, seen <- catSeen

\* The same next to a room that gets its messages.
Talked == INSTANCE RoomCatalogue WITH
  Slots <- {"s1"}, Keys <- {"k1"}, Syncers <- {"p1"},
  Writers <- {"reconcile", "ingest", "chat"}, Starts <- {0, 1}, Window <- 2, Late <- 1,
  Length <- 1, MaxTime <- 1, MaxNews <- 1, now <- catNow, seen <- catSeen

\* Two processes that synchronise the catalogue.
Syncs == INSTANCE RoomCatalogue WITH
  Slots <- {"s1"}, Keys <- {"k1"}, Syncers <- {"p1", "p2"}, Writers <- {}, Starts <- {0, 1},
  Window <- 2, Late <- 1, Length <- 1, MaxTime <- 1, MaxNews <- 2, now <- catNow,
  seen <- catSeen

\* A session inside its window, for the property that needs fairness.
Links == INSTANCE RoomCatalogue WITH
  Slots <- {"s1"}, Keys <- {"k1", "k2"}, Syncers <- {"p1"}, Writers <- {"live"},
  Starts <- {0, 1}, Window <- 3, Late <- 1, Length <- 1, MaxTime <- 1, MaxNews <- 2,
  now <- catNow, seen <- catSeen

\* One process, two documents, two versions of them.
Versions == INSTANCE StandingsCache WITH
  Requests <- {"r1", "r2"}, Procs <- {"p1"}, Names <- {"drivers", "summary"}, Ttls <- {1},
  StaleFor <- 1, MaxVersion <- 2, MaxOutages <- 1, MaxFaults <- 0, MaxFinishes <- 0,
  lock <- cacheLock, call <- cacheCall, seen <- cacheSeen, used <- cacheUsed

\* Two processes, an outage and a failing Redis.
Standings == INSTANCE StandingsCache WITH
  Requests <- {"r1", "r2"}, Procs <- {"p1", "p2"}, Names <- {"drivers"}, Ttls <- {1, 2},
  StaleFor <- 1, MaxVersion <- 1, MaxOutages <- 1, MaxFaults <- 1, MaxFinishes <- 1,
  lock <- cacheLock, call <- cacheCall, seen <- cacheSeen, used <- cacheUsed

\* Two drivers, two teams, three classified rows.
Stats == INSTANCE StandingsStats WITH
  Drivers <- {"ver", "nor"}, Teams <- {"red", "blue"}, Rounds <- {1, 2},
  Positions <- {1, 3, 11}, MaxRows <- 2

ASSUME PartsAssumption ==
  /\ Facts!BoundsAssumption
  /\ Triggers!BoundsAssumption
  /\ Versions!CacheAssumption
  /\ Stats!SeasonAssumption

-----------------------------------------------------------------------------

talkVars ==
  <<gen, msgs, counters, genStatus, claims, talkCall, talkSeen, recent, talkLock, next,
    resetting, refused, talkUsed>>
triggerVars ==
  <<clock, triggerSeen, topicLast, agentLast, window, triggers, arrived, resets>>
catVars ==
  <<catNow, calendar, offered, catSeen, room, work, fix, stored, terminal, halted, said, news>>
cacheVars ==
  <<world, up, cached, last, cacheLock, cacheCall, cacheSeen, cacheUsed>>
statsVars ==
  <<races, qualifying, sprints>>

partsVars ==
  <<part, vars, talkVars, triggerVars, catVars, cacheVars, statsVars>>

\* What a step of part p leaves alone: every other part.
Only(p) ==
  /\ part = p
  /\ UNCHANGED part
  /\ IF p = "budget" THEN TRUE ELSE UNCHANGED vars
  /\ IF p \in {"facts", "claims"} THEN TRUE ELSE UNCHANGED talkVars
  /\ IF p \in {"triggers", "reset"} THEN TRUE ELSE UNCHANGED triggerVars
  /\ IF p \in {"catalogue", "writers", "talked", "syncers", "links"} THEN TRUE ELSE UNCHANGED catVars
  /\ IF p \in {"versions", "standings"} THEN TRUE ELSE UNCHANGED cacheVars
  /\ IF p = "statistics" THEN TRUE ELSE UNCHANGED statsVars

PartsInit ==
  /\ part \in Parts
  /\ Init
  /\ IF part = "claims" THEN Claims!Init ELSE Facts!Init
  /\ IF part = "reset" THEN Reset!Init ELSE Triggers!Init
  /\ IF part = "writers" THEN EveryWriter!Init ELSE IF part = "talked" THEN Talked!Init ELSE IF part = "syncers" THEN Syncs!Init ELSE IF part = "links" THEN Links!Init ELSE Catalogue!Init
  /\ part \in {"catalogue", "writers", "talked", "syncers", "links"} \/ calendar = [s \in {"s1"} |-> 0]
  /\ IF part = "standings" THEN Standings!Init ELSE Versions!Init
  /\ Stats!Init

\* One part takes a step of its own; a part that may come to rest stays there.
PartsNext ==
  \/ Only("budget") /\ Next
  \/ Only("facts") /\ Facts!Next
  \/ Only("claims") /\ Claims!Next
  \/ Only("triggers") /\ Triggers!Next
  \/ Only("reset") /\ Reset!Next
  \/ Only("catalogue") /\ Catalogue!Next
  \/ Only("writers") /\ EveryWriter!Next
  \/ Only("talked") /\ Talked!Next
  \/ Only("syncers") /\ Syncs!Next
  \/ Only("links") /\ Links!Next
  \/ Only("versions") /\ Versions!Next
  \/ Only("standings") /\ Standings!Next
  \/ Only("statistics") /\ Stats!Next
  \/ UNCHANGED partsVars

PartsSpec == PartsInit /\ [][PartsNext]_partsVars

\* The fairness of each part, taken together: only one part moves in a behaviour.
PartsFairSpec ==
  /\ PartsSpec
  /\ WF_partsVars(\/ Only("budget") /\ TakeSlot
                  \/ Only("links") /\ Links!Live("s1")
                  \/ Only("versions") /\ Versions!Tick)
  /\ WF_partsVars(\/ Only("budget") /\ TimedOut("r1")
                  \/ Only("links") /\ Links!Decide("p1"))
  /\ WF_partsVars(\/ Only("budget") /\ TimedOut("r2")
                  \/ Only("links") /\ Links!Put("p1"))
  /\ WF_partsVars(Only("budget") /\ TimedOut("r3"))
  /\ SF_partsVars(\/ Only("links") /\ Links!Look("p1", "s1", offered["s1"])
                  \/ Only("versions") /\ Versions!Steps("r1"))
  /\ SF_partsVars(Only("versions") /\ Versions!Steps("r2"))

-----------------------------------------------------------------------------

\* Every part holds values of its types.
PartsTypeOK ==
  /\ TypeOK
  /\ part = "facts" => Facts!TypeOK
  /\ part = "claims" => Claims!TypeOK
  /\ part = "triggers" => Triggers!TypeOK
  /\ part = "reset" => Reset!TypeOK
  /\ part = "catalogue" => Catalogue!TypeOK
  /\ part = "writers" => EveryWriter!TypeOK
  /\ part = "talked" => Talked!TypeOK
  /\ part = "syncers" => Syncs!TypeOK
  /\ part = "links" => Links!TypeOK
  /\ part = "versions" => Versions!TypeOK
  /\ part = "standings" => Standings!TypeOK

\* RoomDiscussion: no text composed for an earlier discussion reaches the one
\* that replaced it; the counters of the room list are those of the messages
\* shown; a message answers an earlier one about the same event; the memory
\* of positions is bounded and backed by messages, and a position is only
\* taken back by something said later.
MessagesSafe ==
  /\ PartsTypeOK
  /\ Facts!NothingStale
  /\ Facts!CountersExact
  /\ (IF part = "claims" THEN Claims!AnswersEarlier ELSE Facts!AnswersEarlier)
  /\ part = "claims" => Claims!ClaimsBounded
  /\ Claims!TakenBackLater

\* DiscussionTriggers: no minute holds more triggers than the room allows;
\* topics and agents rest after they were talked about and spoke; an event
\* that comes again is not talked about again while it is remembered.
TriggersRest ==
  /\ part = "triggers" => Triggers!Throttled
  /\ part = "triggers" => Triggers!Rested
  /\ part = "triggers" => Triggers!NotTwice

\* What is to be said is said.  RoomDiscussion: a message is dropped only
\* when its agent already has one about the event; an overtaken generator
\* does not decide the status of the new discussion.  DiscussionTriggers: the
\* reset of a session takes nothing from the others.  GenerationBudget: a
\* room always gets its sentence.
DiscussionKept ==
  /\ [][part = "facts" => Facts!DropsOnlyRepeats]_talkVars
  /\ [][part = "facts" => Facts!StatusIsOwn]_talkVars
  /\ [][part = "reset" => Reset!ResetsOne]_triggerVars
  /\ part = "budget" => AlwaysSaid

\* RoomCatalogue: no room exists before its session was due to start; with
\* one syncer, a room is cancelled only if the provider said so of its
\* session; a replay is offered only where there is data.
RoomRowSafe ==
  /\ PartsTypeOK
  /\ Catalogue!NotEarly
  /\ Catalogue!CancelIsOwn
  /\ EveryWriter!ReplayHasData

\* No step undoes the row.  RoomCatalogue: a cancellation is not taken back
\* while the room keeps its session; without the reconciler, a completed room
\* with data is not closed again.  StandingsCache: with one process and a
\* working Redis, answers never go back to an older version.
RowSteps ==
  /\ Syncs!CancelSticks
  /\ [][part = "catalogue" => Catalogue!KeepsPrepared]_catVars
  /\ [][part = "versions" => Versions!AnswersNewer]_cacheVars

\* StandingsCache: an answer that is not marked stale was built at most a
\* lifetime ago.  StandingsStats: every start of a driver is counted in
\* exactly one column; the numbers of a team are the sums of its drivers.
StandingsSafe ==
  /\ part = "standings" => Standings!StaleIsMarked
  /\ Stats!StartsAddUp
  /\ Stats!TeamsAddUp

\* RoomCatalogue: a link the schedule shows and the room refuses is repaired.
\* StandingsCache: once the providers stay up, what Redis holds comes to be
\* what they published.
SettlesInTheEnd ==
  /\ part = "links" => Links!LinksRepaired
  /\ (part = "versions" /\ <>[]up) => <>[](part = "versions" => Versions!Settled)

=============================================================================
