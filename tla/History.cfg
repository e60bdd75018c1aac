SPECIFICATION PartsSpec
CONSTANTS
  Parts = {"reads", "history", "legacy", "control", "laps", "judged", "overtakes", "field", "battle", "train",
           "qualifying", "cutoff", "situation", "situations", "trends", "pairs"}
  NoRead = NoRead
  Callers = {1, 2, 3}
  Keys = {1, 2}
  Reads = {1, 2}
  MaxTasks = 1
  MaxPerTask = 2
  MaxWaiting = 3
  d1 = d1 d2 = d2 d3 = d3
  q1 = q1 q2 = q2 q3 = q3
  ver = ver nor = nor
  sig1 = sig1 sig2 = sig2
INVARIANTS ReadsShared HistoriesExact  StrategyLinear
PROPERTIES PeersKeepTask TellsTruth
