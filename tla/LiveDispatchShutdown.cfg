\* A dispatch task that is cancelled before its first step.
SPECIFICATION PartsSpec
CONSTANTS
  Parts = {"dispatch"}
  MaxRows = 2
  MaxMessages = 5
  \* three rows: two of them lie within a window of one and two do not
  Rows = {1, 2, 3}
  Time <- Dated
  Window = 1
  MaxBuffered = 3
  MaxBatch = 2
  MaxFaults = 1
  \* three rows, one of which comes when the first have been polled
  Dates = {1, 2, 4}
  Overlap = 2
  Warmup = 2
  Degraded = 1
  SeenLimit = 1
  PollTime = 4
  PollTrouble = 1
  MaxMeta = 1
  CaptureTrouble = 1
  MaxStaged = 1
  \* two callers that ask for the same rows
  Callers = {"a", "b"}
  Keys = {"laps"}
  Attempts = 2
  Interval = 1
  Base = 1
  LongestDelay = 1
  Ttls = {0, 2}
  Capacity = 2
  Buffer = 1
  Lifetime = 2
  ClientTime = 1
  LastStart = 1
INVARIANT NothingRetained
CHECK_DEADLOCK FALSE
