SPECIFICATION PartsFairSpec
CONSTANTS
  Parts = {"catalogue", "writers", "talked", "syncers", "links", "versions"}
  Callers = {"r1", "r2", "r3"}
  Keys = {"k1", "k2"}
  PerMinute = 1
  PerSession = 3
  Daily = 4
  Slots = 1
  Entries = 1
  Ttl = 1
  Minute = 1
  Day = 2
  Estimate = 2
  MaxUsage = 3
  MaxTime = 1
  MaxCalls = 4
INVARIANTS RoomRowSafe
PROPERTIES  SettlesInTheEnd
