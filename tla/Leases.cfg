SPECIFICATION PartsFairSpec
CONSTANTS
  Parts = {"locks", "duties", "handover", "status", "mqtt", "backfill", "fetched", "reconcile", "command",
           "locations", "ceiling"}
  Procs = {1, 2, 3}
  Sessions = {1}
  Nobody = Nobody
  Ingestors = {"i1"}
  Combined = {"c1", "c2"}
  MaxFaults = 0
  MaxBroken = 1
  Backfillers = {"reconciler", "cli"}
  Forced = {"reconciler"}
  Order <- SessionThenLaps
  MaxTrouble = 1
  Unset = Unset
INVARIANTS LocksSafe DutiesSafe 
PROPERTIES  LeasesProgress
