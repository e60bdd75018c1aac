SPECIFICATION PartsFairSpec
CONSTANTS
  Parts = {"session", "delivery", "lockstep", "room", "restart", "polled", "admission", "state", "seek", "clock"}
  Requests = {"a", "b", "c"}
  Capacity = 1
  Ttl = 2
  Burst = 1
  Rate = 1
  MaxTime = 3
  MaxLost = 0
  Unset = Unset
INVARIANTS StreamsExact SlotsHeld ReplayTold
PROPERTIES NeverBack StreamsCatchUp
