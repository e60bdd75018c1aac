\* One process: every control returns, and the room is given back.
CONSTANTS
    Procs = {p1}
    Clients = {c1, c2}
    Nobody = Nobody
    LastEvent = 1
    Snapshot = 0
    MaxFaults = 1
SPECIFICATION FairSpec
INVARIANT Served
PROPERTY NothingHangs
CHECK_DEADLOCK FALSE
