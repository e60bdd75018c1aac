\* Two processes, two controls at a time, one failure.
CONSTANTS
    Procs = {p1, p2}
    Clients = {c1, c2}
    Nobody = Nobody
    LastEvent = 2
    Snapshot = 1
    MaxFaults = 1
SPECIFICATION Spec
SYMMETRY Symmetry
INVARIANTS TickIsCurrent RoomSound
PROPERTY PlaysNext
CHECK_DEADLOCK FALSE
