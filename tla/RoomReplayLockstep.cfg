\* A resume of a room that has played nothing yet.
CONSTANTS
    Procs = {p1}
    Clients = {c1, c2, c3}
    Nobody = Nobody
    LastEvent = 2
    Snapshot = 2
    MaxFaults = 0
SPECIFICATION Spec
SYMMETRY Symmetry
INVARIANT InLockstep
CHECK_DEADLOCK FALSE
