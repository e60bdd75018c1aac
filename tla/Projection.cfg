SPECIFICATION Spec
CONSTANTS
    p1 = p1
    p2 = p2
    a = a
    b = b
    None = None
    Procs <- MCProcs
    Workers <- MCProcs
    Facts <- MCFacts
    Emits <- MCEmits
    Legacy <- NoLegacy
    MaxFaults = 2
SYMMETRY Symmetry
INVARIANTS
    LogSound
    EnginesExact
    DeliveredOnce
PROPERTIES
    PublicAdvances
    ImplementsProjectionLog
