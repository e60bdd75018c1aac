SPECIFICATION FairSpec
CONSTANTS
    p1 = p1
    p2 = p2
    a = a
    b = b
    None = None
    Procs <- MCProcs
    Workers <- OneWorker
    Facts <- MCFacts
    Emits <- MCEmits
    Legacy <- SomeLegacy
    MaxFaults = 2
INVARIANT
    BundlesComplete
PROPERTY
    PendingIsProjected
