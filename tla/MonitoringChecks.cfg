SPECIFICATION Spec
CONSTANTS
    r1 = r1
    p1 = p1
    p2 = p2
    u1 = u1
    Null = Null
    Root <- OneRoot
    Path <- OnePath
    RootOf <- SameRoot
    Run <- OneRun
    Capacity = 1
    MaxTries = 2
    Interruption <- ChecksAndUser
    MaxSessions = 2
    MaxGeneration = 2
INVARIANTS
    ImportedIsCurrent
    AttemptsFitState
PROPERTIES
    StoppedRunsStay
CHECK_DEADLOCK FALSE
