SPECIFICATION Spec
CONSTANTS
    r1 = r1
    p1 = p1
    p2 = p2
    u1 = u1
    Null = Null
    Root <- OneRoot
    Path <- TwoPaths
    RootOf <- SameRoot
    Run <- OneRun
    Capacity = 1
    MaxTries = 2
    Interruption <- FaultsAndHealth
    MaxSessions = 3
    MaxGeneration = 3
INVARIANTS
    NoticedIsTraced
CHECK_DEADLOCK FALSE
