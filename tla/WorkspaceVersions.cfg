SPECIFICATION Spec
CONSTANTS
    p1 = p1
    i1 = i1
    s1 = s1
    a = a
    b = b
    x = x
    y = y
    None = None
    NoRow = NoRow
    Paper <- OnePaper
    Idea <- NoOne
    Submission <- NoOne
    Snapshot <- TwoSnapshots
    Candidate <- Pairs
    Text <- OneText
    Operation <- VersionOperations
    InitialWorkspaces <- OnlyAdopted
    MaxCommands = 4
    MaxInFlight = 2
INVARIANTS
    CurrentVersionUsable
    VersionGraphSound
    DecisionHasOneRelation
CHECK_DEADLOCK FALSE
