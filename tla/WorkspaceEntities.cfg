SPECIFICATION Spec
CONSTANTS
    p1 = p1
    i1 = i1
    s1 = s1
    a = a
    b = b
    x = x
    y = y
    None = None
    NoRow = NoRow
    Paper <- OnePaper
    Idea <- OneIdea
    Submission <- OneSubmission
    Snapshot <- OneSnapshot
    Candidate <- NoOne
    Text <- TwoTexts
    Operation <- EntityOperations
    InitialWorkspaces <- EmptyOrAdopted
    MaxCommands = 4
    MaxInFlight = 2
INVARIANTS
    SubmissionVersionUsable
    AuditExplainsRows
PROPERTIES
    UndoRestoresItsFields
CHECK_DEADLOCK FALSE
