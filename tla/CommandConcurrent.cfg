SPECIFICATION OverlapSpec
CONSTANTS
    c1 = c1
    c2 = c2
    c3 = c3
    e1 = e1
    Null = Null
    Command <- ThreeCommands
    Entity <- OneEntity
    Interruption <- Everything
    MaxInFlight = 2
    MaxGeneration = 3
    MaxRestarts = 1
SYMMETRY CommandSymmetry
INVARIANTS
    AppliedAtMostOnce
    OutcomeIsTruthful
    ImagePredatesOwner
    SlotsMatchPoints
    SomeImageSurvives
    GenerationsOrdered
    CurrentIsNotBehind
    LastStateIsRestored
PROPERTIES
    ImplementsLedger
    LoneCommitOverItsOwnImage
CHECK_DEADLOCK FALSE
