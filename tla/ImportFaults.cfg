SPECIFICATION Spec
CONSTANTS
    b1 = b1
    b2 = b2
    i1 = i1
    i2 = i2
    i3 = i3
    k1 = k1
    k2 = k2
    Null = Null
    Batch <- TwoBatches
    Item <- ThreeItems
    Content <- TwoContents
    ContentOf <- Duplicates
    Parsable <- FirstTwo
    Interruption <- Everything
    MaxRestarts = 1
INVARIANTS
    RowsHaveFiles
    ArtifactFollowsLatestAttempt
    OneImportPerContent
    BatchOutcomeIsTruthful
    HandleIsTruthful
PROPERTIES
    SettledStays
    ImplementsCatalog
CHECK_DEADLOCK FALSE
