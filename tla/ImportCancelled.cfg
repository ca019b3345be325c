SPECIFICATION LiveSpec
CONSTANTS
    b1 = b1
    b2 = b2
    i1 = i1
    i2 = i2
    i3 = i3
    k1 = k1
    k2 = k2
    Null = Null
    Batch <- TwoBatches
    Item <- ThreeItems
    Content <- ThreeContents
    ContentOf <- AllDistinct
    Parsable <- FirstTwo
    Interruption <- OnlyCancel
    MaxRestarts = 0
INVARIANTS
    FinishedIsClosed
    CancelledHandleCancelsBatch
PROPERTIES
    HandleFinishes
CHECK_DEADLOCK FALSE
