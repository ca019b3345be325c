SPECIFICATION Spec
CONSTANTS
    i1 = i1
    i2 = i2
    x = x
    y = y
    None = None
    Item <- TwoItems
    Byte <- Bytes
    Chunks = 2
    MaxWrites = 2
    MaxFaults = 1
SYMMETRY ItemsAndBytes
PROPERTIES
    CopyIsTheSource
    StoredIsKept
    MaterializedIsStored
CHECK_DEADLOCK FALSE
