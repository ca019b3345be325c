SPECIFICATION Spec
CONSTANTS
    c1 = c1
    c2 = c2
    c3 = c3
    e1 = e1
    Null = Null
    Command <- TwoCommands
    Entity <- OneEntity
    Interruption <- Nothing
    MaxInFlight = 2
    MaxGeneration = 3
    MaxRestarts = 0
SYMMETRY CommandSymmetry
PROPERTIES
    NoLostUpdate
CHECK_DEADLOCK FALSE
