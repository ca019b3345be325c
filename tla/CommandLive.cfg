SPECIFICATION LiveSpec
CONSTANTS
    c1 = c1
    c2 = c2
    c3 = c3
    e1 = e1
    Null = Null
    Command <- TwoCommands
    Entity <- OneEntity
    Interruption <- Everything
    MaxInFlight = 2
    MaxGeneration = 3
    MaxRestarts = 1
PROPERTIES
    HandleFinishes
CHECK_DEADLOCK FALSE
