SPECIFICATION Spec
CONSTANTS
    p = p
    q = q
    home = home
    d1 = d1
    d2 = d2
    None = None
    Process <- OneProcess
    Directory <- HomeAndTwo
    Default = home
    MaxStarts = 3
    MaxFaults = 2
INVARIANTS
    RunningUsesActive
PROPERTIES
    ActivationIsValidated
    ExistingDataUntouched
CHECK_DEADLOCK FALSE
