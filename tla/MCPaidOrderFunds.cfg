SPECIFICATION Spec
CONSTANTS
    Task = {t1}
    Part = {}
    PartAmount <- MCAmount
    Total = 3
    MaxCancels = 2
    MaxFaults = 1
INVARIANTS
    CancelReleasesFunds
CHECK_DEADLOCK FALSE
