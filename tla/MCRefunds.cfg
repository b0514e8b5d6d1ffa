SPECIFICATION MCSpec
CONSTANTS
    a = a
    b = b
    Item = {a, b}
    Task = {t1, t2}
    Amount <- MCAmount
    Total = 3
    MaxRequests = 4
    MaxFaults = 3
    Part = {r1}
    PartAmount <- MCPartAmount
    MaxCancels = 1
    MaxPaidFaults = 1
SYMMETRY Symmetry
INVARIANTS
    CapHolds
    MarkedIsPaid
    
    SumsAgree
CHECK_DEADLOCK FALSE
