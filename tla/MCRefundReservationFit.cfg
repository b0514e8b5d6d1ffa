SPECIFICATION Spec
CONSTANTS
    Item = {i1}
    Task = {t1, t2}
    Amount <- MCAmount
    Total = 2
    MaxRequests = 2
    MaxFaults = 0
SYMMETRY Symmetry
INVARIANTS
    ConcurrentRefundsFit
CHECK_DEADLOCK FALSE
