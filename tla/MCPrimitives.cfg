SPECIFICATION MCSpec
CONSTANTS
    p1 = p1
    r1 = r1
    r2 = r2
    Product = {p1}
    Restorer = {r1, r2}
    ProductOf <- MCProductOf
    Quantity <- MCQuantity
    Amount = {0, 1}
    MaxWrites = 4
    Worker = {w1, w2, w3}
    TTL = 2
    MaxLag = 1
    MaxFaults = 2
    Event = {e1}
    MaxFailures = 0
    MaxCleanups = 0
INVARIANTS
    RefusedOnlyUnderContention
    Exclusive
PROPERTIES
    ImplementsLedger
    LockIsNotStuck
CHECK_DEADLOCK FALSE
