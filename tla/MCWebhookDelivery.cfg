SPECIFICATION MCSpec
CONSTANTS
    Event = {e1, e2}
    Worker = {w1, w2, w3}
    MaxFailures = 1
    MaxFaults = 2
    MaxCleanups = 1
    Product = {p1}
    Restorer = {r1}
    ProductOf <- MCProductOf
    Quantity <- MCQuantity
    Amount = {0}
    MaxWrites = 0
    TTL = 1
    MaxLag = 0
    Mutation = {t1, t2}
    QueueSize = 1
    MaxAttempts = 2
    MaxRequests = 3
    MaxMirrorFaults = 1
INVARIANTS
    HandledOnce
PROPERTIES
    MCEventuallyApplied
    
CHECK_DEADLOCK FALSE
