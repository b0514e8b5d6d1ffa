SPECIFICATION MCSpec
CONSTANTS
    Device = {a1, a2}
    Owner = {a1, a2}
    Id = {a1, a2}
    Task = {t1, t2}
    Session = {b1, b2, b3}
    Conn = {b1, b2, b3}
    NoDevice = NoDevice
    NoTask = NoTask
    NoSession = NoSession
    NoConn = NoConn
    TTL = 2
    Leeway = 1
    ResetTTL = 1
    MaxTime = 3
    MaxResets = 1
    MaxRequests = 3
    MaxUploadRequests = 4
    MaxFaults = 1
    MaxSessions = 1
    MaxPerUser = 1
    Total = 2
    MaxConns = 1
    MaxSubs = 1
    QueueSize = 1
SYMMETRY Symmetry
INVARIANTS
    
    NotStranded
    ResetHolds
    UploadsSafe
    RealtimeSafe
CHECK_DEADLOCK FALSE
