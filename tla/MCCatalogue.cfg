SPECIFICATION MCSpec
CONSTANTS
    Product = {a1, a2}
    Device = {a1, a2}
    Mutation = {t1, t2}
    QueueSize = 2
    MaxAttempts = 2
    MaxRequests = 2
    MaxFaults = 1
    Token = {k1}
    NoToken = NoToken
    DeviceLimit = 1
    MaxLicenceRequests = 5
    NoLimit = NoLimit
    NoUser = NoUser
    MaxCouponRequests = 4
    MaxMessages = 2
    MaxChatRequests = 5
SYMMETRY Symmetry
INVARIANTS
    
    LicencesSafe
    
PROPERTIES
    ChatSafe
CHECK_DEADLOCK FALSE
