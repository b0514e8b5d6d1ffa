SPECIFICATION MCSpec
CONSTANTS
    p1 = p1
    p2 = p2
    Order = {o1, o2}
    Product = {p1, p2}
    Worker = {w1, w2}
    Cart <- MCCart
    Digital = {p2}
    KeyOf <- SharedKey
    WithCoupon = {o1}
    Meta = {o1}
    Delayed = {o1}
    InitialStock <- MCPlenty
    MaxErrors = 1
    MaxCrashes = 1
    Seller = {s1}
    MaxUpdates = 2
    MaxFaults = 1
SYMMETRY Symmetry
INVARIANTS
    
    OneOrderPerKey
    RedeemedOnlyIfCompleted
    
PROPERTIES
    ClosedIsFinal
CHECK_DEADLOCK FALSE
