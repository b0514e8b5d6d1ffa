SPECIFICATION MCSpec
CONSTANTS
    p1 = p1
    p2 = p2
    Order = {o1}
    Product = {p1}
    Worker = {w1, w2}
    Cart <- MCCart
    Digital = {}
    KeyOf <- OwnKeys
    WithCoupon = {o1}
    Meta = {}
    Delayed = {o1}
    InitialStock <- MCStock
    MaxErrors = 0
    MaxCrashes = 0
    Item = {i1}
    Return = {r1, r2}
    Task = {t1}
    Charge = 2
    MaxFaults = 0
    NoItem = NoItem
    NoReturn = NoReturn
    Sub = {s1}
    NoSub = NoSub
    MaxChanges = 3
    MaxLost = 1
PROPERTIES
    
    JobsRepair
CHECK_DEADLOCK FALSE
