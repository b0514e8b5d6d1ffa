SPECIFICATION MCSpec
CONSTANTS
    Item = {i1, i2}
    Task = {t1, t2}
    Return = {r1, r2}
    Cost <- MCCost
    Amount <- MCAmount
    Subtotal = 5000
    Shipping = 900
    Tax = 767
    Rate = 13000
    MaxRequests = 4
    Charge = 2
    MaxFaults = 1
    NoItem = NoItem
    NoReturn = NoReturn
    Sub = {r1, r2}
    NoSub = NoSub
    MaxChanges = 3
    MaxLost = 0
SYMMETRY Symmetry
CHECK_DEADLOCK FALSE
INVARIANTS
    
    OneActiveReturn
    FulfilmentSafe
    BilledIsNamed
    
PROPERTY
    ClosedUnlessStale
