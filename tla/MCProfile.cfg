SPECIFICATION MCSpec
CONSTANTS
    Task = {t1, t2, t3}
    MaxAddresses = 2
    MaxRequests = 5
    MaxFaults = 1
SYMMETRY Symmetry
PROPERTIES
    AddressBookSafe
    
CHECK_DEADLOCK FALSE
