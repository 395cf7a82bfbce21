SPECIFICATION Spec
CONSTANTS
    f1 = f1
    t1 = t1
    t2 = t2
    Facilities <- MCFacilities
    Threads <- MCThreads
    None = None
    Garbage = Garbage
    MaxTime = 2
    MaxRequests = 4
SYMMETRY Symmetry
CHECK_DEADLOCK FALSE
INVARIANTS
    AckedStaysListed
