SPECIFICATION Spec
CONSTANTS
    c1 = c1
    c2 = c2
    r1 = r1
    r2 = r2
    Clients <- MCClients
    Requests <- MCRequests
    None = None
    Minute = 2
    Day = 4
    PerMinute = 2
    PerDay = 3
    GlobalPerDay = 4
    MaxLag = 1
    MaxClock = 7
SYMMETRY Symmetry
INVARIANTS
    TypeOK
    Limits
