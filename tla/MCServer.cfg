SPECIFICATION ServerSpec
CONSTANTS
    f1 = f1
    t1 = t1
    t2 = t2
    Facilities <- MCFacilities
    Threads <- MCThreads
    None = None
    Garbage = Garbage
    MaxTime = 2
    MaxRequests = 4
    Gauges <- MCGauges
    RainGauges <- MCRainGauges
    RegionGroups <- MCGroups
    Files <- MCFiles
    Operational <- MCOperational
    Assessed <- MCAssessed
    Amounts = {0, 20}
    AgeCap = 7
    BoardAsks <- MCBoardAsks
    WatchCalls <- MCWatchCalls
    Counts = {1, 2}
    CallsAllowed = 2
SYMMETRY Symmetry
CHECK_DEADLOCK FALSE
INVARIANTS
    TypeOK
    EndsAfterStart
    LostAtMostTorn
    BoardsTellOneFrame
    AnswersKeepToTheTools
PROPERTIES
    IsLedger
