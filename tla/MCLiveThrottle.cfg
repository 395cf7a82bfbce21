SPECIFICATION ThrottleSpec
CONSTANTS
    t1 = t1
    Threads <- MCThreads
    None = None
    Levels <- MCLevels
    Refresh = 2
    Step = 2
    Fresh = 1
    Hour = 4
    Keep = 3
    KeepHist = 4
    MaxCall = 2
    MaxClock = 4
PROPERTIES
    PullsAtMostEveryRefresh
