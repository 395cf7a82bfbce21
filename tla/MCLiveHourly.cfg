SPECIFICATION SteadySpec
CONSTANTS
    t1 = t1
    PollGap = 2
    Threads <- MCThreads
    None = None
    Levels <- MCLevels
    Refresh = 1
    Step = 2
    Fresh = 6
    Hour = 12
    Keep = 13
    KeepHist = 168
    MaxCall = 1
    MaxClock = 36
INVARIANTS
    NoHourSkipped
