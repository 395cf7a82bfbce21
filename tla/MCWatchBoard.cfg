SPECIFICATION MCSpec
CONSTANTS
    None = None
    NoData = NoData
    Torn = Torn
    recorder1 = recorder1
    u1 = u1
    u2 = u2
    Callers <- MCCallers
    Recorder = recorder1
    Recorded <- MCRecorded
    Readings <- MCReadings
    Levels = {"warning"}
    Refresh = 1
    Listed = 3
    ActiveFor = 5
    MaxCall = 1
    MaxWork = 1
    Interval = 2
    Gap = 6
    FirstSleep = 0
    MaxCommands = 2
    MaxClock = 6
    DisturbedClock = 5
    MaxRestarts = 1
    MaxRequests = 3
CHECK_DEADLOCK FALSE
INVARIANTS
    BoardTypeOK
    WarningMissesExplained
    SeasonTellsTheWatch
PROPERTIES
    PulledOncePerRefresh
    RecorderComesBack
