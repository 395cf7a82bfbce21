SPECIFICATION MCSpec
CONSTANTS
    t1 = t1
    t2 = t2
    Threads <- MCThreads
    None = None
    Levels <- MCLevels
    Refresh = 2
    Step = 2
    Fresh = 1
    Hour = 4
    Keep = 3
    KeepHist = 4
    MaxCall = 2
    MaxClock = 6
    Window = 4
    Since = 4
    Jump = 300
    FreshHour = 4
    MinutesPerTick = 5
    Stations <- MCStations
    Stored <- MCStored
SYMMETRY Symmetry
INVARIANTS
    TypeOK
    SnapshotsSpaced
    FrameIntact
    RowsLookAtTheNearestPast
PROPERTIES
    RestartKeepsWindow
