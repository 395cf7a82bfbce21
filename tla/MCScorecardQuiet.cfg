SPECIFICATION ReviewSpec
CONSTANTS
    None = None
    NoData = NoData
    Cases = {}
    Storms = {}
    Amounts = {}
    Inputs <- MCInputs
    Rules <- MCRules
    Level <- MCLevel
    Window = 3
    EpisodeGap = 2
    Slot = 1
    StepReview = 2
    RecordLists <- MCRecordLists
    MaxTime = 2
    MaxQuarantine = 0
    MaxRecords = 2
    a = a
    b = b
    Gauges = {}
    Nothing = Nothing
    HourSlots = 2
    Short = 2
    Long = 3
    KeepSlots = 2
    KeepHourly = 5
    FreshSlots = 1
    FreshHourly = 3
    MaxTick = 1
    SlotsUntil = 1
    Rejected = Rejected
    Before = Before
    Unset = Unset
    Questions = {}
    Answers = {}
    Closures = {}
    Delays = {}
    Clocks = {}
    MaxWords = 0
CHECK_DEADLOCK FALSE
INVARIANTS
    QuietIsUnseen
