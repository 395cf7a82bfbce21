SPECIFICATION ReviewSpec
CONSTANTS
    None = None
    NoData = NoData
    Cases <- MCCases
    Storms <- MCStorms
    Amounts <- MCAmounts
    Inputs <- MCInputs
    Rules <- MCRules
    Level <- MCLevel
    Window = 3
    EpisodeGap = 2
    Slot = 1
    StepReview = 2
    RecordLists <- MCRecordLists
    MaxTime = 5
    MaxQuarantine = 1
    MaxRecords = 1
    a = a
    b = b
    Gauges <- MCGauges
    Nothing = Nothing
    HourSlots = 2
    Short = 2
    Long = 3
    KeepSlots = 2
    KeepHourly = 5
    FreshSlots = 1
    FreshHourly = 3
    MaxTick = 7
    SlotsUntil = 4
    Rejected = Rejected
    Before = Before
    Unset = Unset
    Questions <- MCQuestions
    Answers <- MCAnswers
    Closures <- MCClosures
    Delays <- MCDelays
    Clocks <- MCClocks
    MaxWords = 3
SYMMETRY Symmetry
CHECK_DEADLOCK FALSE
INVARIANTS
    TypeOK
    FlagsAgree
    EpisodesTellTheSeason
    MissIffUnseen
    RowTellsItsReasons
    CalmIsSeen
    InputsOnlyRaise
    WindowsAreWhole
    AnalysesKeepToQuestionAndRecord
