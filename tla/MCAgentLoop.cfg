SPECIFICATION MCSpec
CONSTANTS
    Keys <- MCKeys
    Computing <- MCComputing
    Timeline <- MCTimeline
    HintLists <- MCHintLists
    MaxCalls = 3
    MaxSteps = 5
    Pages <- MCPages
    Paths <- MCPaths
    Chats = {"now", "osong", "seoul"}
    Board = "watch"
    NoChat = "none"
    Before <- MCBefore
    After <- MCAfter
    Optional <- MCOptional
    Fresh = {"decisions"}
    ChatOf <- MCChatOf
    Nil = Nil
    MaxNav = 3
    MaxAsks = 3
    Cases = {"osong", "seoul"}
    Mapped = {"osong"}
    Registry = "registry"
    Steps = 2
    Tabs = {"now", "backtest"}
    Times = {740, 820}
    Values = {1, 2, 3}
    None = None
    MaxSelections = 2
    MaxPolls = 2
    MaxQuestions = 2
    Says <- MCSays
    Calls <- MCCalls
    ActualTime <- MCActual
    BaseClosure = 507
    Recorded = {453, 1420}
    TurnsKept = 2
CHECK_DEADLOCK FALSE
INVARIANTS
    TypeOK
    NoToolRunTwice
    AnsweredIsComputed
    RequestedOnce
    PagesShowWhatIsAsked
    FollowUpsKnowTheTurns
    FollowUpsKeepTheirSource
PROPERTIES
    Answered
