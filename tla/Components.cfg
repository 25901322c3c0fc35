SPECIFICATION ComponentsSpec
CONSTANTS
    NumHosts = 2
    PerHost = 1
    Tickets = {t1, t2}
    MaxRuns = 2
    Retried = {i1, i2}
    MaxSchedules = 3
    MaxWorkers = 2
    MaxUsed = 3
    MaxPosted = 3
    CharsPerToken = 2
    MaxChunkTokens = 1
    MaxDepth = 2
    MaxCalls = 5
    MaxTotalTokens = 6
    Fanout = 2
    MaxReduceRounds = 2
    MaxText = 6
    MaxAnswer = 2
    Cards = {a, b}
    PageLength = 1
    MaxPages = 2
    MaxEdits = 2
    MaxReads = 1
    MaxTurns = 2
    Contents = {"a", "b", "bad"}
    Broken = {"bad"}
    NoContent = "none"
    MaxSaves = 4
    MaxSignals = 3
    Sinks = {s1, s2}
    Writers = {w1, w2}
    MaxFailures = 2
    MaxRecords = 1
    Callers = {c1, c2}
    MaxRequests = 3
    Wired = {"coordinator", "hook"}
    MaxHooks = 2
INVARIANTS
    ComponentTypes
    SlotsAreAccounted
    NoInvisibleRerun
    RetryHasWaker
    NothingCountedTwice
    QueryIsHonest
    ReadIsWhole
    SessionSurvivesRestart
    FileIsInForce
    ExitIsClean
    LossIsVisible
    RefreshIsNeverLost
    HookEndsAsTold
    TrackersAgree
    WorkspacesAreApart
PROPERTIES
    OnlyCurrentTimersFire
CHECK_DEADLOCK FALSE
