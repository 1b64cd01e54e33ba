SPECIFICATION FairSpec
CONSTANTS
    Id = {1, 2}
    M = 2
    UMax = 2
    T = 4
    P = 7
    Salt = {0, 1, 2, 3, 4}
    EpochZero = 0
    Oracle <- MCOracleOfTwo
    Day <- MCDay
    Schedules <- Single
    Forced <- NoForce
    Phi = 2
    Contribution = {0, 1}
    Refreshed <- MCRefreshed
    Masks = {3}
    InitIds <- OneId
    MaxEdits = 1
    MaxSessions = 3
    MaxCrashes = 2
    MaxOffline = 0
    BudgetStops = FALSE
    FailedExchange = {"stop", "untouched"}
INVARIANTS
    AnswerDurable
    PostCheckPasses
    MixedQueriesTellNothing
PROPERTIES
    Implements
    SessionEnds
