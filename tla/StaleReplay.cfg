SPECIFICATION Spec
CONSTANTS
    Id = {1, 2, 3}
    M = 3
    UMax = 1
    T = 4
    P = 7
    Salt = {0, 1, 2, 3, 4}
    EpochZero = 0
    Oracle <- MCOracle
    Day <- MCDay
    Schedules <- Pairs
    Forced <- NoForce
    Phi = 0
    Contribution = {0, 1}
    Refreshed <- MCRefreshed
    Masks = {3}
    InitIds <- OneBase
    MaxEdits = 1
    MaxSessions = 2
    MaxCrashes = 1
    MaxOffline = 0
    BudgetStops = FALSE
    FailedExchange = {"stop"}
INVARIANTS
    CountCorrect
