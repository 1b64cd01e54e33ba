SPECIFICATION Spec
CONSTANTS
    Id = {1, 2, 3}
    M = 3
    UMax = 1
    T = 4
    P = 7
    Salt = {0, 1, 2, 3, 4}
    EpochZero = 0
    Oracle <- MCOracle
    Day <- MCDay
    Schedules <- Refreshing
    Forced <- AnyForce
    Phi = 2
    Contribution = {0, 1, 2}
    Refreshed <- MCRefreshed
    Masks = {3}
    InitIds <- OneBase
    MaxEdits = 1
    MaxSessions = 1
    MaxCrashes = 0
    MaxOffline = 0
    BudgetStops = TRUE
    FailedExchange = {"stop", "untouched"}
INVARIANTS
    LocalCoherence
    OneOracle
    CacheCoherent
    HealthyPairFinishes
    DiskCoherent
    MixedQueriesTellNothing
