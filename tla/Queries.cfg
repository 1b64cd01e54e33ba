SPECIFICATION Spec
CONSTANTS
    Id = {1, 2, 3}
    M = 3
    UMax = 1
    T = 1
    P = 7
    Salt = {0, 1, 2, 3, 4}
    EpochZero = 0
    Oracle <- MCCollide
    Day <- MCDay
    Schedules <- Asking
    Forced <- NoForce
    Phi = 0
    Contribution = {0, 1}
    Refreshed <- MCRefreshed
    Masks = {1, 3}
    InitIds <- ApartBases
    MaxEdits = 1
    MaxSessions = 1
    MaxCrashes = 0
    MaxOffline = 0
    BudgetStops = TRUE
    FailedExchange = {"stop", "untouched"}
INVARIANTS
    TypeOK
    CacheCoherent
    CountCorrect
    Lockstep
