SPECIFICATION Spec
CONSTANTS
    Base = 8
    WordSize = 32
    Count = 2
    OlePerCallOts = 3
    Samples = {0, 13, 31}
    OtPools <- MCOtPools
    Seeds = {0, 1, 2}
INVARIANTS
    TriplesMultiply
    EndsOnlyOnP
