SPECIFICATION Spec
CONSTANTS
    Base = 128
    WordSize = 1024
    Factors = {2, 3, 7}
    IdLimit = 64
    Id = {0, 1, 2, 5, 21, 42, 63}
    MaxLoad = 7
INVARIANTS
    RowsTell
    MinorsTell
