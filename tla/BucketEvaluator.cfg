SPECIFICATION Spec
CONSTANTS
    Base = 128
    WordSize = 1024
    Factors = {2, 3, 7}
    IdLimit = 64
    Sides <- MCSides
    Batches = {1, 2}
    Seeds = {0, 1}
    Dealt <- MCDealt
    Mask <- MCMask
    Leaf <- MCLeaf
    Capacity = 1
    DigitBits = 2
    TopDigitBits = 1
INVARIANTS
    TypeOK
    RoundsOpen
    ExactBudget
    NeverBothBlocked
PROPERTIES
    Evaluates
