SPECIFICATION Spec
CONSTANTS
    Base = 32
    WordSize = 256
    DigitBits = 1
    TopDigitBits = 2
    Count = 2
    Halves = {0, 13, 31}
    Shares = {0, 11}
    Slack = 1
    MaxResample = 3
    MinOts = 16
INVARIANTS
    GatesSound
    SameOts
    SlackSuffices
