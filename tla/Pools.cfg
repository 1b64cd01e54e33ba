SPECIFICATION FairSpec
CONSTANTS
    PerEvaluation <- MCPerEvaluation
    OtsPerItem <- MCOtsPerItem
    SlackOts = 3
    BatchSize = 2
    MinOts = 10
    InitialSizes <- MCInitialSizes
    Targets = {1, 2}
    MaxQueries = 3
INVARIANTS
    SameCall
    OneMeaning
    Provisioned
PROPERTIES
    FillsEndTogether
