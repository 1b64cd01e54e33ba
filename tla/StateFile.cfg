SPECIFICATION Spec
CONSTANTS
    Byte = 4
    U64 = 2
    U32 = 1
    SaltBytes = 1
    K = 2
    P = 7
    State <- MCState
    Fresh <- FreshState
    Size <- MCSize
    MaxSaves = 3
INVARIANTS
    TypeOK
    NeverTorn
    OnlyWholeFilesLoad
    NothingFromBeyond
PROPERTIES
    SavesAtomically
