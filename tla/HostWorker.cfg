SPECIFICATION MCSpec
CONSTANTS
    n1 = n1
    n2 = n2
    d1 = d1
    d2 = d2
    Names <- MCNames
    Battery <- MCOneName
    Data <- MCData
    Blank = d1
    NoData = NoData
    NoRom = NoRom
    Torn = Torn
    DirFsync = TRUE
    MaxSeq = 3
INVARIANTS
    PausedMeansSaved
    SkipIsSafe
PROPERTIES
    GameLeavesSaved
    CommandsAnswered
