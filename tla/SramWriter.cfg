SPECIFICATION Spec
CONSTANTS
    n1 = n1
    n2 = n2
    d1 = d1
    d2 = d2
    Names <- MCNames
    Data <- MCData
    NoData = NoData
    Torn = Torn
    DirFsync = TRUE
    MaxSeq = 3
INVARIANTS
    AcknowledgedIsDurable
    NoTornFile
    NeverSuperseded
    ExitDrained
PROPERTIES
    ImplementsDurableStore
