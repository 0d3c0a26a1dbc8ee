SPECIFICATION Spec
CONSTANTS
    s1 = s1
    s2 = s2
    m1 = m1
    m2 = m2
    m3 = m3
    r1 = r1
    r2 = r2
    Slots <- MCSlots
    Machines <- MCMachines
    Ram <- MCRam
    Fresh <- MCFresh
    NoFile = NoFile
    Unknown = Unknown
    Quota = 3
    MaxOps = 3
    MaxRestarts = 1
INVARIANTS
    NoTornState
    DurableIsStable
    WithinQuota
PROPERTIES
    LoadAllOrNothing
    SaveAllOrNothing
CHECK_DEADLOCK FALSE
