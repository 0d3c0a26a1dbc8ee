SPECIFICATION Spec
CONSTANTS
    d1 = d1
    d2 = d2
    c1 = c1
    c2 = c2
    c3 = c3
    n1 = n1
    n2 = n2
    rom = rom
    None = None
    Unreadable = Unreadable
    Daemons = {d1, d2}
    Clients <- MCClients
    Server <- MCServer
    Names <- MCNames
    Bodies = {rom}
    Length <- MCLength
    Valid = {rom}
    Pids = {1, 2}
    Attempts = 2
    Quota = 3
    Capacity = 5
    MinFree = 1
SYMMETRY MCSymmetry
INVARIANTS
    NoPartialRom
    TempsMatchUploads
PROPERTIES
    CommitWithinLimits
    AnswerHonest
