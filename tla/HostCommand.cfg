SPECIFICATION FairSpec
CONSTANTS
    c1 = c1
    c2 = c2
    Callers <- MCCallers
    NoCaller = NoCaller
    Outcomes <- MCOutcomes
    MaxCalls = 2
    MaxWakes = 2
INVARIANTS
    BuffersLive
    StatusBetweenCommands
PROPERTIES
    OwnResult
    CallsReturn
    ViewersNoticed
CHECK_DEADLOCK FALSE
