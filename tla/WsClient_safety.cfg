CONSTANTS
    None = None
    AudioSlots = 2
    AudioLimit = 2
    Durations <- OneOrTwo
    MaxSeq = 2
    MaxPings = 1
    MaxAudio = 3
    MaxEvents = 2
SPECIFICATION Spec
INVARIANTS CloseIsLast InputJustified
PROPERTIES SentInOrder
