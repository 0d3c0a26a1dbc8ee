CONSTANTS
    None = None
    AudioSlots = 1
    AudioLimit = 1
    Durations <- JustOne
    MaxSeq = 2
    MaxPings = 0
    MaxAudio = 1
    MaxEvents = 2
SPECIFICATION Spec
PROPERTIES ClosingEnds HeartbeatAcked
