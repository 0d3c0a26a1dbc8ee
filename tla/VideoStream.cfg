CONSTANTS
    None = None
    Rates <- TwoRates
    MaxPictures = 2
    MaxSessions = 2
    MaxChanges = 1
SPECIFICATION Spec
INVARIANTS PacketStable NothingStale NoLostWake
PROPERTIES PicturesInOrder PendingTaken
