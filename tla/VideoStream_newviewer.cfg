CONSTANTS
    None = None
    Rates <- TwoRates
    MaxPictures = 2
    MaxSessions = 2
    MaxChanges = 0
SPECIFICATION Spec
PROPERTIES NewViewerServed
