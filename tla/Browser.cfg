SPECIFICATION Spec
CONSTANTS
    Sockets <- MCSockets
    None = None
INVARIANTS
    OneConnection
    ButtonsKnown
PROPERTIES
    Reconnects
