CONSTANTS
    Window = 1
    MaxBody = 2
    MaxData = 2
    Transports = {"quic", "h2"}

SPECIFICATION FairSpec

PROPERTIES
    EndsWhenBothClosed
CHECK_DEADLOCK FALSE
