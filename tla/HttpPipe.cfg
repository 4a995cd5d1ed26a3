CONSTANTS
    Window = 1
    MaxBody = 2
    MaxData = 2
    Transports = {"quic", "h2"}

SPECIFICATION FairSpec

INVARIANTS
    PipeTypeOK
PROPERTIES
    AnsweredEnds
    DaemonFollows
    GatewayFollows
CHECK_DEADLOCK FALSE
