CONSTANTS
    Random = Random
    o1 = o1
    c1 = c1
    demo = demo
    a80 = a80
    a90 = a90
    Openers = {o1}
    Closers = {c1}
    Wanted <- Ephemeral
    Files <- PersistentFiles
    MaxSessions = 2
    MaxTunnels = 4
    MaxRestarts = 1

SPECIFICATION Spec

INVARIANTS
    TunnelsTypeOK
    Reannounced
    Restored
    ServedWhileUp
PROPERTIES
    UrlKept
    ClosedOrListed
CHECK_DEADLOCK FALSE
