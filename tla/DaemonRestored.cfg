CONSTANTS
    Random = Random
    o1 = o1
    c1 = c1
    demo = demo
    a80 = a80
    a90 = a90
    Openers = {o1}
    Closers = {c1}
    Wanted <- RandomOnly
    Files <- FreshFile
    MaxSessions = 2
    MaxTunnels = 4
    MaxRestarts = 1

SPECIFICATION Spec

PROPERTIES
    ClosedStaysClosed
CHECK_DEADLOCK FALSE
