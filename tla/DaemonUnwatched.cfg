CONSTANTS
    None = None
    a1 = a1
    Callers = {}
    Closers = {}
    MaxAttempts = 2
    MaxSeq = 4

SPECIFICATION FairSpec

PROPERTIES
    UnwatchedEnds
CHECK_DEADLOCK FALSE
