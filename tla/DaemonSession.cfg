CONSTANTS
    None = None
    a1 = a1
    Callers = {a1}
    Closers = {a1}
    MaxAttempts = 2
    MaxSeq = 3

SPECIFICATION FairSpec

INVARIANTS
    SessionTypeOK
    AnswerIsOwn
    ControlIsCurrent
PROPERTIES
    KeepalivesEnd
    Reconnects
CHECK_DEADLOCK FALSE
