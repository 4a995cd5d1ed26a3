CONSTANTS
    None = None
    Truncated = Truncated
    Corrupt = Corrupt
    u1 = u1
    t1 = t1
    t2 = t2
    d1 = d1
    d2 = d2
    r1 = r1
    r2 = r2
    c1 = c1
    Files = {"users", "tokens", "devices"}
    Procs = {"gateway", "admin"}
    Users = {u1}
    Tokens = {t1, t2}
    Devices = {d1, d2}
    Requests = {r1, r2}
    Checks = {c1}
    DefaultDevices = 1
    MaxDevices = 2

SPECIFICATION Spec
SYMMETRY Symm

INVARIANTS
    IdTypeOK
    IntactUnlessContended
    TokenOnce
    DeviceQuota
    RevokedUserOut
PROPERTY NothingUndone
CHECK_DEADLOCK FALSE
