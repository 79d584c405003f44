\* A session expires between the check of its state and the issue of a pair.
SPECIFICATION Spec
CONSTANTS
    Null = Null
    Users = {u1}
    MayDisable = {}
    Requests = {r1}
    SessionIDs = {s1}
    TokenIDs = {t1, t2}
    MaxConns = 2
    DBAhead = 0
    AccessTTL = 1
    RefreshTTL = 2
    TicksPerSecond = 1
    MaxTime = 4
SYMMETRY Interchangeable
INVARIANTS
    ExpiredSessionIsInvalidToken
