\* A refresh in the last half second of a session.
SPECIFICATION Spec
CONSTANTS
    Null = Null
    Users = {u1}
    MayDisable = {}
    Requests = {r1}
    SessionIDs = {s1}
    TokenIDs = {t1, t2}
    MaxConns = 2
    DBAhead = 0
    AccessTTL = 2
    RefreshTTL = 3
    TicksPerSecond = 2
    MaxTime = 5
SYMMETRY Interchangeable
INVARIANTS
    IssuedAccessTokenVerifies
