\* Two logouts with different tokens of one session.
SPECIFICATION Spec
CONSTANTS
    Null = Null
    Users = {u1}
    MayDisable = {}
    Requests = {r1, r2}
    SessionIDs = {s1}
    TokenIDs = {t1, t2}
    MaxConns = 2
    DBAhead = 0
    AccessTTL = 1
    RefreshTTL = 2
    TicksPerSecond = 1
    MaxTime = 3
SYMMETRY Interchangeable
PROPERTIES
    RevokedAtWrittenOnce
