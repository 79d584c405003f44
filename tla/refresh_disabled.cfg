\* A user is disabled while holding a refresh token.
SPECIFICATION Spec
CONSTANTS
    Null = Null
    Users = {u1}
    MayDisable = {u1}
    Requests = {r1}
    SessionIDs = {s1}
    TokenIDs = {t1, t2}
    MaxConns = 2
    DBAhead = 0
    AccessTTL = 1
    RefreshTTL = 2
    TicksPerSecond = 1
    MaxTime = 1
SYMMETRY Interchangeable
INVARIANTS
    RefreshAnswersAsDocumented
