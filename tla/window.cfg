\* Two requests, one rotation, and a clock of half seconds that runs until the
\* session a login opened at the start has expired.
SPECIFICATION Spec
CONSTANTS
    Null = Null
    Users = {u1}
    MayDisable = {}
    Requests = {r1, r2}
    SessionIDs = {s1}
    TokenIDs = {t1, t2}
    MaxConns = 2
    DBAhead = 0
    AccessTTL = 2
    RefreshTTL = 3
    TicksPerSecond = 2
    MaxTime = 5
SYMMETRY Interchangeable
INVARIANTS
    SessionWindow
    NoClockViolation
