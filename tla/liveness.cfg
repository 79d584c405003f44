\* Two requests, each with a connection, contend for the rows of one session, of a
\* user who may be disabled meanwhile; the requests that can go on do go on.
SPECIFICATION FairSpec
CONSTANTS
    Null = Null
    Users = {u1}
    MayDisable = {u1}
    Requests = {r1, r2}
    SessionIDs = {s1}
    TokenIDs = {t1, t2}
    MaxConns = 2
    DBAhead = 0
    AccessTTL = 1
    RefreshTTL = 2
    TicksPerSecond = 1
    MaxTime = 1
INVARIANTS
    SafetyInv
    LateNeverSucceeds
PROPERTIES
    EveryRequestAnswered
