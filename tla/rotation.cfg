\* Three requests on one session of two rotations, with a clock that stands still.
SPECIFICATION Spec
CONSTANTS
    Null = Null
    Users = {u1}
    MayDisable = {}
    Requests = {r1, r2, r3}
    SessionIDs = {s1}
    TokenIDs = {t1, t2, t3}
    MaxConns = 3
    DBAhead = 0
    AccessTTL = 2
    RefreshTTL = 3
    TicksPerSecond = 1
    MaxTime = 1
SYMMETRY Interchangeable
INVARIANTS
    TypeOK
    IInv
    OneSpendableToken
    RotationIntact
    LateNeverSucceeds
    LogoutCloses
    NoUniqueViolation
    LoginIntact
PROPERTIES
    NothingReopens
    ImplementsSessionFamily
