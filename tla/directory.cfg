\* Two requests of two users on one organization, and an operator.
SPECIFICATION Spec
CONSTANTS
    Null = Null
    Malformed = Malformed
    u1 = u1
    u2 = u2
    o1 = o1
    o2 = o2
    Invalid = {}
    Emails = {e1, e2}
    Slugs = {s1, s2}
    SKUs = {k1}
    UserIDs = {u1, u2}
    OrganizationIDs = {o1, o2}
    ProductIDs = {p1, p2}
    Requests = {r1, r2}
    MaxConns = 2
    MayGrant <- Guest
SYMMETRY Interchangeable
INVARIANTS
    TypeOK
    NoOrphanOrganization
    KeysUnique
    ConflictMeansTaken
    GrantedWithGrounds
    TenantIsolation
