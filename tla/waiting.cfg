\* Three requests share two connections: two users want one email, two
\* organizations one slug.
SPECIFICATION FairSpec
CONSTANTS
    Null = Null
    Malformed = Malformed
    u1 = u1
    u2 = u2
    o1 = o1
    o2 = o2
    Invalid = {}
    Emails = {e1}
    Slugs = {s1}
    SKUs = {}
    UserIDs = {u1, u2}
    OrganizationIDs = {o1, o2}
    ProductIDs = {}
    Requests = {r1, r2, r3}
    MaxConns = 2
    MayGrant = {}
PROPERTIES
    EveryRequestAnswered
