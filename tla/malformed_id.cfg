\* A member asks for a product whose id is no uuid.
SPECIFICATION Spec
CONSTANTS
    Null = Null
    Malformed = Malformed
    u1 = u1
    u2 = u2
    o1 = o1
    o2 = o2
    Invalid = {Malformed}
    Emails = {e1}
    Slugs = {s1}
    SKUs = {k1}
    UserIDs = {u1}
    OrganizationIDs = {o1}
    ProductIDs = {p1}
    Requests = {r1}
    MaxConns = 1
    MayGrant = {}
INVARIANTS
    MalformedProductIsInvalidInput
