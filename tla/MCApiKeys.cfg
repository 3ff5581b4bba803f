\* Four keys, two requests in flight, two policies, two days (0 and 1).
SPECIFICATION Spec
CONSTANTS
    KeyIds = {k1, k2, k3, k4}
    Requests = {h1, h2}
    Policies <- MCPolicies
    MaxKeys = 1
    MaxTime = 1
    None = None
SYMMETRY MCSymmetry
INVARIANTS TypeOK IssuedWithinLimit CurrentWithinLimit GraceIsKept
PROPERTIES DeadStaysDead IssuedToActive KeyRingKept
