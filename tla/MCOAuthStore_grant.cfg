SPECIFICATION Spec
CONSTANTS
    r1 = r1
    r2 = r2
    r3 = r3
    r4 = r4
    c1 = c1
    c2 = c2
    Requests = {r1, r2, r3, r4}
    Codes = {c1, c2}
    None = None
SYMMETRY Interchangeable
INVARIANTS OneEnd ReplayReachesExchange RevokedForCause
PROPERTY ImplementsGrants
CHECK_DEADLOCK FALSE
