\* A session that is logged out of, and its token presented again.
CONSTANTS
    Users = {u1}
    Tokens = {t1, t2, t3}
    Requests = {r1, r2, r3}
    RefreshLifetime = 1
    MaxTime = 1
    Null = Null
SPECIFICATION Spec
SYMMETRY Symmetry
INVARIANT ReuseMeansRotated
