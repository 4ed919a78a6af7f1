\* One session, a refresh in flight, and a logout from everywhere.
CONSTANTS
    Users = {u1}
    Tokens = {t1, t2, t3}
    Requests = {r1, r2, r3}
    RefreshLifetime = 1
    MaxTime = 1
    Null = Null
SPECIFICATION Spec
SYMMETRY Symmetry
INVARIANT SweepEndsEverySession
