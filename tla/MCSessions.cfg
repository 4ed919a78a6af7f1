\* Two clients of one user, whose requests and answers may fail.
CONSTANTS
    Users = {u1}
    Clients = {c1, c2}
    Tokens = {t1, t2, t3}
    Requests = {r1, r2, r3}
    Roles = {ADMIN, USER}
    RefreshLifetime = 1
    AccessLifetime = 1
    MaxTime = 2
    Null = Null
SPECIFICATION SessionsSpec
SYMMETRY Symmetry
CHECK_DEADLOCK FALSE
INVARIANTS
    DemotionTakesEffect
    LogoutTakesEffect
    TearDownHasACause
    HeldTokensStayGood
