\* Two users and three requests: two sessions, or one and two refreshes of it.
\* No symmetry: one of the properties is a liveness property.
CONSTANTS
    Users = {u1, u2}
    Tokens = {t1, t2, t3}
    Requests = {r1, r2, r3}
    RefreshLifetime = 1
    MaxTime = 2
    Null = Null
SPECIFICATION FairSpec
INVARIANTS
    TypeOK
    OneLiveTokenPerSession
    EachTokenIsRotatedOnce
    ReplayStaysDetectable
    AnsweredRotationIsChained
    EndedSessionsStayEnded
PROPERTIES
    DeadTokensStayDead
    RevocationStaysWithinOneUser
    ImplementsLedger
    ExpiredRowsAreRemoved
