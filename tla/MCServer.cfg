\* Two health checks over one or two connections, and one or two outages.
CONSTANTS
    Environments <- OneOff
    Checks = {k1, k2}
    PoolSize = 2
    DbTimeout = 2
    MaxQueue = 2
    MaxChanges = 2
    Throws = Throws
    Null = Null
SPECIFICATION FairSpec
CHECK_DEADLOCK FALSE
INVARIANTS
    TypeOK
    UpIsFirstHand
    NoFalseAlarm
    ListeningIsConfigured
    AccessTokensLast
PROPERTIES
    EveryCheckIsAnswered
    RecoversWithTheDatabase
