\* Two keys of which one may come and one go, and two overlapping exchanges.
CONSTANTS
    k1 = k1
    k2 = k2
    site = site
    sub = sub
    email = email
    Environments <- Settings
    Requests = {r1, r2}
    Keys = {k1, k2}
    Claims = {site, sub, email}
    Tokens <- TokensInUse
    CacheAge = 2
    Cooldown = 1
    MaxRotations = 2
    Throws = Throws
    Null = Null
SPECIFICATION FairSpec
CHECK_DEADLOCK FALSE
INVARIANTS
    OnlyTheProvidersUsers
    RefusalHasACause
PROPERTIES
    RetiredKeysAreForgotten
    EveryExchangeIsAnswered
