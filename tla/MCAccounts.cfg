\* Three requests that may all want one of two names, with two identities.
CONSTANTS
    UserIds = {u1, u2, u3}
    Usernames = {ann, bob}
    Secrets = {dummy, s1}
    DummySecret = dummy
    ExternalIds = {e1, e2}
    Provider = "CLERK"
    Requests = {r1, r2, r3}
    Null = Null
SPECIFICATION Spec
\* The requests of an instance run out: each is handled once.
CHECK_DEADLOCK FALSE
SYMMETRY Symmetry
INVARIANTS
    TypeOK
    SessionsProveIdentity
    RegistrationsAreDistinct
    ExternalIdentityKeepsItsRow
    OneWayIn
    CutOffRegistrationsCanLogIn
PROPERTIES
    LoginsOnlyRefreshNames
