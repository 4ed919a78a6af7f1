\* Registrations only.
CONSTANTS
    UserIds = {u1, u2, u3}
    Usernames = {ann, bob}
    Secrets = {dummy, s1}
    DummySecret = dummy
    ExternalIds = {}
    Provider = "CLERK"
    Requests = {r1, r2, r3}
    Null = Null
SPECIFICATION Spec
\* The requests of an instance run out: each is handled once.
CHECK_DEADLOCK FALSE
INVARIANT DuplicateIsConflict
