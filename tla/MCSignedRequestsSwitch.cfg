\* One rotation, and a request in flight.
CONSTANTS
    Callers = {bff, other}
    Trusted = {bff}
    Servers = {api1, api2}
    Messages = {m1}
    Targets = {post, health}
    Exempt = {health}
    Bodies = {b1, b2}
    Redated = {4}
    Window = 1
    MaxSkew = 2
    MaxTime = 5
    MaxVersion = 2
    Null = Null
SPECIFICATION Spec
\* The instance runs out of clock and of messages.
CHECK_DEADLOCK FALSE
SYMMETRY Symmetry
INVARIANT NothingOutlivesTheSwitch
