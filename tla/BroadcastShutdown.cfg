SPECIFICATION Spec
CONSTANTS
    Client = {c1, c2}
    User = {u1, u2}
    Group = {g1}
    Handle = {h1, h2}
    NoHandle = NoHandle
    NoUser = NoUser
INVARIANT UnsubscribesAll
CHECK_DEADLOCK FALSE
