SPECIFICATION LiveSpec
CONSTANTS
    Client = {c1, c2, c3}
    User = {u1, u2}
    Group = {g1}
    Handle = {h1, h2}
    NoHandle = NoHandle
    NoUser = NoUser
INVARIANTS TypeOK HandlesOwned OneHandlePerUser ViewExact
PROPERTIES Implements StopsWithTunnel
CHECK_DEADLOCK FALSE
