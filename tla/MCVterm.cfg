SPECIFICATION LiveSpec
CONSTANTS
    Client = {c1, c2}
    Pid = {p1, p2}
    None = None
INVARIANTS TypeOK ChildrenHeld SubscribersServed
PROPERTY StopsWithTunnel
CHECK_DEADLOCK FALSE
