SPECIFICATION LiveSpec
CONSTANTS
    c1 = c1
    c2 = c2
    p1 = p1
    p2 = p2
    Client = {c1, c2}
    Path = {p1, p2}
    Hash = {1, 2}
    Fd = {f1, f2}
    None = None
    Requests <- SomeRequests
    Setups <- SomeSetups
    MaxQueue = 2
    Capacity = 1
    MaxItems = 2
INVARIANTS TypeOK Serves Reachable
PROPERTIES Implements StopsWithTunnel
CHECK_DEADLOCK FALSE
