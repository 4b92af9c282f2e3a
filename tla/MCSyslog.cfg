SPECIFICATION LiveSpec
CONSTANTS
    Client = {c1, c2}
    Requests <- SomeRequests
    MaxQueue = 2
    MaxDatagrams = 3
    None = None
INVARIANTS TypeOK Serves
PROPERTIES Implements StopsWithTunnel
CHECK_DEADLOCK FALSE
