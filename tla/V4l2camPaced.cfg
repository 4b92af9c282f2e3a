SPECIFICATION Spec
CONSTANTS
    c1 = c1
    Client = {c1, c2}
    Setting <- SomeSettings
    Default <- Start
    Supported = {"qvga", "cif"}
    Requests <- SomeRequests
    MaxFd = 6
    MaxQueue = 2
PROPERTY Paced
CHECK_DEADLOCK FALSE
