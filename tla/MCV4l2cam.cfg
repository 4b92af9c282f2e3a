SPECIFICATION LiveSpec
CONSTANTS
    c1 = c1
    Client = {c1, c2}
    Setting <- SomeSettings
    Default <- Start
    Supported = {"qvga", "cif"}
    Requests <- SomeRequests
    MaxFd = 6
    MaxQueue = 2
INVARIANTS TypeOK Serves SettingKnown Descriptors Awaited Fits
PROPERTIES StopsWithTunnel EndsWithCamera
CHECK_DEADLOCK FALSE
