SPECIFICATION LiveSpec
CONSTANTS
    Client = {c1}
    Pid = {p1}
    None = None
PROPERTY ExitNoticed
CHECK_DEADLOCK FALSE
