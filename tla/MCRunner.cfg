SPECIFICATION LiveSpec
CONSTANTS
    N = 3
    Pid = {p1, p2, p3}
INVARIANTS TypeOK ChildrenListed NoneLeft StrangersSafe
PROPERTIES EndsWithServices EndsOnSignal
CHECK_DEADLOCK FALSE
