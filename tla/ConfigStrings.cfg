SPECIFICATION ConfigSpec
CONSTANTS
    Section = {"s1", "s2"}
    MaxArgc = 4
    Environ = 2
    MaxLines = 7
INVARIANT StringsFit
CHECK_DEADLOCK FALSE
