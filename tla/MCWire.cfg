SPECIFICATION LiveSpec
CONSTANTS
    Messages <- SomeMessages
    MaxSent = 3
    Capacity = 5
INVARIANTS TypeOK Framed
PROPERTIES Implements ArrivesOrFails
CHECK_DEADLOCK FALSE
