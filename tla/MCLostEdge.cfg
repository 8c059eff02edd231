CONSTANTS
    ClientOf <- TwoOfOne
    Descriptors = {1, 2}
    Kinds = {"order"}
    BufferUnits = 3
    MaxEvents = 2
    MAX_MSGS_PER_SECOND = 1
    Second = 0
    MaxMessages = 1
    MaxTime = 0
SPECIFICATION ServerSpec
PROPERTY EverythingRead
CHECK_DEADLOCK FALSE
