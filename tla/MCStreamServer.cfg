CONSTANTS
    ClientOf <- TwoOfOne
    Descriptors = {1, 2}
    Kinds = {"login", "order", "unknown", "malformed"}
    BufferUnits = 3
    MaxEvents = 2
    MAX_MSGS_PER_SECOND = 0
    Second = 0
    MaxMessages = 3
    MaxTime = 1
SPECIFICATION ServerSpec
INVARIANTS ServerTypeOK   NoEdgeLost
PROPERTIES LimitedForItsOwn
CHECK_DEADLOCK FALSE
