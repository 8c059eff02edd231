CONSTANTS
    SymbolRow <- OneAndTwo
    OrdersPerDatagram = 1
    LoseSnapshots = FALSE
    MaxDrops = 1
    Scenarios <- Both
SPECIFICATION FeedSpec
INVARIANTS FeedTypeOK  SnapshotIsCurrent
PROPERTY NeverBack
CHECK_DEADLOCK FALSE
