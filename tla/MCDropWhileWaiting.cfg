CONSTANTS
    SymbolRow <- OneAndTwo
    OrdersPerDatagram = 1
    LoseSnapshots = FALSE
    MaxDrops = 1
    Scenarios <- QuietOnly
SPECIFICATION FeedSpec
INVARIANT WaitRecovers
CHECK_DEADLOCK FALSE
