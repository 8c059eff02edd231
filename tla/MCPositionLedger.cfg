CONSTANTS
    Clients = {1, 2}
    Symbols = {3, 4, 13}
    Fills <- SomeFills
    Word = 8
    MaxFills = 3
    MaxLost = 1
    ETF_SYMBOL = 13
    UNDERLYING_SYMBOLS <- TwoUnderlyings
    Threads = {t1, t2}
    NoThread = NoThread
    Amounts <- AnyAmount
    MaxRequests = 3
SYMMETRY ThreadSymmetry
SPECIFICATION ServiceSpec
INVARIANTS ServiceTypeOK CppFollowsFeed PyCountsArrivals AdjustmentsBalance NothingSpentTwice
CHECK_DEADLOCK FALSE
