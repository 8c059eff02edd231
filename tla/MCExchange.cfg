\* Queues of two let both threads wait for each other: MCExchangeLiveness.cfg is about that.
CONSTANTS
    Sockets = {s1, s2}
    NoSocket = NoSocket
    Clients = {c1, c2}
    NoClient = NoClient
    OrderIds = {a}
    MaxOrders = 2
    MaxBatch = 3
    QueueCapacity = 2
    ReuseUnclosed = FALSE
    LoginTwice = FALSE
SPECIFICATION ExchangeSpec
SYMMETRY Symmetry
INVARIANTS ExchangeTypeOK SessionsAgree SessionsAreConnected OpenOrdersTracked TrackedOrdersOpen EndedOrdersCancelled
CHECK_DEADLOCK FALSE
