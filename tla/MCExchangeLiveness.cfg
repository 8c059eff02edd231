\* A deadlock would be a violation of HandlersReturn.
CONSTANTS
    Sockets = {s1, s2}
    NoSocket = NoSocket
    Clients = {c1}
    NoClient = NoClient
    OrderIds = {a}
    MaxOrders = 1
    MaxBatch = 3
    QueueCapacity = 3
    ReuseUnclosed = FALSE
    LoginTwice = FALSE
SPECIFICATION ExchangeSpec
PROPERTIES  CancelledOnDisconnect
CHECK_DEADLOCK FALSE
