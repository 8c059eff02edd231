CONSTANTS
    Ids = {1, 2, 3}
    NoOrder = NoOrder
    Prices = {1, 2}
    MaxQuantity = 2
    c1 = c1
    c2 = c2
    Clients = {c1, c2}
    NoClient = NoClient
    EnteredBy <- Alternating
    QueueCapacity = 1
    KeySpace = 4
SPECIFICATION EngineSpec
INVARIANTS EngineTypeOK FeedReproducesBook  ClosedIsGone FillsGoToOwner ClearingBalances
PROPERTY ImplementsContract
