CONSTANTS
    Makers = {"stack", "pair"}
    Markets <- Moving
    Quantities = {1}
    FairValues = {30, 31}
    tick_size = 2
    min_price = 2
    max_price = 60
    width_in_ticks = 1
    stack_depth = 2
    PositionLimit = 2
    MaxOrders = 3
    MaxFills = 2
    MaxInFlight = 3
    MaxUnsent = 1
SPECIFICATION MakerSpec
INVARIANTS MakerTypeOK  NoOrphans PricesAgree 
CHECK_DEADLOCK FALSE
