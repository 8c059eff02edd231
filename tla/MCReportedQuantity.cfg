CONSTANTS
    Ids = {o1, o2}
    NoOrder = NoOrder
    Prices = {1}
    MaxQuantity = 2
SPECIFICATION Spec
INVARIANT ReportedQuantityRests
