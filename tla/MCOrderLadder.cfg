CONSTANTS
    Ids = {o1, o2, o3, o4}
    NoOrder = NoOrder
    Prices = {1, 2, 3}
    MaxQuantity = 2
SPECIFICATION Spec
SYMMETRY Symmetry
INVARIANTS TypeOK Uncrossed RestingIsOpen WellLinked NeverThrows
PROPERTY ImplementsPriceTime
