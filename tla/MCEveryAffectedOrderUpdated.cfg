\* Two orders are enough: one rests, the other trades with a part of it.
SPECIFICATION AdapterSpec
CONSTANTS
    OrderIds = {1, 2}
    MaxOrders = 2
    MaxPrice = 1
    MaxQuantity = 2
    NoOrder = NoOrder
INVARIANTS
    EveryAffectedOrderUpdated
