\* One client that places an order and cancels it.
SPECIFICATION ServerSpec
CONSTANTS
    MaxPrice     = 1
    MaxQuantity  = 1
    MaxOrders    = 1
    OrderIds     = {1}
    NoOrder      = NoOrder
    Client       = {1}
    NoClient     = 0
    MaxRequests  = 2
INVARIANTS
    CancelsCounted
