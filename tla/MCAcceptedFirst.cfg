\* One client places an order, the other trades with it.
SPECIFICATION ServerSpec
CONSTANTS
    Client = {1, 2}
    NoClient = 0
    MaxRequests = 2
    OrderIds = {1, 2}
    MaxOrders = 2
    MaxPrice = 1
    MaxQuantity = 1
    NoOrder = NoOrder
INVARIANTS
    AcceptedFirst
