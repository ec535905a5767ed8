\* One order: its acceptance and the book can be one render.
SPECIFICATION TerminalSpec
CONSTANTS
    Client = {1, 2}
    NoClient = 0
    Viewer = 1
    MaxListed = 2
    MaxShown = 2
    MaxRequests = 1
    OrderIds = {1}
    MaxOrders = 1
    MaxPrice = 1
    MaxQuantity = 1
    NoOrder = NoOrder
INVARIANTS
    AcceptedOrderListed
