\* Two clients, two orders and a third request, which cancels or asks for the
\* metrics.  The terminal is that of client 1.
SPECIFICATION TerminalSpec
CONSTANTS
    Client = {1, 2}
    NoClient = 0
    Viewer = 1
    MaxListed = 2
    MaxShown = 2
    MaxRequests = 3
    OrderIds = {1, 2}
    MaxOrders = 2
    MaxPrice = 1
    MaxQuantity = 2
    NoOrder = NoOrder
INVARIANTS
    OnlyOwnOrders
    NeverUnderstates
    TradesShownOnce
PROPERTIES
    GoneMeansCancelled
