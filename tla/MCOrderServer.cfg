\* Two clients and three requests of any kind, so that a call can have two
\* trades and two handlers can run at once.
SPECIFICATION ServerSpec
CONSTANTS
    Client = {1, 2}
    NoClient = 0
    MaxRequests = 3
    OrderIds = {1, 2, 3}
    MaxOrders = 3
    MaxPrice = 1
    MaxQuantity = 2
    NoOrder = NoOrder
INVARIANTS
    EngineExclusive
    MetricsAgree
    MetricsBetween
    MetricsReplyCovers
    OutcomeTold
