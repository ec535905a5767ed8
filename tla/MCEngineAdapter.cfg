\* Four orders of every kind: two sides, two types, two prices, quantities 1
\* and 2.  A taker can fill one order, a part of the next, and be filled,
\* partly filled or not at all itself.
SPECIFICATION FairAdapterSpec
CONSTANTS
    OrderIds = {1, 2, 3, 4}
    MaxOrders = 4
    MaxPrice = 2
    MaxQuantity = 2
    NoOrder = NoOrder
INVARIANTS
    EngineTypeOK
    NotCrossed
    QuantityConserved
    EventsReportTheCall
    ResultIsTrue
    RejectedLeavesNoTrace
    UpdatesAreTrue
PROPERTIES
    PriceTimePriority
    CancelResultIsTrue
    UsesEngine
    PlaceOrderReturns
