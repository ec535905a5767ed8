\* Four orders, three prices, quantities 1 and 2.
SPECIFICATION BookSpec
CONSTANTS
    o1 = o1
    o2 = o2
    o3 = o3
    o4 = o4
    OrderIds = {o1, o2, o3, o4}
    MaxPrice = 3
    MaxQuantity = 2
SYMMETRY IdSymmetry
INVARIANTS
    BookTypeOK
    NoEmptyLevel
    IndexConsistent
    DepthIsAggregate
PROPERTIES
    QueueOrderKept
    OthersUntouched
