\* Two clients change the book at the same time.
SPECIFICATION SessionSpec
CONSTANTS
    c1 = c1
    c2 = c2
    Session = {c1, c2}
    MaxRequests = 2
    MaxLoad = 2
    MaxLeavers = 0
    EventCounts = {0}
SYMMETRY SessionSymmetry
CHECK_DEADLOCK FALSE
INVARIANTS
    LastBookIsCurrent
