\* The main thread and two of the pool, two sockets, one failing accept.
SPECIFICATION FairSocketSpec
CONSTANTS
    Main = Main
    Worker = {w1, w2}
    NoThread = NoThread
    Socket = {1, 2}
    MaxAcceptErrors = 1
CHECK_DEADLOCK FALSE
INVARIANTS
    NoHandlerAfterDestruction
PROPERTIES
    StatusIsTrue
    StopReachesTheTerminal
    AttemptEnds
