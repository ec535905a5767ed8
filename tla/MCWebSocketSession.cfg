\* Two clients, of which one may leave, make two requests without an event, or
\* one with an event.  No symmetry, because a property is temporal.
SPECIFICATION FairSessionSpec
CONSTANTS
    c1 = c1
    c2 = c2
    Session = {c1, c2}
    MaxRequests = 2
    MaxLoad = 2
    MaxLeavers = 1
    EventCounts = {0, 1}
CHECK_DEADLOCK FALSE
INVARIANTS
    SessionTypeOK
    WriteWhileQueued
    DeliveredInOrder
    ChangesAnnounced
    ReplyFirst
    BookShownToAll
    RegisteredWhileOpen
PROPERTIES
    EveryPostDelivered
