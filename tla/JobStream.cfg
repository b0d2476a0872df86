\* Two deliveries one after the other, two connections.
SPECIFICATION FairStreamSpec
CONSTANTS
    MaxDeliveries = 2
    MaxEvents = 2
    MaxConns = 2
    Overlap = FALSE
CHECK_DEADLOCK FALSE
INVARIANTS
    ReplayIsExact
PROPERTIES
    VerdictIsSeen
    EveryLoopCloses
