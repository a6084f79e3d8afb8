SPECIFICATION MCSpec
CONSTANTS
    Callers = {c1, c2, c3, c4}
    Limit = 2
    Blocks = 3
INVARIANTS
    PermitsBounded
    QueueIsWaiters
    NoIdlePermit
    ResourcesReleased
    AnsweredOnce
    DeliveredWhole
PROPERTIES
    GrantsInOrder
    GatewayEnds
CHECK_DEADLOCK FALSE
