SPECIFICATION FairSpec
CONSTANTS
    Emitter = emitter
    Pollers = {p1, p2}
    MaxAttempts = 6
    Backoff = 3
    Lease = 6
    Timeout = 1
    QueueDelay = 4
    MaxFailures = 2
    MaxEdits = 2
CHECK_DEADLOCK FALSE
INVARIANTS
    TypeOK
    PostsBounded
PROPERTIES
    SucceededIsFinal
    DeliveryIsLeasedJob
    DeliveryEnds
