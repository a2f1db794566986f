SPECIFICATION Spec
CONSTANTS
    Emitter = emitter
    Pollers = {p1, p2}
    MaxAttempts = 6
    Backoff = 3
    Lease = 6
    Timeout = 1
    QueueDelay = 49
    MaxFailures = 0
    MaxEdits = 0
CHECK_DEADLOCK FALSE
PROPERTY SucceededIsFinal
