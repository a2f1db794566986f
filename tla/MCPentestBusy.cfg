SPECIFICATION Spec
CONSTANTS
    Replicas = {r1}
    Refs = {0, 1}
    MaxScans = 2
    MaxConcurrent = 1
    MaxRequests = 2
    ScopeTime = 1
    MaxRestarts = 1
    EngagementRetries = 1
    MaxPollAttempts = 2
    Backoff = 2
    MaxBackoff = 2
    Interval = 3
    Timeout = 1
    QueueDelay = 0
    RuntimeCap = 4
    MaxFailures = 0
    MaxCancels = 0
CHECK_DEADLOCK FALSE
INVARIANT BusyIsRetried
