SPECIFICATION FairSpec
CONSTANTS
    Replicas = {r1, r2}
    Refs = {0, 1}
    MaxScans = 2
    MaxConcurrent = 1
    MaxRequests = 2
    ScopeTime = 1
    MaxRestarts = 1
    EngagementRetries = 1
    MaxPollAttempts = 2
    Backoff = 2
    MaxBackoff = 3
    Interval = 3
    Timeout = 1
    QueueDelay = 0
    RuntimeCap = 4
    MaxFailures = 1
    MaxCancels = 1
CHECK_DEADLOCK FALSE
INVARIANTS
    TypeOK
    OneScanPerRef
    FindingsOnce
    CompletedIsQuiet
PROPERTIES
    VerdictIsFinal
    RunIsLeasedJob
    RunEnds
