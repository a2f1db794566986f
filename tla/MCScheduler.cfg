SPECIFICATION FairSpec
CONSTANTS
    Replicas = {r1, r2}
    Dispatches = {d1, d2}
    Kinds = {"once", "cron", "interval"}
    Caps = {0, 2}
    Interval = 1
    MaxFailures = 1
    MaxEdits = 1
CHECK_DEADLOCK FALSE
INVARIANT TypeOK
PROPERTIES
    DispatchOnlyDue
    CompletedAtCap
    DueIsTaken
    BoundedStops
