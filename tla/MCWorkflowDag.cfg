SPECIFICATION FairSpec
CONSTANTS
    Steps = {s1, s2, s3}
    MaxFailures = 1
CHECK_DEADLOCK FALSE
INVARIANTS
    TypeOK
    PrereqOutputsSeen
    StuckOnlyOnCycle
PROPERTIES
    RunIsOrdered
    AcyclicRunFinishes
