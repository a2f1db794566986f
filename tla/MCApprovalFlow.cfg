CONSTANTS
    Runner = runner
    Workers = {w1, w2}
    Deciders = {d1}
    MaxApprovals = 2
    MaxIterations = 2
    ResumeTimeout = 1
    PersistTimeout = 0
    StaleAfter = 1
    MaxFailures = 1
SPECIFICATION Spec
SYMMETRY Symmetry
INVARIANTS TypeOK ToolNeedsApproval ToolOncePerClaim
PROPERTIES ResumesAreLeasedJobs ResumedIsFinal CancelledPauseIsFinal
