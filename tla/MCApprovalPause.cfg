CONSTANTS
    Runner = runner
    Workers = {w1, w2}
    Deciders = {d1}
    MaxApprovals = 1
    MaxIterations = 1
    ResumeTimeout = 1
    PersistTimeout = 1
    StaleAfter = 2
    MaxFailures = 0
SPECIFICATION Spec
INVARIANT PauseIsNotTerminal
