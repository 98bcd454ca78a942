SPECIFICATION Spec

CONSTANTS
    Threads = {t1}
    MaxRunning = 1
    RetryLimit = 1
    MaxClaims = 2
    MaxRuns = 2
    MaxTouches = 1
    MaxUpsets = 1
    NoThread = NoThread
    Nothing = Nothing
    Partial = Partial
    NoGit = NoGit

INVARIANTS
    OutputIsLastSuccess
    DeletedStaysDeleted
    SuccessMeansConsolidated
    SelectedIsBaseline

PROPERTY
    SuccessAdvances

VIEW Live

CHECK_DEADLOCK FALSE
