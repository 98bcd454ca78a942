SPECIFICATION SafetySpec

CONSTANTS
    ReportJobs = {r1}
    PhotoJobs = {}
    ForeignJobs = {}
    Workers = {w1}
    NoJob = NoJob
    NoWorker = NoWorker
    MaxAttempts = 2
    RetryBudget = 1
    LeaseTicks = 1
    AttemptBound = 2
    MaxSubmits = 2
    MaxCrashes = 0
    MaxDbErrors = 0

CHECK_DEADLOCK FALSE

INVARIANT ReportsCurrent
