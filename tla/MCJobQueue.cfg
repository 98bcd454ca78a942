SPECIFICATION Spec

CONSTANTS
    ReportJobs = {r1}
    PhotoJobs = {}
    ForeignJobs = {}
    Workers = {w1, w2}
    NoJob = NoJob
    NoWorker = NoWorker
    MaxAttempts = 2
    RetryBudget = 1
    LeaseTicks = 2
    AttemptBound = 3
    MaxSubmits = 2
    MaxCrashes = 2
    MaxDbErrors = 1

CHECK_DEADLOCK FALSE

INVARIANTS
    ExactlyOnceEffect
    TriggerAfterPublish
    AttemptBudget

PROPERTIES
    LeaseRespected
    ImplementsContract
    Settles
