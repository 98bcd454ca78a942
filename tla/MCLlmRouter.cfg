SPECIFICATION Spec

CONSTANTS
    t1 = t1
    t2 = t2
    v1 = v1
    Requests = {t1, t2, v1}
    MaxOpen = 2
    Capabilities = {"text", "vision"}
    CapOf <- MCCapOf
    Estimates = {1, 3}
    NKeys = 2
    NoKey = NoKey
    MaxConcurrency = 2
    KeyConcurrency = 1
    CapLimit <- MCCapLimit
    KeyRpm = 1
    KeyTpm = 2
    QueueWait = 2
    Window = 2
    CircuitCooldown = 1
    CircuitThreshold = 2
    Retries = 1

CHECK_DEADLOCK FALSE

INVARIANTS
    InFlightExact
    BoundedCalls
    NoLostWakeup

PROPERTIES
    Answered
