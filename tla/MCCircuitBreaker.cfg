SPECIFICATION Spec

CONSTANTS
    Callers = {c1, c2, c3}
    c1 = c1
    c2 = c2
    c3 = c3
    Threshold = 3
    Cooldown = 2
    Tries = 3
    CountsAll = FALSE
    FailureCap = 7

INVARIANTS
    TrippedAtThreshold
    OutageCost

PROPERTIES
    CallReturns

