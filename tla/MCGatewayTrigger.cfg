SPECIFICATION Spec

CONSTANTS
    Reqs = {q1, q2, q3}
    e1 = e1
    e2 = e2
    class1 = class1
    class2 = class2
    Exams = {e1, e2}
    Classes = {class1, class2}
    ClassOf <- MCClassOf
    None = None
    MaxProcs = 3
    MaxFaults = 2

INVARIANTS
    TurnOnce
    SingleFlight

PROPERTIES
    ThreadKept
    Answered

CHECK_DEADLOCK FALSE
