SPECIFICATION Spec

CONSTANTS
    Reqs = {q1, q2}
    e1 = e1
    e2 = e2
    class1 = class1
    class2 = class2
    Exams = {e1, e2}
    Classes = {class1, class2}
    ClassOf <- MCClassOf
    None = None
    MaxProcs = 2
    MaxFaults = 1

INVARIANT
    OncePerDay

CHECK_DEADLOCK FALSE
