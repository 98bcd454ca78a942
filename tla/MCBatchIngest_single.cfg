SPECIFICATION Spec

CONSTANTS
    Items = {i1, i2}
    Students = {s1, s2}
    Processes = {p1}
    Handlers = {h1, h2}
    Slots = {k1, k2}
    i1 = i1
    i2 = i2
    s1 = s1
    s2 = s2
    p1 = p1
    k1 = k1
    k2 = k2
    h1 = h1
    h2 = h2
    NoItem = NoItem
    NoStudent = NoStudent
    SlowCalls = FALSE
    DbOutages = FALSE
    MaxRequests = 2
    MaxCrashes = 1

INVARIANTS
    MatchedHasResponse
    DuplicateMeansOther

PROPERTIES
    ItemSettles
    JobCloses
