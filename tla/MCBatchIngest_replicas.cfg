SPECIFICATION Spec

CONSTANTS
    Items = {i1}
    Students = {s1, s2}
    Processes = {p1, p2}
    Handlers = {h1}
    Slots = {k1}
    i1 = i1
    s1 = s1
    s2 = s2
    p1 = p1
    p2 = p2
    k1 = k1
    h1 = h1
    NoItem = NoItem
    NoStudent = NoStudent
    SlowCalls = TRUE
    DbOutages = TRUE
    MaxRequests = 3
    MaxCrashes = 1

INVARIANTS
    QueuedHasFile
    OneSheetOneResponse

PROPERTIES
    NoParsingOrphan

