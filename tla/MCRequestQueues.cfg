SPECIFICATION Spec

CONSTANTS
    MaxRequests = 3
    Conns = {c1}
    Shared = {config}
    Owned = {proc}
    NoConn = NoConn
    NoKey = NoKey
    NoTask = NoTask
    MaxPanics = 1

INVARIANTS
    OneDrainPerQueue
    NothingAfterCleanup

PROPERTIES
    ImplementsSerialAccess
    Drains
    ReadJoins

CHECK_DEADLOCK FALSE
