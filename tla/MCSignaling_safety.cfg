SPECIFICATION Spec
CONSTANTS
    Conns = {c1, c2, c3}
    Unknown = Unknown
    Cap = 2
    MaxConnections = 3
    MaxRequests = 1
    MaxMsgs = 1
SYMMETRY Symmetry
INVARIANTS
    Inv
    NobodyMissed
    ViewExact
PROPERTIES
    JamIsForever
CHECK_DEADLOCK FALSE
