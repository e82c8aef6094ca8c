SPECIFICATION FairSpec
CONSTANTS
    Conns = {c1, c2, c3}
    Unknown = Unknown
    Cap = 2
    MaxConnections = 2
    MaxRequests = 1
    MaxMsgs = 0
INVARIANTS
    GroupLimit
PROPERTIES
    AdmittedIsGreeted
    ClosedIsForgotten
CHECK_DEADLOCK FALSE
