SPECIFICATION FairSpec
CONSTANTS
    t1 = t1
    t2 = t2
    None = None
    Tasks = {t1, t2}
    EventCap = 2
    MaxFiles = 2
INVARIANTS
    Inv
    ByPeerIsTrue
    OpenOnlyWithdrawn
    OneTransferOnly
PROPERTIES
    CancelEnds
    UploadEnds
CHECK_DEADLOCK FALSE
