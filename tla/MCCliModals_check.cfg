SPECIFICATION Spec
CONSTANTS
    MaxFp = 2
    MaxSlot = 1
    MaxFound = 2
INVARIANTS
    Inv
    LogStaysClean
    RowsTrue
PROPERTIES
    HighlightKept
    HotkeyMeansDevice
CHECK_DEADLOCK FALSE
