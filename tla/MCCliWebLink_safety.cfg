SPECIFICATION Spec
CONSTANTS
    r1 = r1
    r2 = r2
    Requests = {r1, r2}
    a = a
    b = b
    Files = {a, b}
    MaxPicked = 2
    MaxStarts = 5
    FileMode = FALSE
SYMMETRY Symmetry
INVARIANTS
    Inv
    ServerMatchesLink
    SentAsListed
CHECK_DEADLOCK FALSE
