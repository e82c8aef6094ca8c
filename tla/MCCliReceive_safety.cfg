SPECIFICATION Spec
CONSTANTS
    s1 = s1
    s2 = s2
    a = a
    b = b
    f1 = f1
    f2 = f2
    None = None
    Sessions = {s1, s2}
    Senders = {a}
    Files = {f1, f2}
    ServerCap = 3
    MaxAttempts = 1
    WebModes = {"none", "receive"}
    LateAbort = FALSE
SYMMETRY Symmetry
INVARIANTS
    Inv
    PromptNeverReplaced
    ActiveIsVisible
    SummaryCountsTrue
PROPERTIES
    ClosedOnce
