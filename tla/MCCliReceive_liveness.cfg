SPECIFICATION FairSpec
CONSTANTS
    s1 = s1
    s2 = s2
    a = a
    b = b
    f1 = f1
    f2 = f2
    None = None
    Sessions = {s1, s2}
    Senders = {a}
    Files = {f1}
    ServerCap = 3
    MaxAttempts = 2
    WebModes = {"receive"}
    LateAbort = TRUE
PROPERTIES
    KeepsPromise
    EndedLeavesScreen
    UnseenIsEnded
