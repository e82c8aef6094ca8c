SPECIFICATION FairSpec
CONSTANTS
    s1 = s1
    s2 = s2
    f1 = f1
    f2 = f2
    Sessions = {s1, s2}
    Files = {f1, f2}
    EventCap = 3
    MaxTries = 2
INVARIANTS
    Inv
    ToldIsAnswerable
PROPERTIES
    EveryRequestTold
CHECK_DEADLOCK FALSE
