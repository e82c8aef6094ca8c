SPECIFICATION FairSpec
CONSTANTS
    s1 = s1
    s2 = s2
    f1 = f1
    Sessions = {s1, s2}
    Files = {f1}
    EventCap = 2
    MaxTries = 2
PROPERTIES
    RequestShown
CHECK_DEADLOCK FALSE
