SPECIFICATION FairSpec
CONSTANTS
    d1 = d1
    d2 = d2
    c1 = c1
    c2 = c2
    c3 = c3
    f1 = f1
    f2 = f2
    Self = Self
    Nowhere = Nowhere
    NoDevice = NoDevice
    Devices = {d1, d2}
    Channels = {c1, c2}
    Https = {c2}
    Paths = {f1, f2}
    Unreadable = {f2}
    EventCap = 1
    Faulty = FALSE
PROPERTIES
    ChatWasOffered
