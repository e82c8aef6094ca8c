SPECIFICATION Spec
CONSTANTS
    p1 = p1
    p2 = p2
    f1 = f1
    f2 = f2
    v1 = v1
    v2 = v2
    i1 = i1
    i2 = i2
    Procs = {p1, p2}
    Fps = {f1, f2}
    Infos = {v1, v2}
    Ids = {i1, i2}
    None = None
    Empty = Empty
    Torn = Torn
    Newer = Newer
SYMMETRY Symmetry
INVARIANTS
    Inv
    OneIdentity
    FileWhole
    MemoryOnDisk
PROPERTIES
    Atomic
CHECK_DEADLOCK FALSE
