SPECIFICATION Spec
SYMMETRY Symmetry
CONSTANTS
    Threads = {t1, t2, t3}
    Keys = {0, 2}
    Bufs = {b1, b2, b3}
    Stamps = {s1, s2, s3}
    NoStamp = NoStamp
    NoBuf = NoBuf
    NoThread = NoThread
    MaxChunks = 2
    MaxVersion = 2
    MaxOpens = 4
    StampsDiffer = FALSE
INVARIANTS
    NeverStale
CHECK_DEADLOCK FALSE
