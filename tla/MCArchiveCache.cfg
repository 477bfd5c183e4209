SPECIFICATION FairSpec
CONSTANTS
    Threads = {t1, t2}
    Keys = {0, 2}
    Bufs = {b1, b2}
    Stamps = {s1, s2, s3}
    NoStamp = NoStamp
    NoBuf = NoBuf
    NoThread = NoThread
    MaxChunks = 2
    MaxVersion = 2
    MaxOpens = 3
    StampsDiffer = TRUE
INVARIANTS
    TypeOK
    NeverStale
    OneBufferPerArchive
    LiveEntries
PROPERTIES
    
    EveryOpenReturns
CHECK_DEADLOCK FALSE
