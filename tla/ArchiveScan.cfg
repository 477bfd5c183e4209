\* Three chunks of one or two bytes at a path that may hold an older archive.
SPECIFICATION ScanSpec
CONSTANTS
    WordModulus = 256
    kContainerMagic = 255
    Payload = 1
    Unreadable = Unreadable
    NoFile = NoFile
    FrameLengths = {1, 2}
    MaxChunks = 3
INVARIANTS
    TypeOK
    NeverServesPartOfTheTable
    FinishedReadsBack
    AbortLeavesNoPartialFile
    ScanReturnsOneArchive
\* The writer is used once: a run ends when it has been destroyed.
CHECK_DEADLOCK FALSE
