\* Three chunks of one or two bytes at a path that may hold an older archive.
SPECIFICATION Spec
CONSTANTS
    WordModulus = 256
    kContainerMagic = 255
    Payload = 1
    Unreadable = Unreadable
    NoFile = NoFile
    FrameLengths = {1, 2}
    MaxChunks = 3
INVARIANTS
    FinishedIsReadable
CHECK_DEADLOCK FALSE
