\* Two handles write one path: "a reader never sees a half-written archive".
SPECIFICATION Spec
CONSTANTS
    ZL_MIN_FORMAT_VERSION = 1
    ZL_MAX_FORMAT_VERSION = 3
    ZL_CHUNK_VERSION_MIN = 2
    kDefaultParquetChunkBytes = 1
    ProfileNames = {"parquet", "serial", "unknown"}
    IntMax = 3
    SizeMax = 15
    NULL = NULL
    Error = Error
    Hole = Hole
    Handles = {h1, h2}
    Paths = {p1}
    Targets = {p1}
    NoFile = NoFile
    Unlinked = Unlinked
    Block = Block
    Settings <- MCSettings
    MaxSize = 2
    kSmallFallbackBytes = 1
    max_compress_bytes = 2
    SharedPaths = TRUE
    TailCanBeLost = FALSE
INVARIANT
    ExistingArchivesAreWhole
