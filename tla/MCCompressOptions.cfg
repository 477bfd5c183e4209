\* Every setting against every option; compressor files are not empty.
SPECIFICATION Spec
CONSTANTS
    ZL_MIN_FORMAT_VERSION = 1
    ZL_MAX_FORMAT_VERSION = 3
    ZL_CHUNK_VERSION_MIN = 2
    kDefaultParquetChunkBytes = 1
    ProfileNames = {"parquet", "serial", "unknown"}
    IntMax = 3
    SizeMax = 15
    NULL = NULL
    Error = Error
    Hole = Hole
    Settings <- MCSettings
    CopyOptions <- MCCopyOptions
    CompressorFiles <- MCCompressors
    Block = Block
    NoFile = NoFile
    MaxSize = 2
    MaxChunks = 2
    MaxFallbacks = 2
INVARIANTS
    TypeOK
    AcceptedCopyIsNeverDoomed
    
    
    NeverOverTheLimit
