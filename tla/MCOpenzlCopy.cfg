\* Tables of up to five rows, row groups of two, chunks of one, two or more
\* rows, and compression refused over four: every option can succeed, and a
\* table without chunking can be too large.
SPECIFICATION Spec
CONSTANTS
    a = a
    b = b
    Copies <- MCCopies
    Options <- MCOptions
    RowCounts = {0, 3, 5}
    RowGroup = 2
    MaxCompress = 4
    NoFile = NoFile
    Partial = Partial
    Before = Before
    Nothing = Nothing
INVARIANTS
    TypeOK
    RowsConserved
    BufferIsOwn
    ChunksBounded
    
    FallbacksCounted
PROPERTIES
    ImplementsAtomicCopy
