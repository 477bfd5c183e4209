\* Three files, one of them nested, two workers; the script is started twice.
SPECIFICATION FairSpec
CONSTANTS
    Files = {f1, f2, f3}
    Nested = {f3}
    Workers = 2
    None = None
    MaxRuns = 2
INVARIANTS
    TypeOK
    CatalogNamesItsRows
    DoneIsTrue
PROPERTIES
    EveryRunEnds
\* The runs of the script are bounded.
CHECK_DEADLOCK FALSE
