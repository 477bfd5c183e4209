\* Two statements, up to three candidates, two rows in a vector.
SPECIFICATION TrainSpec
CONSTANTS
    s1 = s1
    s2 = s2
    Samples = {s1, s2}
    sample_paths <- MCPaths
    Sizes = {1, 2, 4}
    SizeMax = 1000
    Options <- MCOptions
    MaxCandidates = 3
    MaxStatements = 2
    VectorSize = 2
    TailCanBeLost = FALSE
    NULL = NULL
    NoFile = NoFile
    Part = Part
    Moved = Moved
INVARIANTS
    TrainTypeOK
    SelectionIsMaximalPrefix
    CandidatesAreDelivered
\* After the last statement nothing needs to happen.
CHECK_DEADLOCK FALSE
