SPECIFICATION Spec
CONSTANTS
    f = f
    g = g
    Files <- MCFiles
    Sizes = {1, 2, 3}
    Threshold = 2
    Tolerance = 2
    Granularity = 4
    None = None
    MaxTime = 9
    MaxEdits = 1
    MaxRuns = 2
INVARIANTS
    TypeOK
    UpToDate
SYMMETRY FilesAlike
CHECK_DEADLOCK FALSE
