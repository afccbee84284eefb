SPECIFICATION FairSpec
CONSTANTS
    w1 = w1
    w2 = w2
    f1 = f1
    f2 = f2
    d1 = d1
    d2 = d2
    Dests <- MCDests
    Files <- MCFiles
    Assignments <- MCAssignments
    Workers <- MCWorkers
    Existing = {d1}
    Size <- MCSize
    Threshold = 2
    VerifyLimit = 1
    Verify = TRUE
    DeleteMode = TRUE
    MaxRetries = 1
    OwnerIntrudes = TRUE
    MaxRefusals = 1
    NoFile = NoFile
    OldFile = OldFile
INVARIANTS
    TypeOK
    DestinationWhole
    DeletedIsKept
    NothingLeftBehind
    CopiedExact
PROPERTIES
    ResultIsFinal
    CopyEnds
CHECK_DEADLOCK FALSE
