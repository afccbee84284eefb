SPECIFICATION Spec
CONSTANTS
    w1 = w1
    w2 = w2
    f1 = f1
    f2 = f2
    d1 = d1
    d2 = d2
    Dests <- MCDests
    Files <- MCFiles
    Assignments <- MCSeparate
    Workers <- MCWorkers
    Existing = {d1, d2}
    Size <- MCSize
    Threshold = 2
    VerifyLimit = 1
    Verify = TRUE
    DeleteMode = TRUE
    MaxRetries = 1
    OwnerIntrudes = FALSE
    MaxRefusals = 1
    NoFile = NoFile
    OldFile = OldFile
INVARIANTS
    DeletedIsCopied
CHECK_DEADLOCK FALSE
