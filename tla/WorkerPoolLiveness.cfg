SPECIFICATION FairSpec
CONSTANTS
    a = a
    b = b
    c = c
    d = d
    folder = folder
    NoRoot = NoRoot
    NoItem = NoItem
    Items <- MCItems
    Root <- MCRoot
    Initial <- OneFile
    Added <- None
    Watched <- Folder
    w1 = w1
    w2 = w2
    Workers <- MCWorkers
    DeleteMode = FALSE
    WordSize = 16
PROPERTIES
    ImplementsCounted
    PoolEnds
    StopEndsRun
CHECK_DEADLOCK FALSE
