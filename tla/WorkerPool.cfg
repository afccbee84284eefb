SPECIFICATION Spec
CONSTANTS
    a = a
    b = b
    c = c
    d = d
    folder = folder
    NoRoot = NoRoot
    NoItem = NoItem
    Items <- MCItems
    Root <- MCRoot
    Initial <- MCInitial
    Added <- MCAdded
    Watched <- MCWatched
    w1 = w1
    w2 = w2
    Workers <- MCWorkers
    DeleteMode = TRUE
    WordSize = 16
INVARIANTS
    TypeOK
    BatchDrained
    FatesReported
    OneFileAfterStop
    AftermathSeesAll
    CompleteIsDone
PROPERTIES
    FateDecidedOnce
SYMMETRY WorkersAlike
CHECK_DEADLOCK FALSE
