SPECIFICATION Spec
CONSTANTS
    a = a
    b = b
    d = d
    e = e
    f = f
    w1 = w1
    w2 = w2
    Absent = Absent
    Torn = Torn
    Items <- MCItems
    Mapped <- MCMapped
    Watched <- MCWatched
    Added <- MCAdded
    Workers <- MCWorkers
    MaxSessions = 3
INVARIANTS
    CheckpointCurrent
    DueSaved
    NoRedo
    CheckpointSurvives
SYMMETRY WorkersAlike
CHECK_DEADLOCK FALSE
