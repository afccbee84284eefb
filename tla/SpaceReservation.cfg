SPECIFICATION Spec
CONSTANTS
    w1 = w1
    w2 = w2
    Workers <- MCWorkers
    Sizes = {1, 2, 3}
    Capacity = 5
    Margin = 1
    Recheck = 2
    MaxFiles = 3
    MaxLate = 1
    MaxExcess = 2
INVARIANTS
    TypeOK
    ReservedExact
    MarginKept
    FullOnlyLate
SYMMETRY WorkersAlike
CHECK_DEADLOCK FALSE
