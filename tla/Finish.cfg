SPECIFICATION Spec
CONSTANTS
    d = d
    e = e
    t1 = t1
    t2 = t2
    t3 = t3
    p = p
    q = q
    Drives <- MCDrives
    System = System
    Targets <- MCTargets
    DriveOf <- MCDriveOf
    Eject <- MCEject
    Unlisted = {e}
    NoDevice = {}
    Pids <- MCPids
    NoPid = NoPid
    Foreign = {q}
    NoDrive = NoDrive
    MaxEvents = 3
INVARIANTS
    TypeOK
    SyncCovers
    EjectedIsSafe
    ClosesHolders
CHECK_DEADLOCK FALSE
