SPECIFICATION Spec
CONSTANTS
    media = media
    run = run
    a = a
    b = b
    c = c
    home = home
    elsewhere = elsewhere
    Roots <- MCRoots
    Paths <- MCPaths
    RootOf <- MCRootOf
    Mappings <- MCMappings
    Eligible <- MCEligible
    Unlisted = {c}
    NoPath = NoPath
    MaxMoves = 2
    MaxEvents = 2
INVARIANTS
    TypeOK
    QueuedOnce
PROPERTIES
    AnnouncedQueued
CHECK_DEADLOCK FALSE
