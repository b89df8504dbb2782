CONSTANTS
    d1 = d1
    w1 = w1
    None = None
    Daemons <- OneDaemon
    Windows <- OneWindow
    Conns = {a, b}
    Surface = a
    SCHEMA_VERSION <- WindowIsNewer
    MaxPuts = 2
    MaxWriteFaults = 1
    MaxReadFaults = 1
SPECIFICATION FairSpec
CHECK_DEADLOCK FALSE
INVARIANTS SealedIsSaved OwnerIsCurrent
PROPERTIES FileIsKept SavesHappen
