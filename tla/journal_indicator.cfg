SPECIFICATION Spec
CONSTANTS
    s1 = s1
    s2 = s2
    d = d
    c = c
    t1 = t1
    t2 = t2
    t3 = t3
    Lazies <- MCTwoLazies
    Daemon = d
    Compactor = c
    Tasks <- MCTwoTasks
    TaskRows = 2
    MaxSeq = 3
    MaxEnds = 1
    MaxFaults = 0
    MaxCompacts = 0
    NoOne = NoOne
    NoHandle = NoHandle
    NoBase = NoBase
    NoBatch = NoBatch
CHECK_DEADLOCK FALSE
INVARIANTS IndicatorGoesOff
