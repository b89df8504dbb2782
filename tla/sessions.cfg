CONSTANTS
    host = host
    alias = alias
    other = other
    Keys <- Forms
    Canon <- Aliased
    Composed = {alias}
    Callers = {c1, c2}
    COOLDOWN_MAX = 1
    MaxBackoff = 1
    MaxArcs = 2
    MaxJobs = 2
    MaxCloses = 1
SPECIFICATION Spec
CHECK_DEADLOCK FALSE
INVARIANTS DialsAreShared CachesAreSound
