CONSTANTS
    Plan <- MCPlan
    Parent <- MCParent
    Before <- MCBefore
    Root = "/"
    Trashes = {"Named"}
    TreeNodes = 2
    MaxFaults = 0
    MaxForeign = 1
    MaxCancels = 0
    MaxUndos = 2
SPECIFICATION Spec
INVARIANT OriginalIsBuriedOnce
CHECK_DEADLOCK FALSE
