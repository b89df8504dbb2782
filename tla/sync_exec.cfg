CONSTANTS
    Plan <- MCPlan
    Parent <- MCParent
    Before <- MCBefore
    Root = "/"
    Trashes = {"Named", "Opaque", "Absent"}
    TreeNodes = 2
    MaxFaults = 2
    MaxForeign = 1
    MaxCancels = 1
    MaxUndos = 2
SPECIFICATION Spec
INVARIANTS DestinationIsSafe ReportIsTrue UndoIsSafe
PROPERTIES ForeignStays
CHECK_DEADLOCK FALSE
