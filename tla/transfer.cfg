CONSTANTS
    Asks <- MCAsks
    Occupied = TRUE
    SameSize = FALSE
    Retries = 3
    MaxFaults = 1
    MaxForeign = 3
SPECIFICATION Spec
INVARIANTS NeverNowhere RowsAreTrue AnswersAreTrue
PROPERTIES AlwaysEnds
CHECK_DEADLOCK FALSE
