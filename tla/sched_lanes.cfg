CONSTANTS
    MaxTasks = 3
    Pausable <- NoTask
    Schemes <- OneScheme
    QUEUE = "queue"
    Permits = 2
    Priorities <- LowAndHigh
    Workers <- OneCaller
    Main = "main"
SPECIFICATION Spec
CHECK_DEADLOCK FALSE
INVARIANTS TypeOK RunnersMatchJobs
PROPERTIES TurnsAreKept
