CONSTANTS
    MaxTasks = 2
    Pausable <- FirstTask
    Schemes <- NoScheme
    QUEUE = "queue"
    Permits = 2
    Priorities <- Normal
    Workers <- TwoCallers
    Main = "main"
SPECIFICATION FairSpec
CHECK_DEADLOCK FALSE
INVARIANTS SlotAccounting SlotsGuardWork
PROPERTIES GoesOnWithSlot ImplementsLifecycle TasksEnd
