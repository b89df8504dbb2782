CONSTANTS
    MaxAsks = 2
    MaxStarts = 2
    Frontends <- TwoFrontends
    FeedOwners <- FeedOfGui
    MAX_PENDING_APPROVALS = 1
    tui = tui
    gui = gui
SPECIFICATION FairSpec
CHECK_DEADLOCK FALSE
INVARIANTS DecidedOnceByHuman NobodyMissed AnswersWhatWasShown TableIsSound
PROPERTIES AsksEnd
CONSTRAINT Load
