SPECIFICATION FairSpec
CONSTANTS
    Modes = {"rebuild", "resumable", "transactional"}
    CatchUpBatchSize = 2
    InitialDelay = 1
    MaxDelay = 3
    MaxEvents = 3
    MaxFailures = 2
    MaxStarts = 2
INVARIANTS
    NoEventSkipped
    ExactlyOnce
    NoEventTwice
    CaughtUpIsComplete
    RevisionIsCommitted
    NoTransactionLeft
PROPERTIES
    EventsAreApplied
    ContextEndsRun
CHECK_DEADLOCK FALSE
