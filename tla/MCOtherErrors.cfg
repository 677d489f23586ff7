SPECIFICATION Spec
CONSTANTS
    Modes = {"transactional"}
    CatchUpBatchSize = 2
    InitialDelay = 1
    MaxDelay = 3
    MaxEvents = 2
    MaxFailures = 2
    MaxStarts = 1
INVARIANT
    OtherErrorsEndRun
CHECK_DEADLOCK FALSE
