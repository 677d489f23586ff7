SPECIFICATION Spec
CONSTANTS
    Modes = {"resumable"}
    CatchUpBatchSize = 2
    InitialDelay = 1
    MaxDelay = 3
    MaxEvents = 3
    MaxFailures = 2
    MaxStarts = 1
INVARIANT
    ReappliesUpToBatch
CHECK_DEADLOCK FALSE
