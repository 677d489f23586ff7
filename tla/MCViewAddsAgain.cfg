SPECIFICATION Spec
CONSTANTS
    Keys = {k1}
    Values = {a, b}
    Slack = 1
    AddsAgain = TRUE
    MaxEvents = 2
    MaxCalls <- OneThenThree
    MaxRetries = 1
INVARIANT RetryChangesNothing
SYMMETRY Symmetry
CHECK_DEADLOCK FALSE
