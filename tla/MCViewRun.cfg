SPECIFICATION Spec
CONSTANTS
    Keys = {k1, k2, k3}
    Values = {a, b}
    Slack = 1
    AddsAgain = FALSE
    MaxEvents = 2
    MaxCalls <- OneThenThree
    MaxRetries = 1
INVARIANTS
    LookupMatchesAll
    RetryChangesNothing
    OrderIsBounded
PROPERTIES
    IsOrdered
SYMMETRY Symmetry
CHECK_DEADLOCK FALSE
