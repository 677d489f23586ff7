SPECIFICATION HealthSpec
CONSTANTS
    N = 2
INVARIANTS
    VerdictIsTrue
PROPERTIES
    HealthIsTrue
    WaitReturns
    HelpersEnd
CHECK_DEADLOCK FALSE
