SPECIFICATION Spec
CONSTANTS
    NoRevision = NoRevision
    Callers = {c1}
    Instances = {i1}
    Queries = {p, q, r}
    Tagged = {p, q}
    Varies = {q}
    SpelledOut = {p, q, r}
    Changes = 1
    MaxEvents = 2
    MaxDays = 2
    MaxRestarts = 1
    MaxRequests = 2
INVARIANTS
    AnswerHoldsRevision
    WaitTellsTruth
    NotModifiedIsTrue
PROPERTIES
    WakesUp
CHECK_DEADLOCK FALSE
