SPECIFICATION Spec
CONSTANTS
    c1 = c1
    c2 = c2
    st1 = st1
    s1 = s1
    s2 = s2
    d1 = d1
    d2 = d2
    Callers <- TwoCallers
    Stores <- OneStore
    StoreOf <- SameStore
    MaxSubjects <- RoomForOne
    Subjects = {s1, s2}
    Defs = {d1, d2}
    DecidedOn = {d1}
    TypeOf <- OneType
    Types <- TypeNames
    FromLatest = {d1}
    Copyable = {d1, d2}
    ConflictRetries = 1
    Declarations <- RaceDeclarations
    Decisions <- OneDecision
    Writes <- OneLongWrite
    MaxCalls = 3
INVARIANTS
    TypeOK
    CacheHoldsHistory
    CacheConsistent
    
    OutcomeIsCertain
    RetryReadsFurther
PROPERTIES
    IsSerial
    CacheNeverGoesBack
SYMMETRY Symmetry
CHECK_DEADLOCK FALSE
