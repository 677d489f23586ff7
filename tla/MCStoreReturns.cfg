SPECIFICATION FairSpec
CONSTANTS
    c1 = c1
    c2 = c2
    st1 = st1
    s1 = s1
    s2 = s2
    d1 = d1
    d2 = d2
    Callers <- TwoCallers
    Stores <- OneStore
    StoreOf <- SameStore
    MaxSubjects <- RoomForTwo
    Subjects = {s1, s2}
    Defs = {d1}
    DecidedOn = {d1}
    TypeOf <- OneType
    Types <- TypeNames
    FromLatest = {d1}
    Copyable = {d1}
    ConflictRetries = 2
    Declarations <- AllDeclarations
    Decisions <- FullDecision
    Writes <- OneWrite
    MaxCalls = 2
PROPERTIES
    CallsReturn
CHECK_DEADLOCK FALSE
