SPECIFICATION Spec
CONSTANTS
    borrowed = borrowed
    returned = returned
    imported = imported
    Types = {borrowed, returned, imported}
    NoType = NoType
    NoUpcaster = NoUpcaster
    FailingUpcast = FailingUpcast
    MaxUpcastSteps = 3
    Setups <- MCSetups
    MaxRevision = 4
    NotARevision = NotARevision
    NoBound = NoBound
    NoError = NoError
    Panic = Panic
    ErrNotARevision = ErrNotARevision
    ErrEmptyRange = ErrEmptyRange
    ErrPermanent = ErrPermanent
    ErrUnverified = ErrUnverified
    ErrFailed = ErrFailed
    Items = {1, 2, 3}
    Failure = Failure
    EndOfView = EndOfView
    ErrNoItems = ErrNoItems
    ErrTooManyItems = ErrTooManyItems
    Names = {a, b}
    EmptyPart = EmptyPart
    OddPart = OddPart
    NoQuestion = NoQuestion
    NoAnswer = NoAnswer
INVARIANTS
    StatesAreIndependent
    UpcastIsComplete
    ReadMatchesBounds
    QueryTellsWhatItRead
    QueryReadsJustEnough
    SubjectsRoundTrip
CHECK_DEADLOCK FALSE
