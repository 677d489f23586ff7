SPECIFICATION Spec
CONSTANTS
    MaxMarks = 2
INVARIANTS
    AnswerIsTrue
    NoForeignCommand
CHECK_DEADLOCK FALSE
