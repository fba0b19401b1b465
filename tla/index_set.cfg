SPECIFICATION Spec
CONSTANTS
    Npos = 99
    MaxSize = 2
    MaxIndex = 8
    MaxSet = 3
    MaxBy = 2
CHECK_DEADLOCK FALSE
INVARIANTS RepresentsSet AnswersAreRight
