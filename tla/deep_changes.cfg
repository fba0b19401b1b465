SPECIFICATION Spec
CONSTANTS
    Depth = 4
    Layouts <- Mixed
    MaxLinks = 1
INVARIANTS DeepChangesAreExact
CHECK_DEADLOCK FALSE
