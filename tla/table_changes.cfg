CONSTANTS
    Npos = 20
    MaxRows = 4
    MaxParsed = 4
    MaxSpans = 2
    MaxLists = 2
SPECIFICATION Spec
INVARIANTS RowsAreTracked ModifiedRowsAreMarked ListsFollowOwners
