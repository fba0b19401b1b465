CONSTANTS
    Npos = 20
    MaxRows = 4
    MaxParsed = 3
    MaxSpans = 1
    MaxLists = 0
    MaxSorted = 3
SPECIFICATION ResultsSpec
INVARIANTS ReportIsRight ModificationsAreExact
