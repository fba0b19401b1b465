CONSTANTS
    Npos = 1000
    MaxLen = 4
    MaxParsed = 4
SPECIFICATION Spec
INVARIANTS ReportIsRight
