SPECIFICATION Spec
CONSTANTS
    Tables = {0, 2, 3, 5}
    Limits <- Clauses
    MaxRows = {0, 2, 3}
    Prefetches = {1, 2, 3}
    ArraySizes = {1, 2, 3}
    Positions = {1, 4}
    Mishaps = {"refused", "lost", "changes", "scrolled"}
    MaxMishaps = 1
    MaxOffset = 7
    MaxFetched = 3
CHECK_DEADLOCK FALSE
INVARIANT WindowsSound
INVARIANT LimitsKept
INVARIANT NoDataMeansEnd
INVARIANT RowsInOrder
