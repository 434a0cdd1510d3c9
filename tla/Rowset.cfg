SPECIFICATION Spec
CONSTANTS
    MaxRows = 4
    ArraySizes = {1, 2, 3}
    Offsets <- MCOffsets
    Outcomes = {"ok", "info"}
    EmptySetPos = FALSE
    NoRow = NoRow
    Freed = Freed
INVARIANT RowsetIsWindow
INVARIANT EndOfSetCurrent
INVARIANT AnswersTruthful
INVARIANT FirstRowHit
PROPERTY ImplementsCursor
