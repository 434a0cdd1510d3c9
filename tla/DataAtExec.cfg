SPECIFICATION Spec
CONSTANTS
    Stmts = {s1}
    Apds = {s1}
    ApdOf <- OwnApds
    shared = shared
    N = 3
    Pieces = {x}
    MaxPieces = 2
    MaxText = 1
    MaxHabits = 1
    Habits = {"novalue", "offset", "busy", "bookmark", "failedAdd"}
    NoDesc = NoDesc
    NoQuery = NoQuery
INVARIANTS QueryAsStarted AskedOnceInOrder SequencesEnd ValuesAsSupplied
