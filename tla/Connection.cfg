SPECIFICATION Spec
CONSTANTS
    s1 = s1
    s2 = s2
    Threads = {t1, t2}
    Stmts = {s1, s2}
    Selects = {s1}
    MaxRows <- RowsOf
    MaxMore = 1
    MaxCalls = 2
    Nobody = Nobody
    Calls = {"Execute", "Tables", "Prefetch", "MoreResults", "EndTran", "Close", "RowCount", "Cancel"}
SYMMETRY Symmetry
INVARIANTS CommandsExclusive LimitOwn
PROPERTY CloseOnlyWhenIdle
CHECK_DEADLOCK FALSE
