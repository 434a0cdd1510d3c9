SPECIFICATION FairSpec
CONSTANTS
    s1 = s1
    s2 = s2
    Threads = {t1, t2}
    Stmts = {s1, s2}
    Selects = {s1}
    MaxRows <- RowsOf
    MaxMore = 0
    MaxCalls = 1
    Nobody = Nobody
    Calls = {"Execute", "ExecuteDae", "ParamData", "SetPos", "Tables", "Columns", "Prefetch", "MoreResults", "EndTran", "Close", "RowCount", "Cancel"}

INVARIANTS OwnersProceed
PROPERTY CallsReturn
CHECK_DEADLOCK FALSE
