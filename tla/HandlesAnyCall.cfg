SPECIFICATION Spec
CONSTANTS
    Dbcs = {c1, c2}
    Stmts = {s1}
    Descs = {d1}
    NoDbc = NoDbc
    NoStmt = NoStmt
    RejectedCalls = TRUE
    MaxCopies = 2
SYMMETRY Symm
INVARIANT StmtListsExact
INVARIANT PooledIsClean
