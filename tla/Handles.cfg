SPECIFICATION Spec
CONSTANTS
    Dbcs = {c1, c2}
    Stmts = {s1, s2}
    Descs = {d1, d2}
    NoDbc = NoDbc
    NoStmt = NoStmt
    RejectedCalls = FALSE
    MaxCopies = 0
SYMMETRY Symm
INVARIANT NoBadDeref
INVARIANT AppDescsAlive
INVARIANT ListsAgree
