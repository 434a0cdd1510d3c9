SPECIFICATION Spec
CONSTANTS
    Threads = {t1, t2}
    Envs = {e1, e2}
    Dbcs = {d1, d2}
    None = None
    Settings <- SomeSettings
    Lapses <- AllLapses
    MaxLapses = 1
    MaxCount = 2
SYMMETRY Symmetry
INVARIANTS
    LibraryLives
    ThreadsCounted
    StatesOfVersion
    ConnectsApart
