SPECIFICATION Spec
CONSTANTS
    Stmts = {s1}
    Levels <- SomeLevels
    MaxRows <- SomeMaxRows
    Catalogs = {"a", "b"}
    DATABASE = "a"
    Configs <- SomeConfigs
    Lapses <- AllLapses
    MaxLapses = 1
INVARIANTS
    RowLimits
    SettingsHold
    SessionsApart
    EndTranTruthful
    CachesTruthful
