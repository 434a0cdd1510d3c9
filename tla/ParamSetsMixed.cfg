SPECIFICATION Spec
CONSTANTS
    MaxSets = 3
    Conversions = {"SUCCESS", "SUCCESS_WITH_INFO", "ERROR"}
    LimitFails = FALSE
    Ignores = FALSE
INVARIANTS
    TextsAreStatements
