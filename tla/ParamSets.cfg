SPECIFICATION Spec
CONSTANTS
    MaxSets = 3
    Conversions = {"SUCCESS", "SUCCESS_WITH_INFO", "ERROR", "ERROR_UNDIAGNOSED"}
    LimitFails = TRUE
    Ignores = TRUE
INVARIANTS
    SetsReported
    ReturnTruthful
    SelectTruthful
PROPERTY
    TextsUntilFailure
