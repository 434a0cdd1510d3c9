SPECIFICATION ReadSpec
CONSTANTS
    Kinds <- ThreeKinds
    Values <- Samples
    BufLens = {0, 1, 2, 3, 4}
    BoundLen = 3
    MaxLengths = {0, 2}
    ParamTypes <- Params
    Streamed <- Chunks
CHECK_DEADLOCK FALSE
INVARIANT PositionSound
INVARIANT CallsTruthful
INVARIANT ReadsWhole
PROPERTY ImplementsTransfer
