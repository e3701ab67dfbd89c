CONSTANTS
    StreamSizes = {3, 5, 9}
    NumWorkers = 3
    MinShardSize = 1
    MayCorrupt = FALSE
SPECIFICATION Spec
INVARIANT TypeOK
INVARIANT ExactlyOnceOnOk
PROPERTY ReadReturns
