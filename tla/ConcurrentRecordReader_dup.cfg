CONSTANTS
    StreamSizes = {5}
    NumWorkers = 2
    MinShardSize = 1
    MayCorrupt = TRUE
SPECIFICATION Spec
INVARIANT NoDuplicateDelivery
