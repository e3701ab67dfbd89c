CONSTANTS
    MaxStreamSize = 12
    MaxWorkers = 4
    MaxMinShardSize = 4
    MaxObjectSize = 5
    MaxChunkSize = 6
    RangeWidth = 16
SPECIFICATION Spec
INVARIANT BuildShardsSucceeds
