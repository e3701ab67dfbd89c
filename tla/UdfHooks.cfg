CONSTANTS
    NumShards = 2
    Workers = {w1, w2}
    MaxCalls = 2
    MaxAttempts = 2
    Keys = {k1}
    Values = {a, b}
    Lcts = {1, 2}
    MaxRecords = 2
SPECIFICATION Spec
INVARIANT HooksReadyAfterStartup
INVARIANT LookupsMatchFile
INVARIANT UdfStoppedOnEveryExit
