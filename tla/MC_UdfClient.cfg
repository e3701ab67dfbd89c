CONSTANTS
    Codes <- CodesDistinctVersions
    Requesters = {r1, r2}
    MaxLoads = 3
    MaxExecs = 2
    NoCode = NoCode
    NoHandler = NoHandler
    NoOutput = NoOutput

SPECIFICATION Spec
INVARIANT TypeOK
INVARIANT InstalledIsNewest
INVARIANT RomaRunsInstalledCode
