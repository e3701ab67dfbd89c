CONSTANTS
    Codes <- CodesSameVersion
    Requesters = {r1}
    MaxLoads = 3
    MaxExecs = 1
    NoCode = NoCode
    NoHandler = NoHandler
    NoOutput = NoOutput
SPECIFICATION Spec
INVARIANT RomaRunsInstalledCode
