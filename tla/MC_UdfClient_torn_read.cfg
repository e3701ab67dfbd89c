CONSTANTS
    Codes <- CodesDistinctVersions
    Requesters = {r1}
    MaxLoads = 2
    MaxExecs = 1
    NoCode = NoCode
    NoHandler = NoHandler
    NoOutput = NoOutput
SPECIFICATION Spec
INVARIANT InvocationConsistent
