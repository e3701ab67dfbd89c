CONSTANTS
    ParamStrings = {"EMPTY_STRING", "1", "true", "2147483648", "x"}
    MaxCalls = 3
SPECIFICATION Spec
INVARIANT NoCallbackAfterReturn
