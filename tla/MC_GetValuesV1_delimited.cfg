CONSTANTS
    KeyStrings <- DelimitedKeys
    CacheValues <- Values
    ExtraGroups <- Groups
    Missing = Missing
    Absent = Absent
SPECIFICATION Spec
INVARIANT ModesAgree
