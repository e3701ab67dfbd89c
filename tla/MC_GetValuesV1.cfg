CONSTANTS
    KeyStrings <- SingleKeys
    CacheValues <- Values
    ExtraGroups <- Groups
    Missing = Missing
    Absent = Absent
SPECIFICATION Spec
INVARIANT ModesAgree
