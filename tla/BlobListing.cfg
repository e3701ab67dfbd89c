CONSTANTS
    Names = {1, 2, 3, 4, 5}
    PrefixNames = {1, 2, 3, 4}
    PageSize = 2
    MaxChanges = 2
SPECIFICATION Spec
INVARIANT ListingSound
INVARIANT StableKeysNotSkipped
PROPERTY ListingReturns
