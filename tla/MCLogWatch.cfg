CONSTANTS
    Watchers = {w1, w2}
    MaxLength = 3
    Failures = {"failed"}
SPECIFICATION FairSpec
INVARIANTS
    TypeOK
    CacheAligned
    FetchesExisting
    DeliversPrefix
PROPERTIES
    CatchesUp
CHECK_DEADLOCK FALSE
