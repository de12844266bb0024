CONSTANTS
    Calls = {c1, c2, c3}
    Threads = 2
    Margin = 1
    Lifetime = 3
    MaxTime = 4
    NoToken = NoToken
SPECIFICATION FairSpec
INVARIANTS
    TypeOK
    TokenIsFresh
PROPERTIES
    CacheOnlyRenewed
    EveryCallEnds
CHECK_DEADLOCK FALSE
