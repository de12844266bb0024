CONSTANTS
    Calls = {c1, c2, c3}
    None = None
SPECIFICATION FairSpec
INVARIANTS
    TypeOK
    LogContiguous
    AtMostOnce
    ResultIsMine
    OrderedAsReturned
PROPERTIES
    AppendOnly
    ImplementsAtomicLog
    PushReturns
CHECK_DEADLOCK FALSE
