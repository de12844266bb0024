CONSTANTS
    Capacity = 16
    MaxLength = 20
SPECIFICATION Spec
INVARIANT EveryOffsetCovered
CHECK_DEADLOCK FALSE
