CONSTANTS
    Watchers = {w1, w2}
    MaxLength = 2
    Failures = {"failed"}
SPECIFICATION Spec
INVARIANTS
    FailedFetchIsAnError
CHECK_DEADLOCK FALSE
