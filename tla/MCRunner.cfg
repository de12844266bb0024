CONSTANTS
    Calls = {c1, c2, c3}
    Versions = {v1, v2}
    Default = v1
    Modules = {m1, m2}
    NoModule = NoModule
SPECIFICATION Spec
SYMMETRY Symmetry
INVARIANTS
    TypeOK
    AnsweredByItsVersion
    FailureNotCached
CHECK_DEADLOCK FALSE
