CONSTANTS
    GameIds = {g1, g2}
    PlayerIds = {p1, p2, p3}
    Sentences = {s1, s2}
    WindowSizes = {0, 2}
    Lengths = {0, 4}
    None = None
SYMMETRY Symmetry
SPECIFICATION Spec
INVARIANTS
    TypeOK
    RosterOK
    StoryIsAcceptedMoves
    ViewAgreesWithMoves
    StoryHiddenUntilOver
    RepeatedMoveRefused
PROPERTIES
    StepsOnlyGrow
CHECK_DEADLOCK FALSE
