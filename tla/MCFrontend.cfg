CONSTANTS
    plain = plain
    slashed = slashed
    GameIds = {plain, slashed}
    Uids = {u1, u2}
    AsParsed <- MCAsParsed
    Views = {"unstarted", "yourTurn"}
    MaxStreams = 3
    MaxChunk = 2
SPECIFICATION Spec
INVARIANTS
    TypeOK
    PageIsOfTheUser
    LatestIsShown
    AddressIsShown
    RequestsAsAsked
CHECK_DEADLOCK FALSE
