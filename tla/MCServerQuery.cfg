CONSTANTS
    g = g
    p = p
    s = s
    createCall = createCall
    joinCall = joinCall
    startCall = startCall
    moveCall = moveCall
    GameIds = {g}
    PlayerIds = {p}
    Sentences = {s}
    WindowSizes = {1}
    Lengths = {1}
    None = None
    Actions = {createCall, joinCall, startCall}
    Queries = {query}
    RequestOf <- MCRequestOf
    GameAsked <- MCGameAsked
    PlayerAsking <- MCPlayerAsking
SPECIFICATION FairSpec
INVARIANTS
    TypeOK
    ViewIsOfThePrefix
PROPERTIES
    Answered
    QueriesCatchUp
CHECK_DEADLOCK FALSE
