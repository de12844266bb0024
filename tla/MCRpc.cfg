CONSTANTS
    GameIds = {"g"}
    PlayerIds = {"p", "q"}
    Sentences = {"s", "t"}
    WindowSizes = {2}
    Lengths = {5}
    None = None
SPECIFICATION RpcSpec
INVARIANTS
    RequestArrives
    AnswerArrives
    PageShowsTheView
