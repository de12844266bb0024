--------------------------------- MODULE Rpc ---------------------------------
(***************************************************************************)
(* A call of the web client from end to end: the request that App.tsx puts *)
(* together and the stub writes, the server that reads it, applies the     *)
(* rules and writes its answer (be/proto/server/pictophone, which protoc   *)
(* compiles for the server), the client that reads the answer, and the     *)
(* page of a game that it shows (App.tsx:344-420).                         *)
(*                                                                         *)
(* The two ends have their own copy of the message definitions, and are    *)
(* deployed apart: a page that was loaded long ago may talk to a newer     *)
(* server, whose answers have fields that it does not know.  What calls    *)
(* that run at the same time do to each other is for the module Server;    *)
(* here there is one call at a time, of any player, and the server handles *)
(* it in one step: a step of GameService, or for GetGame none.             *)
(***************************************************************************)
EXTENDS GameService

pb == INSTANCE Messages

\* The parameters with which the page starts a game are among those of the clients.
ASSUME PageParametersAssumption == 2 \in WindowSizes /\ 5 \in Lengths

VARIABLES
    pc,             \* the call: "idle", "sent", "served", "received"
    wire,           \* the request or the response under way
    received,       \* toObject() of the answer
    asked,          \* history: what the user asked for
    arrived,        \* history: what the server read
    meant           \* history: the answer of the logic

rpcVars == <<vars, pc, wire, received, asked, arrived, meant>>

Nothing == <<>>

RpcInit == /\ Init
           /\ pc = "idle"
           /\ wire = Nothing /\ received = Nothing
           /\ asked = Nothing /\ arrived = Nothing /\ meant = Nothing

-----------------------------------------------------------------------------
(* The client's requests: fold (App.tsx:216-269) and getGame (154-158).    *)

\* What the user of the page of game g may ask for; a game starts with the
\* parameters 2 and 5.
Wishes(p, g) ==
    [method : {"CreateGame", "JoinGame", "GetGame"}, player_id : {p}, game_id : {g}]
    \cup [method : {"StartGame"}, player_id : {p}, game_id : {g},
          window_size : {2}, length : {5}]
    \cup [method : {"MakeMove"}, player_id : {p}, game_id : {g}, sentence : Sentences]

\* The request's setters, called one after another.
Built(r) ==
    LET class == pb!PictophoneClient[r.method].request
        ids == pb!Set(class, pb!Set(class, pb!New, "gameId", r.game_id), "playerId", r.player_id)
    IN  CASE r.method = "StartGame" ->
               pb!Set(class, pb!Set(class, ids, "windowSize", r.window_size), "length", r.length)
          [] r.method = "MakeMove" -> pb!Set(class, ids, "sentence", r.sentence)
          [] OTHER -> ids

Ask(p) ==
    /\ pc = "idle"
    /\ \E g \in GameIds : \E r \in Wishes(p, g) :
          /\ asked' = r
          /\ wire' = pb!SerializeBinary(pb!PictophoneClient[r.method].request, Built(r))
    /\ pc' = "sent"
    /\ UNCHANGED <<vars, received, arrived, meant>>

-----------------------------------------------------------------------------
(* The server's side of the messages (messages.proto).                     *)

\* The fields of the requests, by number.
RequestFields ==
    [CreateGame |-> <<"game_id", "player_id">>,
     JoinGame |-> <<"game_id", "player_id">>,
     StartGame |-> <<"game_id", "player_id", "window_size", "length">>,
     MakeMove |-> <<"game_id", "player_id", "sentence">>,
     GetGame |-> <<"game_id", "player_id">>]

DefaultOf(field) == IF field \in {"window_size", "length"} THEN 0 ELSE ""

\* A field that is not on the wire has its default value.
Decoded(m, w) ==
    LET fields == RequestFields[m]
        On(i) == {k \in DOMAIN w : w[k][1] = i}
        Value(i) == IF On(i) = {} THEN DefaultOf(fields[i]) ELSE w[CHOOSE k \in On(i) : TRUE][2]
        Number(field) == CHOOSE i \in DOMAIN fields : fields[i] = field
    IN  [field \in {"method"} \cup {fields[i] : i \in DOMAIN fields} |->
            IF field = "method" THEN m ELSE Value(Number(field))]

\* The members of oneof error, by number.
ErrorFields ==
    [CreateGame |-> <<"Unknown", "GameAlreadyExists">>,
     JoinGame |-> <<"Unknown", "GameNotFound", "GameAlreadyStarted">>,
     StartGame |-> <<"Unknown", "PlayerNotInGame", "InvalidGameParameters", "GameAlreadyStarted">>,
     MakeMove |-> <<"Unknown", "NotYourTurn", "GameNotStarted", "GameAlreadyOver">>,
     GetGame |-> <<"Unknown", "PlayerNotInGame">>]

EncodedError(m, error) ==
    IF error = None THEN <<>>
    ELSE <<<<CHOOSE i \in DOMAIN ErrorFields[m] : ErrorFields[m][i] = error, <<>>>>>>

Repeated(number, values) == [k \in DOMAIN values |-> <<number, values[k]>>]

\* oneof state of Game.
EncodedState(view) ==
    CASE view.state = "Unstarted" -> <<<<2, <<>>>>>>
      [] view.state = "YourTurn" -> <<<<3, Repeated(1, view.shown)>>>>
      [] view.state = "NotYourTurn" -> <<<<4, <<>>>>>>
      [] view.state = "GameOver" -> <<<<5, Repeated(1, view.shown)>>>>

EncodedView(view) ==
    IF view.error # None THEN EncodedError("GetGame", view.error)
    ELSE <<<<3, Repeated(1, view.players) \o EncodedState(view)>>>>

\* A newer server may add a field to its answers.
Newer(w) == {w, Append(w, <<9, "new">>)}

\* An action method.
HandleRequest ==
    /\ pc = "sent" /\ asked.method # "GetGame"
    /\ arrived' = Decoded(asked.method, wire)
    /\ Handle(arrived')
    /\ meant' = HandleAction(state, arrived').error
    /\ wire' \in Newer(EncodedError(asked.method, meant'))
    /\ pc' = "served"
    /\ UNCHANGED <<received, asked>>

\* get_game: one message of its stream.
HandleGetGame ==
    /\ pc = "sent" /\ asked.method = "GetGame"
    /\ arrived' = Decoded("GetGame", wire)
    /\ meant' = GetGame(state, arrived'.game_id, arrived'.player_id)
    /\ wire' \in Newer(EncodedView(meant'))
    /\ pc' = "served"
    /\ UNCHANGED <<vars, received, asked>>

\* The stub reads the answer with the class of its method, for App's toObject().
Receive ==
    /\ pc = "served"
    /\ LET class == pb!PictophoneClient[asked.method].response
       IN  received' = pb!ToObject(class, pb!DeserializeBinary(class, wire))
    /\ pc' = "received"
    /\ UNCHANGED <<vars, wire, asked, arrived, meant>>

\* The user has seen the answer.
Done ==
    /\ pc = "received"
    /\ pc' = "idle"
    /\ wire' = Nothing /\ received' = Nothing
    /\ asked' = Nothing /\ arrived' = Nothing /\ meant' = Nothing
    /\ UNCHANGED vars

RpcNext == (\E p \in PlayerIds : Ask(p)) \/ HandleRequest \/ HandleGetGame \/ Receive \/ Done

RpcSpec == RpcInit /\ [][RpcNext]_rpcVars

-----------------------------------------------------------------------------
(* The page of a game: the component Game, in state ready.                 *)

Has(object, name) == name \in DOMAIN object

Shown(kind, list) == [kind |-> kind, list |-> list]

\* Faulty variant: a list of sentences is there when it has one.
PageOfNonEmpty(object) ==
    IF ~Has(object, "game") THEN Shown("Error", <<>>)
    ELSE LET g == object.game
         IN  CASE Has(g, "unstarted") -> Shown("Unstarted", g.playerIdsList)
               [] Has(g, "notYourTurn") -> Shown("NotYourTurn", <<>>)
               [] Has(g, "yourTurn") /\ g.yourTurn.contextList # <<>> ->
                     Shown("YourTurn", g.yourTurn.contextList)
               [] Has(g, "gameOver") -> Shown("GameOver", g.gameOver.sentencesList)
               [] OTHER -> Shown("unreachable", <<>>)

PageOf(object) ==
    IF ~Has(object, "game") THEN Shown("Error", <<>>)
    ELSE LET g == object.game
         IN  CASE Has(g, "unstarted") -> Shown("Unstarted", g.playerIdsList)
               [] Has(g, "notYourTurn") -> Shown("NotYourTurn", <<>>)
               [] Has(g, "yourTurn") -> Shown("YourTurn", g.yourTurn.contextList)
               [] Has(g, "gameOver") -> Shown("GameOver", g.gameOver.sentencesList)
               [] OTHER -> Shown("unreachable", <<>>)

-----------------------------------------------------------------------------
\* The server reads what the user asked for, field by field, although the two ends
\* have their own definitions of the messages (v0_1_pb.js, messages.proto).
RequestArrives == pc = "served" => arrived = asked

ErrorName ==
    [GameAlreadyExists |-> "gameAlreadyExistsError", GameNotFound |-> "gameNotFoundError",
     GameAlreadyStarted |-> "gameAlreadyStartedError", NotYourTurn |-> "notYourTurnError",
     PlayerNotInGame |-> "playerNotInGameError", GameNotStarted |-> "gameNotStartedError",
     GameAlreadyOver |-> "gameAlreadyOverError"]

\* The client finds the error that the logic returned in the answer, and no other,
\* or none when there was none; fields that it does not know change nothing.
AnswerArrives ==
    pc = "received" /\ asked.method # "GetGame" =>
        DOMAIN received = IF meant = None THEN {} ELSE {ErrorName[meant]}

\* The page shows the state that the logic computed for this player, with its players
\* or its sentences, and the end of Game (App.tsx:418) is indeed unreachable.  A
\* message with nothing in it, and a list with nothing in it, tells states apart.
PageShowsTheView ==
    pc = "received" /\ asked.method = "GetGame" =>
        PageOf(received) =
            CASE meant.error # None -> Shown("Error", <<>>)
              [] meant.error = None /\ meant.state = "Unstarted" ->
                    Shown("Unstarted", meant.players)
              [] OTHER -> Shown(meant.state, meant.shown)
=============================================================================
