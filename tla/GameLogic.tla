------------------------------ MODULE GameLogic ------------------------------
(***************************************************************************)
(* The game rules of pictophone: the pure functions that be/logic compiles *)
(* to wasm, and that the server runs once for every action of its log and  *)
(* once for every query.  Nothing here has state: a handler takes an       *)
(* Option<State> and a request, and returns an Option<State> (None: the    *)
(* state does not change) with the error of the response.                  *)
(*                                                                         *)
(* Abstractions.  Identifiers and sentences are opaque values.  Encoding   *)
(* is left out: the messages that the web client writes and reads are in   *)
(* Messages and Rpc, and the logic is the only writer and reader of the    *)
(* state's JSON.  The u32 parameters window_size and length are naturals:  *)
(* they are only compared with the length of an in-memory vector and       *)
(* subtracted with saturation.                                             *)
(***************************************************************************)
EXTENDS Naturals, Sequences

CONSTANTS
    GameIds,        \* the game ids clients name
    PlayerIds,      \* the player ids clients name
    Sentences,      \* the sentences players submit
    WindowSizes,    \* the window sizes clients ask for
    Lengths,        \* the game lengths clients ask for
    None            \* Option::None, for states and for errors

ASSUME ParametersAssumption == WindowSizes \subseteq Nat /\ Lengths \subseteq Nat

\* There is something to say: a player whose turn it is can make a move.
ASSUME SentencesAssumption == Sentences # {}

-----------------------------------------------------------------------------
(* State, main.rs:31-60.  The BTreeMap `games' is the function of its      *)
(* lookups: games[g] is None where the map has no game g.                  *)

UnstartedGame == [status : {"Unstarted"}, players : Seq(PlayerIds)]

StartedGame == [status : {"Started"}, players : Seq(PlayerIds),
                window_size : Nat, length : Nat, sentences : Seq(Sentences)]

Game == UnstartedGame \cup StartedGame

State == [GameIds -> Game \cup {None}]

OptionState == State \cup {None}

Errors == {"GameAlreadyExists", "GameNotFound", "GameAlreadyStarted",
           "PlayerNotInGame", "GameNotStarted", "GameAlreadyOver", "NotYourTurn"}

\* None is neither a game, a state nor an error.
ASSUME NoneAssumption == None \notin Game /\ None \notin State /\ None \notin Errors

DefaultGame == [status |-> "Unstarted", players |-> <<>>]

NoGames == [g \in GameIds |-> None]

UnwrapOrDefault(state) == IF state = None THEN NoGames ELSE state

\* entry(g).or_default() on a map, read only
GameOf(games, g) == IF games[g] = None THEN DefaultGame ELSE games[g]

\* BTreeMap::insert, and the assignment through a mutable entry
Put(games, g, game) == [games EXCEPT ![g] = game]

IsIn(player, players) == \E i \in 1..Len(players) : players[i] = player

IsOver(game) == game.length <= Len(game.sentences)

\* game.players.get(sentences.len() % players.len()).unwrap(): traps when the
\* game has no player (GameService!RosterOK: a started game has one)
ActivePlayer(game) ==
    game.players[(Len(game.sentences) % Len(game.players)) + 1]

-----------------------------------------------------------------------------
(* Requests: the four methods of log.proto's ActionRequest, and GetGame.   *)

CreateGameRequest == [method : {"CreateGame"}, game_id : GameIds, player_id : PlayerIds]
JoinGameRequest == [method : {"JoinGame"}, game_id : GameIds, player_id : PlayerIds]
StartGameRequest == [method : {"StartGame"}, game_id : GameIds, player_id : PlayerIds,
                     window_size : WindowSizes, length : Lengths]
MakeMoveRequest == [method : {"MakeMove"}, game_id : GameIds, player_id : PlayerIds,
                    sentence : Sentences]

ActionRequest == CreateGameRequest \cup JoinGameRequest
                 \cup StartGameRequest \cup MakeMoveRequest

Methods == {"CreateGame", "JoinGame", "StartGame", "MakeMove"}

(* handle_parsed_action maps Ok(state) to (state, no error) and Err(e) to  *)
(* (None, e): an error never carries a state.                              *)
Ok(state) == [state |-> state, error |-> None]
Err(e) == [state |-> None, error |-> e]

-----------------------------------------------------------------------------
CreateGame(state, request) ==
    LET games == UnwrapOrDefault(state)
    IN  IF games[request.game_id] # None
        THEN Err("GameAlreadyExists")
        ELSE Ok(Put(games, request.game_id, DefaultGame))

\* Faulty variant: join_game without the check that the player has joined.
JoinGameTwice(state, request) ==
    LET games == UnwrapOrDefault(state)
        game == GameOf(games, request.game_id)
    IN  CASE games[request.game_id] = None -> Err("GameNotFound")
          [] game.status = "Started" -> Err("GameAlreadyStarted")
          [] OTHER -> Ok(Put(games, request.game_id,
                             [game EXCEPT !.players = Append(@, request.player_id)]))

JoinGame(state, request) ==
    LET games == UnwrapOrDefault(state)
        game == GameOf(games, request.game_id)
    IN  CASE games[request.game_id] = None -> Err("GameNotFound")
          [] game.status = "Started" -> Err("GameAlreadyStarted")
          [] game.status = "Unstarted" /\ IsIn(request.player_id, game.players) -> Ok(None)
          [] OTHER -> Ok(Put(games, request.game_id,
                             [game EXCEPT !.players = Append(@, request.player_id)]))

\* Faulty variants: start_game that restarts a started game, and start_game
\* that does not set up the window, the length and the empty story.
StartGameAgain(state, request) ==
    LET games == UnwrapOrDefault(state)
        game == GameOf(games, request.game_id)
    IN  IF ~IsIn(request.player_id, game.players)
        THEN Err("PlayerNotInGame")
        ELSE Ok(Put(games, request.game_id,
                    [status |-> "Started", players |-> game.players,
                     window_size |-> request.window_size,
                     length |-> request.length, sentences |-> <<>>]))

StartGameStatusOnly(state, request) ==
    LET games == UnwrapOrDefault(state)
        game == GameOf(games, request.game_id)
    IN  IF game.status = "Started" \/ ~IsIn(request.player_id, game.players)
        THEN Err("PlayerNotInGame")
        ELSE Ok(Put(games, request.game_id, [game EXCEPT !.status = "Started"]))

StartGame(state, request) ==
    LET games == UnwrapOrDefault(state)
        game == GameOf(games, request.game_id)
    IN  CASE game.status = "Started" -> Err("GameAlreadyStarted")
          [] game.status = "Unstarted" /\ ~IsIn(request.player_id, game.players) ->
                Err("PlayerNotInGame")
          [] OTHER -> Ok(Put(games, request.game_id,
                             [status |-> "Started", players |-> game.players,
                              window_size |-> request.window_size,
                              length |-> request.length, sentences |-> <<>>]))

\* Faulty variants: make_move without the check of the turn, and make_move
\* without the check that the game is over.
MakeMoveOutOfTurn(state, request) ==
    LET games == UnwrapOrDefault(state)
        game == GameOf(games, request.game_id)
    IN  CASE game.status = "Unstarted" -> Err("GameNotStarted")
          [] game.status = "Started" /\ IsOver(game) -> Err("GameAlreadyOver")
          [] OTHER -> Ok(Put(games, request.game_id,
                             [game EXCEPT !.sentences = Append(@, request.sentence)]))

MakeMoveWhenOver(state, request) ==
    LET games == UnwrapOrDefault(state)
        game == GameOf(games, request.game_id)
    IN  CASE game.status = "Unstarted" -> Err("GameNotStarted")
          [] game.status = "Started" /\ ActivePlayer(game) # request.player_id ->
                Err("NotYourTurn")
          [] OTHER -> Ok(Put(games, request.game_id,
                             [game EXCEPT !.sentences = Append(@, request.sentence)]))

MakeMove(state, request) ==
    LET games == UnwrapOrDefault(state)
        game == GameOf(games, request.game_id)
    IN  CASE game.status = "Unstarted" -> Err("GameNotStarted")
          [] game.status = "Started" /\ IsOver(game) -> Err("GameAlreadyOver")
          [] game.status = "Started" /\ ~IsOver(game)
                /\ ActivePlayer(game) # request.player_id -> Err("NotYourTurn")
          [] OTHER -> Ok(Put(games, request.game_id,
                             [game EXCEPT !.sentences = Append(@, request.sentence)]))

HandleAction(state, request) ==
    CASE request.method = "CreateGame" -> CreateGame(state, request)
      [] request.method = "JoinGame" -> JoinGame(state, request)
      [] request.method = "StartGame" -> StartGame(state, request)
      [] request.method = "MakeMove" -> MakeMove(state, request)

-----------------------------------------------------------------------------
(* get_game: what a player may see of a game.                              *)

\* Faulty variant: the window is one sentence too wide.
WindowTooWide(game) ==
    LET len == Len(game.sentences)
        start == IF len > game.window_size + 1 THEN len - game.window_size - 1 ELSE 0
    IN  SubSeq(game.sentences, start + 1, len)

\* game.sentences[start_offset..], start_offset = len.saturating_sub(window)
Window(game) ==
    LET len == Len(game.sentences)
        start == IF len > game.window_size THEN len - game.window_size ELSE 0
    IN  SubSeq(game.sentences, start + 1, len)

View(players, turn, shown) ==
    [players |-> players, state |-> turn, shown |-> shown, error |-> None]

NoView == [players |-> <<>>, state |-> "None", shown |-> <<>>, error |-> "PlayerNotInGame"]

GetGame(state, g, player) ==
    LET game == GameOf(UnwrapOrDefault(state), g)
    IN  CASE ~IsIn(player, game.players) -> NoView
          [] IsIn(player, game.players) /\ game.status = "Unstarted" ->
                View(game.players, "Unstarted", <<>>)
          [] IsIn(player, game.players) /\ game.status = "Started" /\ IsOver(game) ->
                View(game.players, "GameOver", game.sentences)
          [] IsIn(player, game.players) /\ game.status = "Started" /\ ~IsOver(game)
                /\ ActivePlayer(game) # player ->
                View(game.players, "NotYourTurn", <<>>)
          [] OTHER -> View(game.players, "YourTurn", Window(game))

-----------------------------------------------------------------------------
\* Faulty variant: the state of the response replaces the old one even where
\* the response carries none.
NextStateAsReplied(state, request) == HandleAction(state, request).state

(* fold_state of the server: new_state.or(old_state).                      *)
NextState(state, request) ==
    LET new == HandleAction(state, request).state
    IN  IF new # None THEN new ELSE state
=============================================================================
