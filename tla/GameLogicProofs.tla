---------------------------- MODULE GameLogicProofs ----------------------------
(***************************************************************************)
(* Lemmas about the operators of GameLogic, for any sets of games, players,*)
(* sentences, windows and lengths: what a method may do to the state, whose*)
(* turn it is, and what of a story a player is shown.  GameServiceProofs   *)
(* and ServerProofs rest on them.                                          *)
(***************************************************************************)
EXTENDS GameLogic, SequenceTheorems, TLAPS

LEMMA GameOfType ==
    ASSUME NEW games \in State, NEW g \in GameIds
    PROVE  GameOf(games, g) \in Game
BY DEF GameOf, State, DefaultGame, Game, UnstartedGame

LEMMA UnwrapType ==
    ASSUME NEW st \in OptionState
    PROVE  UnwrapOrDefault(st) \in State
BY DEF UnwrapOrDefault, OptionState, NoGames, State

LEMMA PutType ==
    ASSUME NEW games \in State, NEW g \in GameIds, NEW game \in Game
    PROVE  Put(games, g, game) \in State
BY DEF Put, State

LEMMA JoinedGameType ==
    ASSUME NEW game \in UnstartedGame, NEW p \in PlayerIds
    PROVE  [game EXCEPT !.players = Append(@, p)] \in UnstartedGame
<1>1. Append(game.players, p) \in Seq(PlayerIds)
  BY AppendProperties DEF UnstartedGame
<1>. QED
  BY <1>1 DEF UnstartedGame

LEMMA MovedGameType ==
    ASSUME NEW game \in StartedGame, NEW s \in Sentences
    PROVE  [game EXCEPT !.sentences = Append(@, s)] \in StartedGame
<1>1. Append(game.sentences, s) \in Seq(Sentences)
  BY AppendProperties DEF StartedGame
<1>. QED
  BY <1>1 DEF StartedGame

\* What each method may do to the state: leave it, or put one game into it.
ActionOutcome(games, request, result) ==
    LET g == request.game_id
        p == request.player_id
        game == GameOf(games, g)
    IN  \/ result.state = None /\ result.error \in Errors
        \/ /\ result = Ok(None) /\ request.method = "JoinGame"
        \/ /\ request.method = "CreateGame"
           /\ games[g] = None
           /\ result = Ok(Put(games, g, DefaultGame))
        \/ /\ request.method = "JoinGame"
           /\ games[g] # None /\ game.status = "Unstarted"
           /\ ~IsIn(p, game.players)
           /\ result = Ok(Put(games, g, [game EXCEPT !.players = Append(@, p)]))
        \/ /\ request.method = "StartGame"
           /\ game.status = "Unstarted" /\ IsIn(p, game.players)
           /\ result = Ok(Put(games, g,
                              [status |-> "Started", players |-> game.players,
                               window_size |-> request.window_size,
                               length |-> request.length, sentences |-> <<>>]))
        \/ /\ request.method = "MakeMove"
           /\ game.status = "Started" /\ ~IsOver(game) /\ ActivePlayer(game) = p
           /\ result = Ok(Put(games, g,
                              [game EXCEPT !.sentences = Append(@, request.sentence)]))

LEMMA HandleActionCases ==
    ASSUME NEW st \in OptionState, NEW request \in ActionRequest
    PROVE  ActionOutcome(UnwrapOrDefault(st), request, HandleAction(st, request))
<1>. DEFINE games == UnwrapOrDefault(st)
            g == request.game_id
            game == GameOf(games, g)
<1>1. games \in State /\ g \in GameIds /\ game \in Game
  BY UnwrapType, GameOfType DEF ActionRequest, CreateGameRequest, JoinGameRequest,
     StartGameRequest, MakeMoveRequest
<1>2. game.status \in {"Unstarted", "Started"}
  BY <1>1 DEF Game, UnstartedGame, StartedGame
<1>3. CASE request \in CreateGameRequest
  <2>1. request.method = "CreateGame" /\ HandleAction(st, request) = CreateGame(st, request)
    BY <1>3 DEF HandleAction, CreateGameRequest
  <2>. QED
    BY <2>1 DEF CreateGame, ActionOutcome, Ok, Err, Errors
<1>4. CASE request \in JoinGameRequest
  <2>1. request.method = "JoinGame" /\ HandleAction(st, request) = JoinGame(st, request)
    BY <1>4 DEF HandleAction, JoinGameRequest
  <2>. QED
    BY <2>1, <1>2 DEF JoinGame, ActionOutcome, Ok, Err, Errors
<1>5. CASE request \in StartGameRequest
  <2>1. request.method = "StartGame" /\ HandleAction(st, request) = StartGame(st, request)
    BY <1>5 DEF HandleAction, StartGameRequest
  <2>. QED
    BY <2>1, <1>2 DEF StartGame, ActionOutcome, Ok, Err, Errors
<1>6. CASE request \in MakeMoveRequest
  <2>1. request.method = "MakeMove" /\ HandleAction(st, request) = MakeMove(st, request)
    BY <1>6 DEF HandleAction, MakeMoveRequest
  <2>. QED
    BY <2>1, <1>2 DEF MakeMove, ActionOutcome, Ok, Err, Errors
<1>. QED
  BY <1>3, <1>4, <1>5, <1>6 DEF ActionRequest

\* A method that puts a game into the state leaves a state.
LEMMA OutcomeType ==
    ASSUME NEW games \in State, NEW request \in ActionRequest, NEW result,
           ActionOutcome(games, request, result)
    PROVE  result.state \in OptionState /\ result.error \in Errors \cup {None}
<1>. DEFINE g == request.game_id
            p == request.player_id
            game == GameOf(games, g)
<1>1. /\ g \in GameIds /\ p \in PlayerIds /\ game \in Game
      /\ request.method = "StartGame" => request.window_size \in Nat /\ request.length \in Nat
      /\ request.method = "MakeMove" => request.sentence \in Sentences
  BY GameOfType, ParametersAssumption DEF ActionRequest, CreateGameRequest, JoinGameRequest,
     StartGameRequest, MakeMoveRequest
<1>2. /\ game.status = "Unstarted" => game \in UnstartedGame
      /\ game.status = "Started" => game \in StartedGame
  BY <1>1 DEF Game, UnstartedGame, StartedGame
<1>3. ASSUME NEW new \in Game, result = Ok(Put(games, g, new))
      PROVE  result.state \in OptionState /\ result.error \in Errors \cup {None}
  <2>1. Put(games, g, new) \in State
    BY <1>1, PutType
  <2>. QED
    BY <2>1, <1>3 DEF Ok, OptionState
<1>4. CASE result.state = None /\ result.error \in Errors \cup {None}
  BY <1>4 DEF OptionState
<1>5. CASE result = Ok(Put(games, g, DefaultGame))
  <2>1. DefaultGame \in Game
    BY DEF DefaultGame, Game, UnstartedGame
  <2>. QED
    BY <2>1, <1>3, <1>5
<1>6. CASE game.status = "Unstarted" /\ result = Ok(Put(games, g, [game EXCEPT !.players = Append(@, p)]))
  <2>1. [game EXCEPT !.players = Append(@, p)] \in Game
    BY <1>1, <1>2, <1>6, JoinedGameType DEF Game
  <2>. QED
    BY <2>1, <1>3, <1>6
<1>7. CASE /\ request.method = "StartGame" /\ game.status = "Unstarted"
           /\ result = Ok(Put(games, g,
                              [status |-> "Started", players |-> game.players,
                               window_size |-> request.window_size,
                               length |-> request.length, sentences |-> <<>>]))
  <2>1. [status |-> "Started", players |-> game.players, window_size |-> request.window_size,
         length |-> request.length, sentences |-> <<>>] \in Game
    BY <1>1, <1>2, <1>7 DEF Game, UnstartedGame, StartedGame
  <2>. QED
    BY <2>1, <1>3, <1>7
<1>8. CASE /\ request.method = "MakeMove" /\ game.status = "Started"
           /\ result = Ok(Put(games, g,
                              [game EXCEPT !.sentences = Append(@, request.sentence)]))
  <2>1. [game EXCEPT !.sentences = Append(@, request.sentence)] \in Game
    BY <1>1, <1>2, <1>8, MovedGameType DEF Game
  <2>. QED
    BY <2>1, <1>3, <1>8
<1>9. Ok(None).state = None /\ Ok(None).error = None
  BY DEF Ok
<1>. QED
  BY <1>4, <1>5, <1>6, <1>7, <1>8, <1>9 DEF ActionOutcome

LEMMA HandleActionType ==
    ASSUME NEW st \in OptionState, NEW request \in ActionRequest
    PROVE  /\ HandleAction(st, request).state \in OptionState
           /\ HandleAction(st, request).error \in Errors \cup {None}
<1>1. ActionOutcome(UnwrapOrDefault(st), request, HandleAction(st, request))
  BY HandleActionCases
<1>. QED
  BY <1>1, UnwrapType, OutcomeType

LEMMA NextStateType ==
    ASSUME NEW st \in OptionState, NEW request \in ActionRequest
    PROVE  NextState(st, request) \in OptionState
BY HandleActionType DEF NextState

-----------------------------------------------------------------------------
(* Rosters.                                                                *)

\* GameService!RosterOK, of one game: its players are distinct, and once it is
\* started it has one.
RosterOf(game) ==
    game # None =>
        /\ \A i, j \in 1..Len(game.players) : game.players[i] = game.players[j] => i = j
        /\ game.status = "Started" => game.players # <<>>

Rosters(st) == \A g \in GameIds : RosterOf(UnwrapOrDefault(st)[g])

LEMMA JoinedRoster ==
    ASSUME NEW game \in UnstartedGame, NEW p \in PlayerIds,
           RosterOf(game), ~IsIn(p, game.players)
    PROVE  RosterOf([game EXCEPT !.players = Append(@, p)])
<1>. DEFINE new == Append(game.players, p)
<1>1. game # None
  BY NoneAssumption DEF Game
<1>2. game.players \in Seq(PlayerIds) /\ game.status = "Unstarted"
  BY DEF UnstartedGame
<1>3. \A i, j \in 1..Len(game.players) : game.players[i] = game.players[j] => i = j
  BY <1>1 DEF RosterOf
<1>4. \A i \in 1..Len(game.players) : game.players[i] # p
  BY DEF IsIn
<1>5. \A i, j \in 1..Len(new) : new[i] = new[j] => i = j
  BY <1>2, <1>3, <1>4, AppendProperties
<1>6. /\ [game EXCEPT !.players = new].players = new
      /\ [game EXCEPT !.players = new].status = "Unstarted"
  BY <1>2 DEF UnstartedGame
<1>. QED
  BY <1>5, <1>6 DEF RosterOf

LEMMA StartedRoster ==
    ASSUME NEW game \in UnstartedGame, NEW p \in PlayerIds, NEW w, NEW n,
           RosterOf(game), IsIn(p, game.players)
    PROVE  RosterOf([status |-> "Started", players |-> game.players,
                     window_size |-> w, length |-> n, sentences |-> <<>>])
<1>1. game # None
  BY NoneAssumption DEF Game
<1>2. game.players # <<>>
  BY DEF IsIn, UnstartedGame
<1>. QED
  BY <1>1, <1>2 DEF RosterOf

LEMMA MovedGame ==
    ASSUME NEW game \in StartedGame, NEW s \in Sentences
    PROVE  LET new == [game EXCEPT !.sentences = Append(@, s)]
           IN  /\ new # None
               /\ new.status = "Started" /\ new.players = game.players
               /\ new.length = game.length /\ new.window_size = game.window_size
               /\ new.sentences = Append(game.sentences, s)
<1>. DEFINE new == [game EXCEPT !.sentences = Append(@, s)]
<1>1. new \in StartedGame
  BY MovedGameType
<1>2. new # None
  BY <1>1, NoneAssumption DEF Game
<1>. QED
  BY <1>1, <1>2 DEF StartedGame

\* No action makes a roster that is not one.
LEMMA RostersKept ==
    ASSUME NEW st \in OptionState, NEW request \in ActionRequest, Rosters(st)
    PROVE  Rosters(NextState(st, request))
<1>. DEFINE games == UnwrapOrDefault(st)
            g == request.game_id
            p == request.player_id
            game == GameOf(games, g)
            result == HandleAction(st, request)
<1>1. games \in State /\ g \in GameIds /\ p \in PlayerIds /\ game \in Game
  BY UnwrapType, GameOfType DEF ActionRequest, CreateGameRequest, JoinGameRequest,
     StartGameRequest, MakeMoveRequest
<1>2. request.method = "MakeMove" => request.sentence \in Sentences
  BY DEF ActionRequest, CreateGameRequest, JoinGameRequest, StartGameRequest, MakeMoveRequest
<1>3. /\ game.status = "Unstarted" => game \in UnstartedGame
      /\ game.status = "Started" => game \in StartedGame
  BY <1>1 DEF Game, UnstartedGame, StartedGame
<1>4. RosterOf(DefaultGame)
  BY DEF RosterOf, DefaultGame
<1>5. RosterOf(game)
  BY <1>1, <1>4 DEF Rosters, GameOf
<1>6. ASSUME NEW new \in Game, RosterOf(new), result = Ok(Put(games, g, new))
      PROVE  Rosters(NextState(st, request))
  <2>1. Put(games, g, new) \in State /\ Put(games, g, new) # None
    BY <1>1, PutType, NoneAssumption
  <2>2. NextState(st, request) = Put(games, g, new)
    BY <1>6, <2>1 DEF NextState, Ok
  <2>3. UnwrapOrDefault(NextState(st, request)) = [games EXCEPT ![g] = new]
    BY <2>1, <2>2 DEF UnwrapOrDefault, Put
  <2>4. \A h \in GameIds : RosterOf([games EXCEPT ![g] = new][h])
    BY <1>1, <1>6 DEF Rosters, State
  <2>. QED
    BY <2>3, <2>4 DEF Rosters
<1>7. CASE result.state = None
  BY <1>7 DEF NextState
<1>8. CASE request.method = "CreateGame" /\ result = Ok(Put(games, g, DefaultGame))
  <2>1. DefaultGame \in Game
    BY DEF DefaultGame, Game, UnstartedGame
  <2>. QED  BY <1>4, <1>6, <1>8, <2>1
<1>9. CASE /\ game.status = "Unstarted" /\ ~IsIn(p, game.players)
           /\ result = Ok(Put(games, g, [game EXCEPT !.players = Append(@, p)]))
  <2>1. RosterOf([game EXCEPT !.players = Append(@, p)])
    BY <1>1, <1>3, <1>5, <1>9, JoinedRoster
  <2>2. [game EXCEPT !.players = Append(@, p)] \in Game
    BY <1>1, <1>3, <1>9, JoinedGameType DEF Game
  <2>. QED  BY <1>6, <1>9, <2>1, <2>2
<1>10. CASE /\ request.method = "StartGame"
            /\ game.status = "Unstarted" /\ IsIn(p, game.players)
            /\ result = Ok(Put(games, g,
                               [status |-> "Started", players |-> game.players,
                                window_size |-> request.window_size,
                                length |-> request.length, sentences |-> <<>>]))
  <2>. DEFINE new == [status |-> "Started", players |-> game.players,
                      window_size |-> request.window_size,
                      length |-> request.length, sentences |-> <<>>]
  <2>1. request.window_size \in Nat /\ request.length \in Nat
    BY <1>10, ParametersAssumption DEF ActionRequest, CreateGameRequest, JoinGameRequest,
       StartGameRequest, MakeMoveRequest
  <2>2. RosterOf(new)
    BY <1>1, <1>3, <1>5, <1>10, StartedRoster
  <2>3. new \in Game
    BY <1>3, <1>10, <2>1 DEF Game, UnstartedGame, StartedGame
  <2>. HIDE DEF new
  <2>. QED  BY <1>6, <1>10, <2>2, <2>3 DEF new
<1>11. CASE /\ request.method = "MakeMove" /\ game.status = "Started"
            /\ result = Ok(Put(games, g, [game EXCEPT !.sentences = Append(@, request.sentence)]))
  <2>. DEFINE new == [game EXCEPT !.sentences = Append(@, request.sentence)]
  <2>1. game \in StartedGame /\ game # None /\ new \in StartedGame
    BY <1>2, <1>3, <1>11, MovedGameType, NoneAssumption DEF Game
  <2>2. new # None /\ new.status = "Started" /\ new.players = game.players
    BY <1>2, <1>11, <2>1, MovedGame
  <2>3. RosterOf(new) /\ new \in Game
    BY <1>5, <1>11, <2>1, <2>2 DEF RosterOf, Game
  <2>. HIDE DEF new
  <2>. QED  BY <1>6, <1>11, <2>3 DEF new
<1>. HIDE DEF g, p, game, result
<1>12. ActionOutcome(games, request, result)
  BY HandleActionCases DEF result
<1>. QED
  BY <1>7, <1>8, <1>9, <1>10, <1>11, <1>12 DEF ActionOutcome, Ok, g, p, game

-----------------------------------------------------------------------------
(* Games only grow.                                                        *)

Extends(s, t) == Len(s) <= Len(t) /\ \A i \in 1..Len(s) : s[i] = t[i]

\* GameService!GamesOnlyGrow, of one game; and a game that is over is over for
\* good, with its story.
GameGrows(old, new) ==
    old # None =>
        /\ new # None
        /\ IF old.status = "Started"
           THEN /\ new.status = "Started"
                /\ new.players = old.players
                /\ new.window_size = old.window_size
                /\ new.length = old.length
                /\ Extends(old.sentences, new.sentences)
                /\ IsOver(old) => new = old
           ELSE Extends(old.players, new.players)

LEMMA AppendExtends ==
    ASSUME NEW S, NEW s \in Seq(S), NEW x \in S
    PROVE  Extends(s, Append(s, x))
BY AppendProperties DEF Extends

LEMMA SameExtends ==
    ASSUME NEW S, NEW s \in Seq(S)
    PROVE  Extends(s, s)
BY LenProperties DEF Extends

LEMMA SameGrows ==
    ASSUME NEW game \in Game \cup {None}
    PROVE  GameGrows(game, game)
<1>1. CASE game \in UnstartedGame
  BY <1>1 DEF GameGrows, Extends, UnstartedGame
<1>2. CASE game \in StartedGame
  BY <1>2 DEF GameGrows, Extends, StartedGame
<1>. QED
  BY <1>1, <1>2 DEF Game, GameGrows

\* No action takes anything back.
LEMMA GamesKept ==
    ASSUME NEW st \in OptionState, NEW request \in ActionRequest, NEW h \in GameIds
    PROVE  GameGrows(UnwrapOrDefault(st)[h], UnwrapOrDefault(NextState(st, request))[h])
<1>. DEFINE games == UnwrapOrDefault(st)
            g == request.game_id
            p == request.player_id
            game == GameOf(games, g)
            result == HandleAction(st, request)
<1>1. games \in State /\ g \in GameIds /\ p \in PlayerIds /\ game \in Game
  BY UnwrapType, GameOfType DEF ActionRequest, CreateGameRequest, JoinGameRequest,
     StartGameRequest, MakeMoveRequest
<1>2. request.method = "MakeMove" => request.sentence \in Sentences
  BY DEF ActionRequest, CreateGameRequest, JoinGameRequest, StartGameRequest, MakeMoveRequest
<1>3. /\ game.status = "Unstarted" => game \in UnstartedGame
      /\ game.status = "Started" => game \in StartedGame
  BY <1>1 DEF Game, UnstartedGame, StartedGame
<1>4. games[g] # None => game = games[g]
  BY DEF GameOf
<1>5. \A f \in GameIds : GameGrows(games[f], games[f])
  BY <1>1, SameGrows DEF State
<1>6. ASSUME NEW new \in Game, GameGrows(games[g], new), result = Ok(Put(games, g, new))
      PROVE  GameGrows(games[h], UnwrapOrDefault(NextState(st, request))[h])
  <2>1. Put(games, g, new) \in State /\ Put(games, g, new) # None
    BY <1>1, PutType, NoneAssumption
  <2>2. NextState(st, request) = Put(games, g, new)
    BY <1>6, <2>1 DEF NextState, Ok
  <2>3. UnwrapOrDefault(NextState(st, request)) = [games EXCEPT ![g] = new]
    BY <2>1, <2>2 DEF UnwrapOrDefault, Put
  <2>4. GameGrows(games[h], [games EXCEPT ![g] = new][h])
    BY <1>1, <1>5, <1>6 DEF State
  <2>. QED
    BY <2>3, <2>4
<1>7. CASE result.state = None
  BY <1>5, <1>7 DEF NextState
<1>8. CASE games[g] = None /\ result = Ok(Put(games, g, DefaultGame))
  <2>1. DefaultGame \in Game /\ GameGrows(games[g], DefaultGame)
    BY <1>8 DEF DefaultGame, Game, UnstartedGame, GameGrows
  <2>. QED  BY <1>6, <1>8, <2>1
<1>9. CASE /\ games[g] # None /\ game.status = "Unstarted"
           /\ result = Ok(Put(games, g, [game EXCEPT !.players = Append(@, p)]))
  <2>. DEFINE new == [game EXCEPT !.players = Append(@, p)]
  <2>1. game \in UnstartedGame /\ new \in UnstartedGame
        /\ new.players = Append(game.players, p)
    BY <1>1, <1>3, <1>9, JoinedGameType DEF UnstartedGame
  <2>2. Extends(game.players, new.players)
    BY <1>1, <2>1, AppendExtends DEF UnstartedGame
  <2>3. new \in Game /\ new # None
    BY <2>1, NoneAssumption DEF Game
  <2>4. GameGrows(games[g], new)
    BY <1>4, <1>9, <2>1, <2>2, <2>3 DEF GameGrows
  <2>. HIDE DEF new
  <2>. QED  BY <1>6, <1>9, <2>3, <2>4 DEF new
<1>10. CASE /\ request.method = "StartGame"
            /\ game.status = "Unstarted" /\ IsIn(p, game.players)
            /\ result = Ok(Put(games, g,
                               [status |-> "Started", players |-> game.players,
                                window_size |-> request.window_size,
                                length |-> request.length, sentences |-> <<>>]))
  <2>. DEFINE new == [status |-> "Started", players |-> game.players,
                      window_size |-> request.window_size,
                      length |-> request.length, sentences |-> <<>>]
  <2>1. request.window_size \in Nat /\ request.length \in Nat
    BY <1>10, ParametersAssumption DEF ActionRequest, CreateGameRequest, JoinGameRequest,
       StartGameRequest, MakeMoveRequest
  <2>2. game \in UnstartedGame /\ new.players = game.players
    BY <1>3, <1>10
  <2>3. new \in Game
    BY <1>3, <1>10, <2>1 DEF Game, UnstartedGame, StartedGame
  <2>4. Extends(game.players, new.players)
    BY <2>2, SameExtends DEF UnstartedGame
  <2>. HIDE DEF new
  <2>5. GameGrows(games[g], new)
    BY <1>4, <1>10, <2>2, <2>3, <2>4, NoneAssumption DEF GameGrows
  <2>. QED  BY <1>6, <1>10, <2>3, <2>5 DEF new
<1>11. CASE /\ request.method = "MakeMove" /\ game.status = "Started" /\ ~IsOver(game)
            /\ result = Ok(Put(games, g, [game EXCEPT !.sentences = Append(@, request.sentence)]))
  <2>. DEFINE new == [game EXCEPT !.sentences = Append(@, request.sentence)]
  <2>1. game \in StartedGame /\ new \in StartedGame
    BY <1>2, <1>3, <1>11, MovedGameType
  <2>2. /\ new # None
        /\ new.status = "Started" /\ new.players = game.players
        /\ new.length = game.length /\ new.window_size = game.window_size
        /\ new.sentences = Append(game.sentences, request.sentence)
    BY <1>2, <1>11, <2>1, MovedGame
  <2>3. Extends(game.sentences, new.sentences)
    BY <1>2, <1>11, <2>1, <2>2, AppendExtends DEF StartedGame
  <2>4. new \in Game
    BY <2>1 DEF Game
  <2>. HIDE DEF new
  <2>5. GameGrows(games[g], new)
    BY <1>4, <1>11, <2>2, <2>3 DEF GameGrows
  <2>. QED  BY <1>6, <1>11, <2>4, <2>5 DEF new
<1>. HIDE DEF g, p, game, result
<1>12. ActionOutcome(games, request, result)
  BY HandleActionCases DEF result
<1>. QED
  BY <1>7, <1>8, <1>9, <1>10, <1>11, <1>12 DEF ActionOutcome, Ok, g, p, game

-----------------------------------------------------------------------------
(* Turns.                                                                  *)

LEMMA NoUnitMultiple ==
    ASSUME NEW k \in Nat, k > 1, NEW q \in Int
    PROVE  k * q # 1
<1>1. CASE q <= 0
  <2>1. k * q <= 0
    BY <1>1
  <2>. QED  BY <2>1
<1>2. CASE q >= 1
  <2>1. k * q >= k
    BY <1>2
  <2>. QED  BY <2>1
<1>. QED
  BY <1>1, <1>2

\* With two players or more, the next sentence is another player's.
LEMMA RotationMovesOn ==
    ASSUME NEW n \in Nat \ {0}, NEW k \in Nat, k > 1
    PROVE  ((n - 1) % k) # (n % k)
<1>. DEFINE a == n \div k
            b == (n - 1) \div k
<1>1. n = (k * a) + (n % k) /\ a \in Int
  OBVIOUS
<1>2. n - 1 = (k * b) + ((n - 1) % k) /\ b \in Int
  OBVIOUS
<1>3. k * (a - b) = (k * a) - (k * b)
  BY <1>1, <1>2
<1>. HIDE DEF a, b
<1>4. k * (a - b) # 1
  <2>1. a - b \in Int
    BY <1>1, <1>2
  <2>. QED  BY <2>1, NoUnitMultiple
<1>5. (n % k) \in Int /\ ((n - 1) % k) \in Int /\ (k * a) \in Int /\ (k * b) \in Int
  BY <1>1, <1>2
<1>. QED
  BY <1>1, <1>2, <1>3, <1>4, <1>5

LEMMA IndexInRotation ==
    ASSUME NEW n \in Nat, NEW k \in Nat \ {0}
    PROVE  (n % k) + 1 \in 1..k
OBVIOUS

\* The index arithmetic of make_move and get_game is defined, and names one of
\* the players.
LEMMA ActivePlayerIsIn ==
    ASSUME NEW game \in StartedGame, game.players # <<>>
    PROVE  IsIn(ActivePlayer(game), game.players) /\ ActivePlayer(game) \in PlayerIds
<1>. DEFINE i == (Len(game.sentences) % Len(game.players)) + 1
<1>1. game.players \in Seq(PlayerIds) /\ game.sentences \in Seq(Sentences)
  BY DEF StartedGame
<1>2. Len(game.players) \in Nat \ {0} /\ Len(game.sentences) \in Nat
  BY <1>1, EmptySeq, LenProperties
<1>3. i \in 1..Len(game.players)
  BY <1>2, IndexInRotation
<1>4. game.players[i] \in PlayerIds
  BY <1>1, <1>3, ElementOfSeq
<1>. HIDE DEF i
<1>5. ActivePlayer(game) = game.players[i]
  BY DEF ActivePlayer, i
<1>. QED
  BY <1>3, <1>4, <1>5 DEF IsIn

\* When a move of p is accepted: make_move's checks, all passed.
MayMove(game, p) == game.status = "Started" /\ ~IsOver(game) /\ ActivePlayer(game) = p

LEMMA MoveAnswer ==
    ASSUME NEW st \in OptionState, NEW g \in GameIds, NEW p \in PlayerIds, NEW s \in Sentences
    PROVE  LET request == [method |-> "MakeMove", game_id |-> g, player_id |-> p, sentence |-> s]
           IN  HandleAction(st, request).error = None
                 <=> MayMove(GameOf(UnwrapOrDefault(st), g), p)
<1>. DEFINE request == [method |-> "MakeMove", game_id |-> g, player_id |-> p, sentence |-> s]
            game == GameOf(UnwrapOrDefault(st), g)
<1>1. game \in Game
  BY UnwrapType, GameOfType
<1>2. game.status \in {"Unstarted", "Started"}
  BY <1>1 DEF Game, UnstartedGame, StartedGame
<1>3. HandleAction(st, request) = MakeMove(st, request)
  BY DEF HandleAction
<1>4. None \notin {"GameNotStarted", "GameAlreadyOver", "NotYourTurn"}
  BY NoneAssumption DEF Errors
<1>5. CASE game.status = "Unstarted"
  <2>1. MakeMove(st, request) = Err("GameNotStarted")
    BY <1>5 DEF MakeMove
  <2>. QED  BY <1>3, <1>4, <1>5, <2>1 DEF Err, MayMove
<1>6. CASE game.status = "Started" /\ IsOver(game)
  <2>1. MakeMove(st, request) = Err("GameAlreadyOver")
    BY <1>6 DEF MakeMove
  <2>. QED  BY <1>3, <1>4, <1>6, <2>1 DEF Err, MayMove
<1>7. CASE game.status = "Started" /\ ~IsOver(game) /\ ActivePlayer(game) # p
  <2>1. MakeMove(st, request) = Err("NotYourTurn")
    BY <1>7 DEF MakeMove
  <2>. QED  BY <1>3, <1>4, <1>7, <2>1 DEF Err, MayMove
<1>8. CASE MayMove(game, p)
  <2>1. MakeMove(st, request).error = None
    BY <1>8 DEF MakeMove, MayMove, Ok
  <2>. QED  BY <1>3, <1>8, <2>1
<1>. QED
  BY <1>2, <1>5, <1>6, <1>7, <1>8 DEF MayMove

\* What get_game tells a player, from her place in the game.
LEMMA GetGameCases ==
    ASSUME NEW st \in OptionState, NEW g \in GameIds, NEW p \in PlayerIds
    PROVE  LET game == GameOf(UnwrapOrDefault(st), g)
               view == GetGame(st, g, p)
           IN  /\ ~IsIn(p, game.players) => view = NoView
               /\ IsIn(p, game.players) /\ game.status = "Unstarted" =>
                     view = View(game.players, "Unstarted", <<>>)
               /\ IsIn(p, game.players) /\ game.status = "Started" /\ IsOver(game) =>
                     view = View(game.players, "GameOver", game.sentences)
               /\ /\ IsIn(p, game.players) /\ game.status = "Started"
                  /\ ~IsOver(game) /\ ActivePlayer(game) # p
                  => view = View(game.players, "NotYourTurn", <<>>)
               /\ IsIn(p, game.players) /\ MayMove(game, p) =>
                     view = View(game.players, "YourTurn", Window(game))
               /\ game.status \in {"Unstarted", "Started"}
<1>. DEFINE game == GameOf(UnwrapOrDefault(st), g)
<1>1. game.status \in {"Unstarted", "Started"}
  BY UnwrapType, GameOfType DEF Game, UnstartedGame, StartedGame
<1>. HIDE DEF game
<1>2. GetGame(st, g, p) =
        CASE ~IsIn(p, game.players) -> NoView
          [] IsIn(p, game.players) /\ game.status = "Unstarted" ->
                View(game.players, "Unstarted", <<>>)
          [] IsIn(p, game.players) /\ game.status = "Started" /\ IsOver(game) ->
                View(game.players, "GameOver", game.sentences)
          [] IsIn(p, game.players) /\ game.status = "Started" /\ ~IsOver(game)
                /\ ActivePlayer(game) # p ->
                View(game.players, "NotYourTurn", <<>>)
          [] OTHER -> View(game.players, "YourTurn", Window(game))
  BY DEF GetGame, game
<1>. QED
  BY <1>1, <1>2 DEF MayMove, game

\* What a player is shown only moves on, and ends with the story.
ViewMovesOn(old, new) ==
    /\ old.state # "None" => new.state # "None" /\ Extends(old.players, new.players)
    /\ old.state \in {"YourTurn", "NotYourTurn"} =>
          new.state \in {"YourTurn", "NotYourTurn", "GameOver"} /\ new.players = old.players
    /\ old.state = "GameOver" => new = old

LEMMA ViewsKept ==
    ASSUME NEW st \in OptionState, NEW later \in OptionState, NEW g \in GameIds, NEW p \in PlayerIds,
           GameGrows(UnwrapOrDefault(st)[g], UnwrapOrDefault(later)[g])
    PROVE  ViewMovesOn(GetGame(st, g, p), GetGame(later, g, p))
<1>. DEFINE old == GameOf(UnwrapOrDefault(st), g)
            new == GameOf(UnwrapOrDefault(later), g)
<1>1. old \in Game /\ new \in Game
  BY UnwrapType, GameOfType
<1>2. /\ old.players \in Seq(PlayerIds) /\ new.players \in Seq(PlayerIds)
      /\ old.status \in {"Unstarted", "Started"}
  BY <1>1 DEF Game, UnstartedGame, StartedGame
<1>3. /\ old.status = "Started" =>
            /\ new.status = "Started" /\ new.players = old.players
            /\ IsOver(old) => new = old
      /\ Extends(old.players, new.players)
  <2>1. CASE UnwrapOrDefault(st)[g] = None
    <3>1. old = DefaultGame
      BY <2>1 DEF GameOf
    <3>. QED
      BY <1>2, <3>1, LenProperties DEF DefaultGame, Extends
  <2>2. CASE UnwrapOrDefault(st)[g] # None
    <3>1. old = UnwrapOrDefault(st)[g] /\ new = UnwrapOrDefault(later)[g]
      BY <2>2 DEF GameOf, GameGrows
    <3>2. Extends(old.players, old.players)
      BY <1>2, SameExtends
    <3>. HIDE DEF old, new
    <3>. QED
      BY <2>2, <3>1, <3>2 DEF GameGrows
  <2>. QED
    BY <2>1, <2>2
<1>. HIDE DEF old, new
<1>4. IsIn(p, old.players) => IsIn(p, new.players)
  <2>1. Len(old.players) \in Nat /\ Len(new.players) \in Nat
    BY <1>2, LenProperties
  <2>. QED
    BY <1>3, <2>1 DEF IsIn, Extends
<1>. DEFINE view == GetGame(st, g, p)
            next == GetGame(later, g, p)
\* Of each of the two games: what is shown, by its status.
<1>5. /\ ~IsIn(p, old.players) => view.state = "None"
      /\ IsIn(p, old.players) => view.players = old.players
      /\ view.state = "GameOver" =>
            /\ old.status = "Started" /\ IsOver(old) /\ IsIn(p, old.players)
            /\ view = View(old.players, "GameOver", old.sentences)
      /\ view.state \in {"YourTurn", "NotYourTurn"} => old.status = "Started" /\ IsIn(p, old.players)
  BY GetGameCases DEF old, NoView, View, MayMove
<1>6. /\ IsIn(p, new.players) => next.players = new.players
      /\ IsIn(p, new.players) => next.state # "None"
      /\ IsIn(p, new.players) /\ new.status = "Started" =>
            next.state \in {"YourTurn", "NotYourTurn", "GameOver"}
      /\ IsIn(p, new.players) /\ new.status = "Started" /\ IsOver(new) =>
            next = View(new.players, "GameOver", new.sentences)
  BY GetGameCases DEF new, NoView, View, MayMove
<1>. HIDE DEF view, next
<1>. QED
  BY <1>3, <1>4, <1>5, <1>6 DEF ViewMovesOn, view, next

\* The last window_size sentences of a story, or all of it.
LEMMA WindowIsTheEnd ==
    ASSUME NEW game \in StartedGame
    PROVE  LET n == Len(game.sentences)
               k == Len(Window(game))
           IN  /\ k \in Nat /\ k <= game.window_size
               /\ \A i \in 1..k : Window(game)[i] = game.sentences[n - k + i]
<1>. DEFINE n == Len(game.sentences)
            start == IF n > game.window_size THEN n - game.window_size ELSE 0
<1>1. game.sentences \in Seq(Sentences) /\ game.window_size \in Nat /\ n \in Nat
  BY LenProperties DEF StartedGame
<1>2. start \in Nat /\ start <= n /\ n - start <= game.window_size
  BY <1>1
<1>3. Window(game) = SubSeq(game.sentences, start + 1, n)
  BY DEF Window
<1>. HIDE DEF start, n
<1>4. \A i \in (start + 1)..n : game.sentences[i] \in Sentences
  BY <1>1, <1>2, ElementOfSeq DEF n
<1>5. /\ Len(Window(game)) = (IF start + 1 <= n THEN n - (start + 1) + 1 ELSE 0)
      /\ \A i \in 1..(n - (start + 1) + 1) : Window(game)[i] = game.sentences[(start + 1) + i - 1]
  BY <1>1, <1>2, <1>3, <1>4, SubSeqProperties
<1>6. Len(Window(game)) = n - start
  BY <1>1, <1>2, <1>5
<1>7. \A i \in 1..(n - start) : Window(game)[i] = game.sentences[start + i]
  <2>. TAKE i \in 1..(n - start)
  <2>1. i \in 1..(n - (start + 1) + 1) /\ (start + 1) + i - 1 = start + i
    BY <1>1, <1>2
  <2>. QED  BY <1>5, <2>1
<1>8. \A i \in 1..(n - start) : n - (n - start) + i = start + i
  BY <1>1, <1>2
<1>9. n - start \in Nat /\ n - start <= game.window_size
  BY <1>1, <1>2
<1>. QED
  BY <1>6, <1>7, <1>8, <1>9 DEF n
=============================================================================
