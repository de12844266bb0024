-------------------------- MODULE GameServiceProofs --------------------------
(***************************************************************************)
(* Proofs about GameService and Rpc, for any sets of games, players,       *)
(* sentences, windows and lengths: what the service does, and that a call  *)
(* of the web client is a step of it, from the request that the page puts  *)
(* together to the page that its answer is shown as.                       *)
(***************************************************************************)
EXTENDS Rpc, GameLogicProofs, WellFoundedInduction

-----------------------------------------------------------------------------
\* The steps of the service in terms of the games they read and write: a step
\* changes nothing, or puts one game, and only a move changes the history.
PutGame(g, game) == state' \in State /\ Games' = [Games EXCEPT ![g] = game]

Creates(g) == /\ Games[g] = None /\ PutGame(g, DefaultGame) /\ moves' = moves

Joins(g, p) == /\ Games[g] \in UnstartedGame /\ ~IsIn(p, Games[g].players)
               /\ PutGame(g, [Games[g] EXCEPT !.players = Append(@, p)])
               /\ moves' = moves

Starts(g, p, w, n) == /\ Games[g] \in UnstartedGame /\ IsIn(p, Games[g].players)
                      /\ PutGame(g, [status |-> "Started", players |-> Games[g].players,
                                     window_size |-> w, length |-> n,
                                     sentences |-> <<>>])
                      /\ moves' = moves

Moves(g, p, s) == /\ Games[g] \in StartedGame /\ ~IsOver(Games[g])
                  /\ ActivePlayer(Games[g]) = p
                  /\ PutGame(g, [Games[g] EXCEPT !.sentences = Append(@, s)])
                  /\ moves' = [moves EXCEPT ![g] =
                                 Append(@, [player |-> p, sentence |-> s])]

LEMMA StepCases ==
    ASSUME TypeOK, Next
    PROVE  \/ UNCHANGED <<Games, moves>> /\ state' \in OptionState
           \/ \E g \in GameIds, p \in PlayerIds :
                \/ Creates(g)
                \/ Joins(g, p)
                \/ \E w \in Nat, n \in Nat : Starts(g, p, w, n)
                \/ \E s \in Sentences : Moves(g, p, s)
<1>1. PICK request \in ActionRequest : Handle(request)
  BY DEF Next, ActionRequest
<1>. DEFINE g == request.game_id
            p == request.player_id
            game == GameOf(Games, g)
            result == HandleAction(state, request)
<1>2. state \in OptionState /\ Games \in State /\ moves \in [GameIds -> Seq(Move)]
  BY UnwrapType DEF TypeOK, Games
<1>3. /\ g \in GameIds /\ p \in PlayerIds
      /\ request.method = "StartGame" => request.window_size \in Nat /\ request.length \in Nat
      /\ request.method = "MakeMove" => request.sentence \in Sentences
  BY ParametersAssumption DEF ActionRequest, CreateGameRequest, JoinGameRequest,
     StartGameRequest, MakeMoveRequest
<1>4. game \in Game /\ DefaultGame \in Game /\ DefaultGame.players = <<>>
      /\ DefaultGame.status = "Unstarted"
  BY <1>2, <1>3, GameOfType DEF Game, UnstartedGame, DefaultGame
<1>5. game.status = "Started" \/ IsIn(p, game.players) => Games[g] = game
  BY <1>4 DEF GameOf, IsIn
<1>6. /\ game.status = "Unstarted" => game \in UnstartedGame
      /\ game.status = "Started" => game \in StartedGame
  BY <1>4 DEF Game, UnstartedGame, StartedGame
<1>7. state' = (IF result.state # None THEN result.state ELSE state)
  BY <1>1 DEF Handle, NextState
<1>8. moves' = IF request.method = "MakeMove" /\ result.error = None
               THEN [moves EXCEPT ![g] = Append(@, [player |-> p,
                                                    sentence |-> request.sentence])]
               ELSE moves
  BY <1>1 DEF Handle
<1>9. ASSUME NEW new \in Game, result = Ok(Put(Games, g, new))
      PROVE  PutGame(g, new) /\ result.error = None
  <2>1. Put(Games, g, new) \in State /\ Put(Games, g, new) # None
    BY <1>2, <1>3, PutType, NoneAssumption
  <2>2. state' = Put(Games, g, new)
    BY <2>1, <1>7, <1>9 DEF Ok
  <2>3. Games' = Put(Games, g, new)
    BY <2>1, <2>2 DEF Games, UnwrapOrDefault
  <2>. QED
    BY <2>1, <2>2, <2>3, <1>9 DEF PutGame, Put, Ok
<1>10. CASE result.state = None /\ (result.error \in Errors \/ request.method = "JoinGame")
  <2>1. state' = state /\ moves' = moves
    BY <1>7, <1>8, <1>10, NoneAssumption
  <2>. QED
    BY <2>1, <1>2 DEF Games
<1>11. CASE /\ request.method = "CreateGame" /\ Games[g] = None
            /\ result = Ok(Put(Games, g, DefaultGame))
  <2>1. Creates(g)
    BY <1>4, <1>8, <1>9, <1>11 DEF Creates
  <2>. QED
    BY <2>1, <1>3
<1>12. CASE /\ request.method = "JoinGame"
            /\ Games[g] # None /\ game.status = "Unstarted" /\ ~IsIn(p, game.players)
            /\ result = Ok(Put(Games, g, [game EXCEPT !.players = Append(@, p)]))
  <2>1. game = Games[g] /\ game \in UnstartedGame
    BY <1>12, <1>6 DEF GameOf
  <2>2. [game EXCEPT !.players = Append(@, p)] \in Game
    BY <2>1, <1>3, JoinedGameType DEF Game
  <2>3. Joins(g, p)
    BY <2>1, <2>2, <1>8, <1>9, <1>12 DEF Joins
  <2>. QED
    BY <2>3, <1>3
<1>13. CASE /\ request.method = "StartGame"
            /\ game.status = "Unstarted" /\ IsIn(p, game.players)
            /\ result = Ok(Put(Games, g,
                               [status |-> "Started", players |-> game.players,
                                window_size |-> request.window_size,
                                length |-> request.length, sentences |-> <<>>]))
  <2>1. game = Games[g] /\ game \in UnstartedGame
    BY <1>13, <1>5, <1>6
  <2>2. [status |-> "Started", players |-> game.players,
         window_size |-> request.window_size,
         length |-> request.length, sentences |-> <<>>] \in Game
    BY <2>1, <1>3, <1>13 DEF Game, UnstartedGame, StartedGame
  <2>3. Starts(g, p, request.window_size, request.length)
    BY <2>1, <2>2, <1>8, <1>9, <1>13 DEF Starts
  <2>. QED
    BY <2>3, <1>3, <1>13
<1>14. CASE /\ request.method = "MakeMove"
            /\ game.status = "Started" /\ ~IsOver(game) /\ ActivePlayer(game) = p
            /\ result = Ok(Put(Games, g,
                               [game EXCEPT !.sentences = Append(@, request.sentence)]))
  <2>1. game = Games[g] /\ game \in StartedGame
    BY <1>14, <1>5, <1>6
  <2>2. [game EXCEPT !.sentences = Append(@, request.sentence)] \in Game
    BY <2>1, <1>3, <1>14, MovedGameType DEF Game
  <2>3. Moves(g, p, request.sentence)
    BY <2>1, <2>2, <1>8, <1>9, <1>14 DEF Moves
  <2>. QED
    BY <2>3, <1>3, <1>14
<1>. HIDE DEF g, p, game, result
<1>15. \/ result.state = None /\ result.error \in Errors
       \/ result = Ok(None) /\ request.method = "JoinGame"
       \/ /\ request.method = "CreateGame" /\ Games[g] = None
          /\ result = Ok(Put(Games, g, DefaultGame))
       \/ /\ request.method = "JoinGame"
          /\ Games[g] # None /\ game.status = "Unstarted" /\ ~IsIn(p, game.players)
          /\ result = Ok(Put(Games, g, [game EXCEPT !.players = Append(@, p)]))
       \/ /\ request.method = "StartGame"
          /\ game.status = "Unstarted" /\ IsIn(p, game.players)
          /\ result = Ok(Put(Games, g,
                             [status |-> "Started", players |-> game.players,
                              window_size |-> request.window_size,
                              length |-> request.length, sentences |-> <<>>]))
       \/ /\ request.method = "MakeMove"
          /\ game.status = "Started" /\ ~IsOver(game) /\ ActivePlayer(game) = p
          /\ result = Ok(Put(Games, g,
                             [game EXCEPT !.sentences = Append(@, request.sentence)]))
  <2>1. ActionOutcome(Games, request, result)
    BY <1>2, HandleActionCases DEF result, Games
  <2>. QED
    BY <2>1 DEF ActionOutcome, g, p, game
<1>. QED
  BY <1>10, <1>11, <1>12, <1>13, <1>14, <1>15 DEF Ok

-----------------------------------------------------------------------------
LEMMA TypeStep ==
    ASSUME TypeOK, [Next]_vars
    PROVE  TypeOK'
<1>1. CASE UNCHANGED vars
  BY <1>1 DEF TypeOK, vars
<1>2. CASE UNCHANGED <<Games, moves>> /\ state' \in OptionState
  BY <1>2 DEF TypeOK
<1>3. ASSUME NEW g \in GameIds, NEW p \in PlayerIds,
             \/ Creates(g)
             \/ Joins(g, p)
             \/ \E w \in Nat, n \in Nat : Starts(g, p, w, n)
             \/ \E s \in Sentences : Moves(g, p, s)
      PROVE  TypeOK'
  <2>1. state' \in OptionState
    BY <1>3 DEF Creates, Joins, Starts, Moves, PutGame, OptionState
  <2>2. moves' \in [GameIds -> Seq(Move)]
    <3>1. CASE moves' = moves
      BY <3>1 DEF TypeOK
    <3>2. ASSUME NEW s \in Sentences, Moves(g, p, s)
          PROVE  moves' \in [GameIds -> Seq(Move)]
      <4>1. [player |-> p, sentence |-> s] \in Move
        BY DEF Move
      <4>2. Append(moves[g], [player |-> p, sentence |-> s]) \in Seq(Move)
        BY <4>1, AppendProperties DEF TypeOK
      <4>. QED
        BY <3>2, <4>2 DEF TypeOK, Moves
    <3>. QED
      BY <1>3, <3>1, <3>2 DEF Creates, Joins, Starts
  <2>. QED
    BY <2>1, <2>2 DEF TypeOK
<1>. QED
  BY <1>1, <1>2, <1>3, StepCases

\* GameService is type-correct: whatever clients send, the state is a map of
\* well-formed games (main.rs:90-174 keep it one).
THEOREM TypeCorrect == Spec => []TypeOK
<1>1. Init => TypeOK
  BY DEF Init, TypeOK, OptionState
<1>2. TypeOK /\ [Next]_vars => TypeOK'
  BY TypeStep
<1>. QED
  BY <1>1, <1>2, PTL DEF Spec

-----------------------------------------------------------------------------
\* StoryIsAcceptedMoves, game by game (RosterOf: in GameLogicProofs).
StoryOf(game, accepted) ==
    IF game # None /\ game.status = "Started"
    THEN /\ Len(game.sentences) = Len(accepted)
         /\ Len(accepted) <= game.length
         /\ \A i \in 1..Len(accepted) :
                /\ game.sentences[i] = accepted[i].sentence
                /\ accepted[i].player = game.players[((i - 1) % Len(game.players)) + 1]
    ELSE accepted = <<>>

LEMMA RosterByGame == RosterOK <=> \A g \in GameIds : RosterOf(Games[g])
BY DEF RosterOK, RosterOf, Existing, Started

LEMMA StoryByGame == StoryIsAcceptedMoves <=> \A g \in GameIds : StoryOf(Games[g], moves[g])
BY DEF StoryIsAcceptedMoves, StoryOf, Existing, Started

LEMMA RosterStep ==
    ASSUME TypeOK, RosterOK, [Next]_vars
    PROVE  RosterOK'
<1>1. Rosters(state)
  BY RosterByGame DEF Rosters, Games
<1>2. Rosters(state')
  <2>1. CASE UNCHANGED vars
    BY <1>1, <2>1 DEF vars
  <2>2. CASE Next
    <3>1. PICK request \in ActionRequest : state' = NextState(state, request)
      BY <2>2 DEF Next, Handle, ActionRequest
    <3>. QED
      BY <1>1, <3>1, RostersKept DEF TypeOK
  <2>. QED
    BY <2>1, <2>2
<1>3. \A g \in GameIds : RosterOf(Games'[g])
  BY <1>2 DEF Rosters, Games
<1>. QED
  BY <1>3 DEF RosterOK, RosterOf, Existing, Started

\* Players are distinct and a started game has one, in every reachable state:
\* the index arithmetic of make_move and get_game is always defined.
THEOREM RosterCorrect == Spec => []RosterOK
<1>1. Init => RosterOK
  BY DEF Init, RosterOK, Existing, Started, Games, UnwrapOrDefault, NoGames
<1>2. TypeOK /\ RosterOK /\ [Next]_vars => RosterOK'
  BY RosterStep
<1>. QED
  BY <1>1, <1>2, TypeCorrect, PTL DEF Spec

-----------------------------------------------------------------------------
LEMMA MovedStory ==
    ASSUME NEW game \in StartedGame, NEW accepted \in Seq(Move),
           NEW p \in PlayerIds, NEW s \in Sentences,
           StoryOf(game, accepted), ~IsOver(game), ActivePlayer(game) = p
    PROVE  StoryOf([game EXCEPT !.sentences = Append(@, s)],
                   Append(accepted, [player |-> p, sentence |-> s]))
<1>. DEFINE new == [game EXCEPT !.sentences = Append(@, s)]
            move == [player |-> p, sentence |-> s]
            after == Append(accepted, move)
            n == Len(accepted)
<1>1. /\ game.sentences \in Seq(Sentences) /\ game.players \in Seq(PlayerIds)
      /\ game.length \in Nat /\ game.status = "Started" /\ game # None
  BY NoneAssumption DEF StartedGame, Game
<1>2. /\ new # None /\ new.status = "Started" /\ new.players = game.players
      /\ new.length = game.length /\ new.sentences = Append(game.sentences, s)
  BY MovedGame
<1>3. /\ Len(game.sentences) = n /\ n \in Nat
      /\ \A i \in 1..n :
            /\ game.sentences[i] = accepted[i].sentence
            /\ accepted[i].player = game.players[((i - 1) % Len(game.players)) + 1]
  BY <1>1 DEF StoryOf
<1>4. n + 1 <= game.length
  BY <1>1, <1>3 DEF IsOver
<1>5. /\ Len(after) = n + 1 /\ after[n + 1] = move
      /\ \A i \in 1..n : after[i] = accepted[i]
      /\ Len(new.sentences) = n + 1 /\ new.sentences[n + 1] = s
      /\ \A i \in 1..n : new.sentences[i] = game.sentences[i]
  <2>1. move \in Move
    BY DEF Move
  <2>2. /\ Len(after) = n + 1 /\ after[n + 1] = move
        /\ \A i \in 1..n : after[i] = accepted[i]
    BY <2>1, AppendProperties
  <2>3. /\ Len(new.sentences) = n + 1 /\ new.sentences[n + 1] = s
        /\ \A i \in 1..n : new.sentences[i] = game.sentences[i]
    BY <1>1, <1>2, <1>3, AppendProperties
  <2>. QED
    BY <2>2, <2>3
<1>6. /\ move.sentence = s
      /\ move.player = game.players[(((n + 1) - 1) % Len(game.players)) + 1]
  BY <1>3 DEF ActivePlayer
<1>. HIDE DEF new, move, after, n
<1>7. \A i \in 1..(n + 1) :
        /\ new.sentences[i] = after[i].sentence
        /\ after[i].player = game.players[((i - 1) % Len(game.players)) + 1]
  <2>. TAKE i \in 1..(n + 1)
  <2>1. CASE i = n + 1
    BY <2>1, <1>5, <1>6
  <2>2. CASE i \in 1..n
    BY <2>2, <1>3, <1>5
  <2>. QED
    BY <1>3, <2>1, <2>2
<1>8. StoryOf(new, after)
  BY <1>2, <1>4, <1>5, <1>7 DEF StoryOf
<1>. QED
  BY <1>8 DEF new, after, move

LEMMA StoryStep ==
    ASSUME TypeOK, StoryIsAcceptedMoves, [Next]_vars
    PROVE  StoryIsAcceptedMoves'
<1>1. \A h \in GameIds : StoryOf(Games[h], moves[h])
  BY StoryByGame
<1>2. \A h \in GameIds : StoryOf(Games'[h], moves'[h])
  <2>1. CASE UNCHANGED vars \/ UNCHANGED <<Games, moves>>
    BY <1>1, <2>1 DEF vars, Games
  <2>2. ASSUME NEW g \in GameIds, NEW p \in PlayerIds,
               \/ Creates(g)
               \/ Joins(g, p)
               \/ \E w \in Nat, n \in Nat : Starts(g, p, w, n)
               \/ \E s \in Sentences : Moves(g, p, s)
        PROVE  \A h \in GameIds : StoryOf(Games'[h], moves'[h])
    <3>1. Games \in State /\ moves \in [GameIds -> Seq(Move)]
      BY UnwrapType DEF TypeOK, Games
    <3>2. ASSUME NEW new, PutGame(g, new), moves' = moves, StoryOf(new, moves[g])
          PROVE  \A h \in GameIds : StoryOf(Games'[h], moves'[h])
      BY <1>1, <3>1, <3>2 DEF PutGame, State
    <3>3. CASE Creates(g)
      <4>1. moves[g] = <<>>
        BY <1>1, <3>3 DEF Creates, StoryOf
      <4>2. StoryOf(DefaultGame, moves[g])
        BY <4>1 DEF StoryOf, DefaultGame
      <4>. QED
        BY <3>2, <3>3, <4>2 DEF Creates
    <3>4. CASE Joins(g, p)
      <4>. DEFINE new == [Games[g] EXCEPT !.players = Append(@, p)]
      <4>1. Games[g] \in UnstartedGame /\ PutGame(g, new) /\ moves' = moves
        BY <3>4 DEF Joins
      <4>2. moves[g] = <<>>
        BY <1>1, <4>1 DEF StoryOf, UnstartedGame
      <4>3. new.status = "Unstarted"
        BY <4>1 DEF UnstartedGame
      <4>4. StoryOf(new, moves[g])
        BY <4>2, <4>3 DEF StoryOf
      <4>. HIDE DEF new
      <4>. QED
        BY <3>2, <4>1, <4>4
    <3>5. ASSUME NEW w \in Nat, NEW n \in Nat, Starts(g, p, w, n)
          PROVE  \A h \in GameIds : StoryOf(Games'[h], moves'[h])
      <4>. DEFINE new == [status |-> "Started", players |-> Games[g].players,
                          window_size |-> w, length |-> n, sentences |-> <<>>]
      <4>1. Games[g] \in UnstartedGame /\ PutGame(g, new) /\ moves' = moves
        BY <3>5 DEF Starts
      <4>2. moves[g] = <<>>
        BY <1>1, <4>1 DEF StoryOf, UnstartedGame
      <4>3. StoryOf(new, moves[g])
        BY <4>2 DEF StoryOf
      <4>. HIDE DEF new
      <4>. QED
        BY <3>2, <4>1, <4>3
    <3>6. ASSUME NEW s \in Sentences, Moves(g, p, s)
          PROVE  \A h \in GameIds : StoryOf(Games'[h], moves'[h])
      <4>. DEFINE new == [Games[g] EXCEPT !.sentences = Append(@, s)]
                  accepted == Append(moves[g], [player |-> p, sentence |-> s])
      <4>1. /\ Games[g] \in StartedGame /\ ~IsOver(Games[g])
            /\ ActivePlayer(Games[g]) = p /\ moves[g] \in Seq(Move)
        BY <3>1, <3>6 DEF Moves
      <4>2. StoryOf(new, accepted)
        BY <1>1, <4>1, MovedStory
      <4>3. PutGame(g, new) /\ moves' = [moves EXCEPT ![g] = accepted]
        BY <3>6 DEF Moves
      <4>. HIDE DEF new, accepted
      <4>4. Games'[g] = new /\ moves'[g] = accepted
        BY <3>1, <4>3 DEF PutGame, State
      <4>5. \A h \in GameIds \ {g} : Games'[h] = Games[h] /\ moves'[h] = moves[h]
        BY <3>1, <4>3 DEF PutGame, State
      <4>. QED
        BY <1>1, <4>2, <4>4, <4>5
    <3>. QED
      BY <2>2, <3>3, <3>4, <3>5, <3>6
  <2>. QED
    BY <2>1, <2>2, StepCases
<1>. QED
  BY <1>2 DEF StoryIsAcceptedMoves, StoryOf, Existing, Started

\* In every reachable state the story of a game is exactly its accepted moves,
\* written in strict rotation and never longer than the game (main.rs:57-83).
THEOREM StoryCorrect == Spec => []StoryIsAcceptedMoves
<1>1. Init => StoryIsAcceptedMoves
  BY DEF Init, StoryIsAcceptedMoves, Existing, Started, Games, UnwrapOrDefault, NoGames
<1>2. TypeOK /\ StoryIsAcceptedMoves /\ [Next]_vars => StoryIsAcceptedMoves'
  BY StoryStep
<1>. QED
  BY <1>1, <1>2, TypeCorrect, PTL DEF Spec

-----------------------------------------------------------------------------
LEMMA GrowStep ==
    ASSUME TypeOK, [Next]_vars
    PROVE  [GamesOnlyGrow]_vars
<1>1. state \in OptionState
  BY DEF TypeOK
<1>. SUFFICES ASSUME Next
              PROVE  \A g \in GameIds : GameGrows(Games[g], Games'[g])
  BY DEF GamesOnlyGrow, GameGrows, Extends, Existing
<1>2. PICK request \in ActionRequest : Handle(request)
  BY DEF Next, ActionRequest
<1>3. state' = NextState(state, request)
  BY <1>2 DEF Handle
<1>. QED
  BY <1>1, <1>3, GamesKept DEF Games

\* No action ever undoes one: games stay, rosters and stories only get longer,
\* and what a game was started with is fixed (main.rs:90-174).
THEOREM GamesNeverRestart == Spec => StepsOnlyGrow
<1>1. TypeOK /\ [Next]_vars => [GamesOnlyGrow]_vars
  BY GrowStep
<1>. QED
  BY <1>1, TypeCorrect, PTL DEF Spec, StepsOnlyGrow

-----------------------------------------------------------------------------
(* What get_game shows, from the types, the rosters and the stories.       *)

LEMMA GameOfStarted ==
    ASSUME TypeOK, NEW g \in GameIds
    PROVE  /\ state \in OptionState /\ Games \in State
           /\ GameOf(Games, g) \in Game
           /\ GameOf(Games, g).status = "Started" <=> g \in Started
           /\ g \in Started => /\ GameOf(Games, g) = Games[g]
                               /\ Games[g] \in StartedGame
<1>1. state \in OptionState /\ Games \in State
  BY UnwrapType DEF TypeOK, Games
<1>2. GameOf(Games, g) \in Game
  BY <1>1, GameOfType
<1>3. Games[g] = None => GameOf(Games, g) = DefaultGame
  BY DEF GameOf
<1>4. Games[g] # None => GameOf(Games, g) = Games[g]
  BY DEF GameOf
<1>5. DefaultGame.status = "Unstarted"
  BY DEF DefaultGame
<1>6. GameOf(Games, g).status = "Started" => GameOf(Games, g) \in StartedGame
  BY <1>2 DEF Game, UnstartedGame
<1>. QED
  BY <1>1, <1>2, <1>3, <1>4, <1>5, <1>6 DEF Started, Existing

LEMMA ViewsAgree ==
    ASSUME TypeOK, RosterOK
    PROVE  ViewAgreesWithMoves
<1>. SUFFICES ASSUME NEW g \in GameIds
              PROVE  LET CanMove(p) == \A s \in Sentences :
                             HandleAction(state, [method |-> "MakeMove", game_id |-> g,
                                                  player_id |-> p, sentence |-> s]).error = None
                         Sees(p) == GetGame(state, g, p).state
                     IN  /\ \A p \in PlayerIds : CanMove(p) <=> Sees(p) = "YourTurn"
                         /\ g \in Started =>
                              \/ \A p \in PlayerIds : Sees(p) \in {"GameOver", "None"}
                              \/ /\ \A p \in PlayerIds : Sees(p) # "GameOver"
                                 /\ \E p \in PlayerIds :
                                       /\ Sees(p) = "YourTurn"
                                       /\ \A q \in PlayerIds \ {p} : Sees(q) # "YourTurn"
  BY DEF ViewAgreesWithMoves
<1>. DEFINE game == GameOf(Games, g)
            CanMove(p) == \A s \in Sentences :
                HandleAction(state, [method |-> "MakeMove", game_id |-> g,
                                     player_id |-> p, sentence |-> s]).error = None
            Sees(p) == GetGame(state, g, p).state
<1>1. state \in OptionState /\ game = GameOf(UnwrapOrDefault(state), g)
  BY GameOfStarted DEF Games
<1>2. /\ game.status = "Started" <=> g \in Started
      /\ g \in Started => game \in StartedGame /\ game.players # <<>>
  BY GameOfStarted DEF RosterOK
\* A player who may move is one of the game's.
<1>3. \A p \in PlayerIds : MayMove(game, p) => IsIn(p, game.players)
  BY <1>2, ActivePlayerIsIn DEF MayMove
<1>4. \A p \in PlayerIds : CanMove(p) <=> MayMove(game, p)
  BY <1>1, MoveAnswer, SentencesAssumption
<1>5. ASSUME NEW p \in PlayerIds
      PROVE  /\ Sees(p) = "YourTurn" <=> MayMove(game, p)
             /\ Sees(p) = "GameOver" => IsOver(game)
             /\ game.status = "Started" /\ IsOver(game) => Sees(p) \in {"GameOver", "None"}
  <2>. DEFINE view == GetGame(state, g, p)
  <2>1. /\ ~IsIn(p, game.players) => view = NoView
        /\ IsIn(p, game.players) /\ game.status = "Unstarted" =>
              view = View(game.players, "Unstarted", <<>>)
        /\ IsIn(p, game.players) /\ game.status = "Started" /\ IsOver(game) =>
              view = View(game.players, "GameOver", game.sentences)
        /\ /\ IsIn(p, game.players) /\ game.status = "Started"
           /\ ~IsOver(game) /\ ActivePlayer(game) # p
           => view = View(game.players, "NotYourTurn", <<>>)
        /\ IsIn(p, game.players) /\ MayMove(game, p) =>
              view = View(game.players, "YourTurn", Window(game))
        /\ game.status \in {"Unstarted", "Started"}
    BY <1>1, GetGameCases
  <2>. HIDE DEF game, view
  <2>2. view.state = "YourTurn" <=> MayMove(game, p)
    BY <1>3, <2>1 DEF View, NoView, MayMove
  <2>3. view.state = "GameOver" => IsOver(game)
    BY <2>1 DEF View, NoView, MayMove
  <2>4. game.status = "Started" /\ IsOver(game) => view.state \in {"GameOver", "None"}
    BY <2>1 DEF View, NoView
  <2>. QED
    BY <2>2, <2>3, <2>4 DEF view
<1>6. \A p \in PlayerIds : CanMove(p) <=> Sees(p) = "YourTurn"
  BY <1>4, <1>5
<1>7. CASE g \in Started /\ IsOver(game)
  <2>1. \A p \in PlayerIds : Sees(p) \in {"GameOver", "None"}
    BY <1>2, <1>5, <1>7
  <2>. QED  BY <1>6, <2>1
<1>8. CASE g \in Started /\ ~IsOver(game)
  <2>1. \A p \in PlayerIds : Sees(p) # "GameOver"
    BY <1>5, <1>8
  <2>2. ActivePlayer(game) \in PlayerIds /\ MayMove(game, ActivePlayer(game))
    BY <1>2, <1>8, ActivePlayerIsIn DEF MayMove
  <2>3. \A q \in PlayerIds \ {ActivePlayer(game)} : ~MayMove(game, q)
    BY DEF MayMove
  <2>. HIDE DEF Sees, game
  <2>4. \E p \in PlayerIds : /\ Sees(p) = "YourTurn"
                            /\ \A q \in PlayerIds \ {p} : Sees(q) # "YourTurn"
    <3>1. Sees(ActivePlayer(game)) = "YourTurn"
      BY <1>5, <2>2
    <3>2. \A q \in PlayerIds \ {ActivePlayer(game)} : Sees(q) # "YourTurn"
      BY <1>5, <2>3
    <3>. QED  BY <2>2, <3>1, <3>2
  <2>. QED
    BY <1>6, <2>1, <2>4 DEF Sees
<1>. HIDE DEF CanMove, Sees
<1>9. /\ \A p \in PlayerIds : CanMove(p) <=> Sees(p) = "YourTurn"
      /\ g \in Started =>
            \/ \A p \in PlayerIds : Sees(p) \in {"GameOver", "None"}
            \/ /\ \A p \in PlayerIds : Sees(p) # "GameOver"
               /\ \E p \in PlayerIds : /\ Sees(p) = "YourTurn"
                                       /\ \A q \in PlayerIds \ {p} : Sees(q) # "YourTurn"
  BY <1>6, <1>7, <1>8 DEF CanMove, Sees
<1>. QED
  BY <1>9 DEF CanMove, Sees

\* A player is told that it is her turn exactly when her move would be accepted,
\* and of an unfinished game exactly one player is told so (main.rs:57-83 and
\* 176-241 compute the turn each for itself).
THEOREM ViewsCorrect == Spec => []ViewAgreesWithMoves
<1>1. TypeOK /\ RosterOK => ViewAgreesWithMoves
  BY ViewsAgree
<1>. QED
  BY <1>1, TypeCorrect, RosterCorrect, PTL

LEMMA StoryHidden ==
    ASSUME TypeOK, RosterOK
    PROVE  StoryHiddenUntilOver
<1>. SUFFICES ASSUME NEW g \in Started, NEW p \in PlayerIds,
                     GetGame(state, g, p).state # "GameOver"
              PROVE  LET view == GetGame(state, g, p)
                         n == Len(Games[g].sentences)
                         k == Len(view.shown)
                     IN  /\ k <= Games[g].window_size
                         /\ k > 0 => p = ActivePlayer(Games[g])
                         /\ \A i \in 1..k : view.shown[i] = Games[g].sentences[n - k + i]
  BY DEF StoryHiddenUntilOver
<1>. DEFINE view == GetGame(state, g, p)
            game == Games[g]
            n == Len(game.sentences)
            k == Len(view.shown)
<1>1. g \in GameIds
  BY DEF Started, Existing
<1>2. /\ state \in OptionState /\ game \in StartedGame
      /\ GameOf(UnwrapOrDefault(state), g) = game
  BY <1>1, GameOfStarted DEF Games
<1>3. game.status = "Started" /\ game.window_size \in Nat
  BY <1>2 DEF StartedGame
<1>4. /\ ~IsIn(p, game.players) => view = NoView
      /\ IsIn(p, game.players) /\ IsOver(game) =>
            view = View(game.players, "GameOver", game.sentences)
      /\ IsIn(p, game.players) /\ ~IsOver(game) /\ ActivePlayer(game) # p =>
            view = View(game.players, "NotYourTurn", <<>>)
      /\ IsIn(p, game.players) /\ ~IsOver(game) /\ ActivePlayer(game) = p =>
            view = View(game.players, "YourTurn", Window(game))
  BY <1>1, <1>2, <1>3, GetGameCases DEF MayMove
<1>. HIDE DEF game, view
<1>5. view.shown = <<>> \/ (view.shown = Window(game) /\ ActivePlayer(game) = p)
  <2>1. view.state # "GameOver"
    BY DEF view
  <2>2. View(game.players, "GameOver", game.sentences).state = "GameOver"
    BY DEF View
  <2>3. /\ NoView.shown = <<>>
        /\ View(game.players, "NotYourTurn", <<>>).shown = <<>>
        /\ View(game.players, "YourTurn", Window(game)).shown = Window(game)
    BY DEF View, NoView
  <2>4. CASE ~IsIn(p, game.players)
    <3>1. view = NoView
      BY <1>4, <2>4
    <3>. QED  BY <2>3, <3>1
  <2>5. CASE IsIn(p, game.players) /\ IsOver(game)
    BY <1>4, <2>1, <2>2, <2>5
  <2>6. CASE IsIn(p, game.players) /\ ~IsOver(game) /\ ActivePlayer(game) # p
    <3>1. view = View(game.players, "NotYourTurn", <<>>)
      BY <1>4, <2>6
    <3>. QED  BY <2>3, <3>1
  <2>7. CASE IsIn(p, game.players) /\ ~IsOver(game) /\ ActivePlayer(game) = p
    <3>1. view = View(game.players, "YourTurn", Window(game))
      BY <1>4, <2>7
    <3>. QED  BY <2>3, <2>7, <3>1
  <2>. QED
    BY <2>4, <2>5, <2>6, <2>7
<1>6. CASE view.shown = <<>>
  <2>1. k = 0
    BY <1>6
  <2>. QED  BY <1>3, <2>1 DEF view, game
<1>7. CASE view.shown = Window(game) /\ ActivePlayer(game) = p
  <2>1. /\ k <= game.window_size
        /\ \A i \in 1..k : view.shown[i] = game.sentences[n - k + i]
    BY <1>2, <1>7, WindowIsTheEnd
  <2>. QED  BY <1>7, <2>1 DEF view, game
<1>. QED
  BY <1>5, <1>6, <1>7

\* Until a game is over nobody sees more of its story than its last window_size
\* sentences, and of those only the player whose turn it is (main.rs:204-241).
THEOREM StoryStaysHidden == Spec => []StoryHiddenUntilOver
<1>1. TypeOK /\ RosterOK => StoryHiddenUntilOver
  BY StoryHidden
<1>. QED
  BY <1>1, TypeCorrect, RosterCorrect, PTL

LEMMA RepetitionRefused ==
    ASSUME TypeOK, RosterOK, StoryIsAcceptedMoves
    PROVE  RepeatedMoveRefused
<1>. SUFFICES ASSUME NEW g \in Started, Len(moves[g]) > 0, Len(Games[g].players) > 1
              PROVE  LET last == moves[g][Len(moves[g])]
                     IN  HandleAction(state, [method |-> "MakeMove", game_id |-> g,
                                              player_id |-> last.player,
                                              sentence |-> last.sentence]).error # None
  BY DEF RepeatedMoveRefused
<1>. DEFINE game == Games[g]
            n == Len(moves[g])
            k == Len(game.players)
            last == moves[g][n]
<1>1. g \in GameIds
  BY DEF Started, Existing
<1>2. /\ state \in OptionState /\ game \in StartedGame
      /\ GameOf(UnwrapOrDefault(state), g) = game
  BY <1>1, GameOfStarted DEF Games
<1>3. moves[g] \in Seq(Move) /\ game.players \in Seq(PlayerIds)
  BY <1>1, <1>2 DEF TypeOK, StartedGame
<1>4. n \in Nat \ {0} /\ k \in Nat /\ k > 1 /\ n \in 1..Len(moves[g])
  BY <1>3, LenProperties
<1>5. last \in Move
  BY <1>3, <1>4, ElementOfSeq
<1>6. /\ Len(game.sentences) = n
      /\ last.player = game.players[((n - 1) % k) + 1]
  BY <1>1, <1>4 DEF StoryIsAcceptedMoves
<1>7. ActivePlayer(game) = game.players[(n % k) + 1]
  BY <1>6 DEF ActivePlayer
<1>8. \A i, j \in 1..k : game.players[i] = game.players[j] => i = j
  BY DEF RosterOK, Started
<1>. HIDE DEF n, k, game, last
<1>9. ActivePlayer(game) # last.player
  <2>1. ((n - 1) % k) # (n % k)
    BY <1>4, RotationMovesOn
  <2>2. (n % k) \in Nat /\ ((n - 1) % k) \in Nat
    BY <1>4
  <2>3. (n % k) + 1 \in 1..k /\ ((n - 1) % k) + 1 \in 1..k
    BY <1>4, IndexInRotation
  <2>4. (n % k) + 1 # ((n - 1) % k) + 1
    BY <2>1, <2>2
  <2>. QED
    BY <1>6, <1>7, <1>8, <2>3, <2>4
<1>10. ~MayMove(game, last.player)
  BY <1>9 DEF MayMove
<1>11. last.player \in PlayerIds /\ last.sentence \in Sentences
  BY <1>5 DEF Move
<1>. QED
  BY <1>1, <1>2, <1>10, <1>11, MoveAnswer DEF last, n

\* The repetition of a move whose answer was lost is refused, in a game of two
\* players or more: by then it is another player's turn, or the game is over.
THEOREM RepetitionsRefused == Spec => []RepeatedMoveRefused
<1>1. TypeOK /\ RosterOK /\ StoryIsAcceptedMoves => RepeatedMoveRefused
  BY RepetitionRefused
<1>. QED
  BY <1>1, TypeCorrect, RosterCorrect, StoryCorrect, PTL

-----------------------------------------------------------------------------
(* Induction over the length of a message.                                  *)

\* A set of naturals that is not empty has a least element.
LEMMA LeastNumber ==
    ASSUME NEW T, T \subseteq Nat, T # {}
    PROVE  \E n \in T : \A m \in T : n <= m
<1>. DEFINE R == OpToRel(<, Nat)
<1>1. IsWellFoundedOn(R, Nat)
  BY NatLessThanWellFounded
<1>2. \A x, y \in Nat : x < y => <<x, y>> \in R
  BY DEF OpToRel
<1>. HIDE DEF R
<1>3. PICK n \in T : \A m \in T : <<m, n>> \notin R
  BY <1>1, WFMin
<1>4. \A m \in T : ~(m < n)
  BY <1>2, <1>3
<1>5. n \in Nat /\ \A m \in T : m \in Nat
  OBVIOUS
<1>6. \A m \in T : n <= m
  BY <1>4, <1>5
<1>. QED
  BY <1>6

\* Induction on a set of naturals.
LEMMA Induct ==
    ASSUME NEW S, 0 \in S, \A n \in Nat : n \in S => n + 1 \in S
    PROVE  Nat \subseteq S
<1>. DEFINE T == Nat \ S
<1>. SUFFICES ASSUME T # {} PROVE FALSE
  OBVIOUS
<1>1. PICK n \in T : \A m \in T : n <= m
  BY LeastNumber
<1>2. n # 0 /\ n - 1 \in Nat /\ n - 1 \notin T
  BY <1>1
<1>. QED
  BY <1>1, <1>2

\* The loop of deserializeBinaryFromReader starts with a new message and reads
\* one pair a round: the recursive function that says so exists.
LEMMA ReadingLoop ==
    ASSUME NEW class, NEW pairs, Len(pairs) \in Nat
    PROVE  LET message == pb!Reading(class, pairs)
           IN  /\ message[0] = pb!New
               /\ \A k \in 1..Len(pairs) :
                    message[k] = pb!ReadField(class, message[k - 1], pairs[k])
<1>. DEFINE Round(f, k) == pb!ReadField(class, f[k - 1], pairs[k])
            Loop(f, n) == f[0] = pb!New /\ \A k \in 1..n : f[k] = Round(f, k)
            S == {n \in Nat : \E f : Loop(f, n)}
<1>1. 0 \in S
  <2>1. Loop([k \in {0} |-> pb!New], 0)
    OBVIOUS
  <2>. QED  BY <2>1
<1>2. ASSUME NEW n \in Nat, n \in S
      PROVE  n + 1 \in S
  <2>1. PICK f : Loop(f, n)
    BY <1>2
  <2>. DEFINE g == [k \in 0..(n + 1) |-> IF k = n + 1 THEN Round(f, k) ELSE f[k]]
  <2>2. g[0] = pb!New
    BY <2>1
  <2>3. \A k \in 1..n : g[k] = f[k] /\ g[k - 1] = f[k - 1]
    OBVIOUS
  <2>4. g[n + 1] = Round(f, n + 1) /\ g[(n + 1) - 1] = f[(n + 1) - 1]
    OBVIOUS
  <2>5. \A k \in 1..(n + 1) : k \in 1..n \/ k = n + 1
    OBVIOUS
  <2>. HIDE DEF g
  <2>6. Loop(g, n + 1)
    BY <2>1, <2>2, <2>3, <2>4, <2>5
  <2>. QED  BY <2>6
<1>3. Len(pairs) \in S
  BY <1>1, <1>2, Induct
<1>4. PICK f : Loop(f, Len(pairs))
  BY <1>3
<1>. DEFINE h == [k \in 0..Len(pairs) |-> f[k]]
<1>5. h = [k \in 0..Len(pairs) |-> IF k = 0 THEN pb!New
                                 ELSE pb!ReadField(class, h[k - 1], pairs[k])]
  BY <1>4
<1>. HIDE DEF h
<1>. DEFINE message == pb!Reading(class, pairs)
<1>6. message = [k \in 0..Len(pairs) |-> IF k = 0 THEN pb!New
                            ELSE pb!ReadField(class, message[k - 1], pairs[k])]
  BY <1>5 DEF pb!Reading
<1>. HIDE DEF message
<1>. QED
  BY <1>6 DEF message

\* A sequence of sequences, flattened: its elements are theirs.
LEMMA FlattenElements ==
    ASSUME NEW X, NEW ss \in Seq(Seq(X)), ss # <<>>
    PROVE  /\ pb!FlattenSeq(ss) \in Seq(X)
           /\ \A x : IsIn(x, pb!FlattenSeq(ss)) <=> \E i \in 1..Len(ss) : IsIn(x, ss[i])
<1>. DEFINE N == Len(ss)
            Cat(a, b) == a \o b
            Flat(f, n) == f[1] = ss[1] /\ \A i \in 2..n : f[i] = Cat(f[i - 1], ss[i])
            S == {n \in Nat : \E f : Flat(f, n + 1)}
<1>1. N \in Nat /\ N > 0 /\ \A i \in 1..N : ss[i] \in Seq(X)
  BY EmptySeq, LenProperties, ElementOfSeq
<1>. HIDE DEF Cat
<1>2. 0 \in S
  <2>1. Flat([i \in {1} |-> ss[1]], 0 + 1)
    OBVIOUS
  <2>. QED  BY <2>1
<1>3. ASSUME NEW n \in Nat, n \in S
      PROVE  n + 1 \in S
  <2>1. PICK f : Flat(f, n + 1)
    BY <1>3
  <2>. DEFINE g == [i \in 1..(n + 2) |-> IF i = n + 2 THEN Cat(f[i - 1], ss[i]) ELSE f[i]]
  <2>2. g[1] = f[1]
    OBVIOUS
  <2>3. \A i \in 2..(n + 1) : g[i] = f[i] /\ g[i - 1] = f[i - 1]
    OBVIOUS
  <2>4. g[n + 2] = Cat(f[(n + 2) - 1], ss[n + 2]) /\ g[(n + 2) - 1] = f[(n + 2) - 1]
    OBVIOUS
  <2>5. \A i \in 2..(n + 2) : i \in 2..(n + 1) \/ i = n + 2
    OBVIOUS
  <2>. HIDE DEF g
  <2>6. Flat(g, n + 2)
    BY <2>1, <2>2, <2>3, <2>4, <2>5
  <2>7. n + 1 \in Nat /\ (n + 1) + 1 = n + 2
    OBVIOUS
  <2>. QED  BY <2>6, <2>7
<1>. HIDE DEF S
<1>4. N - 1 \in S
  <2>1. Nat \subseteq S
    BY <1>2, <1>3, Induct
  <2>. QED  BY <1>1, <2>1
<1>5. PICK built : Flat(built, N)
  <2>1. PICK f : Flat(f, (N - 1) + 1)
    BY <1>4 DEF S
  <2>2. (N - 1) + 1 = N
    BY <1>1
  <2>. QED  BY <2>1, <2>2
<1>. DEFINE h == [i \in 1..N |-> built[i]]
<1>6. h = [i \in 1..N |-> IF i = 1 THEN ss[i] ELSE Cat(h[i - 1], ss[i])]
  BY <1>1, <1>5
<1>. HIDE DEF h
<1>. DEFINE flat == CHOOSE f : f = [i \in 1..N |-> IF i = 1 THEN ss[i] ELSE f[i - 1] \o ss[i]]
<1>7. flat = [i \in 1..N |-> IF i = 1 THEN ss[i] ELSE Cat(flat[i - 1], ss[i])]
  <2>1. \E f : f = [i \in 1..N |-> IF i = 1 THEN ss[i] ELSE f[i - 1] \o ss[i]]
    BY <1>6 DEF Cat
  <2>2. flat = [i \in 1..N |-> IF i = 1 THEN ss[i] ELSE flat[i - 1] \o ss[i]]
    BY <2>1
  <2>. QED  BY <2>2 DEF Cat
<1>11. pb!FlattenSeq(ss) = flat[N]
  BY <1>1 DEF pb!FlattenSeq
<1>. HIDE DEF flat
<1>. DEFINE T == {n \in Nat : n + 1 <= N =>
                    /\ flat[n + 1] \in Seq(X)
                    /\ \A x : IsIn(x, flat[n + 1]) <=> \E i \in 1..(n + 1) : IsIn(x, ss[i])}
<1>8. 0 \in T
  <2>1. flat[1] = ss[1] /\ ss[1] \in Seq(X)
    BY <1>1, <1>7
  <2>2. \A i : i \in 1..1 <=> i = 1
    OBVIOUS
  <2>3. 0 + 1 = 1
    OBVIOUS
  <2>. QED  BY <2>1, <2>2, <2>3
<1>9. ASSUME NEW n \in Nat, n \in T
      PROVE  n + 1 \in T
  <2>. SUFFICES ASSUME n + 2 <= N
                PROVE  /\ flat[n + 2] \in Seq(X)
                       /\ \A x : IsIn(x, flat[n + 2]) <=> \E i \in 1..(n + 2) : IsIn(x, ss[i])
    OBVIOUS
  <2>1. flat[n + 2] = Cat(flat[n + 1], ss[n + 2])
    <3>1. n + 2 \in 1..N /\ n + 2 # 1 /\ (n + 2) - 1 = n + 1
      BY <1>1
    <3>2. ASSUME NEW i \in 1..N, i # 1
          PROVE  flat[i] = Cat(flat[i - 1], ss[i])
      BY <1>7, <3>2, Zenon
    <3>. QED  BY <3>1, <3>2
  <2>2. /\ flat[n + 1] \in Seq(X) /\ ss[n + 2] \in Seq(X)
        /\ \A x : IsIn(x, flat[n + 1]) <=> \E i \in 1..(n + 1) : IsIn(x, ss[i])
    <3>1. n + 1 <= N /\ n + 2 \in 1..N
      BY <1>1
    <3>. QED  BY <1>1, <1>9, <3>1
  <2>3. \A s, t \in Seq(X) : s \o t \in Seq(X) /\ \A x : IsIn(x, s \o t) <=> IsIn(x, s) \/ IsIn(x, t)
    <3>. SUFFICES ASSUME NEW s \in Seq(X), NEW t \in Seq(X)
                  PROVE  s \o t \in Seq(X) /\ \A x : IsIn(x, s \o t) <=> IsIn(x, s) \/ IsIn(x, t)
      OBVIOUS
    <3>1. /\ s \o t \in Seq(X) /\ Len(s \o t) = Len(s) + Len(t)
          /\ \A i \in 1..(Len(s) + Len(t)) :
                (s \o t)[i] = IF i <= Len(s) THEN s[i] ELSE t[i - Len(s)]
      BY ConcatProperties
    <3>2. Len(s) \in Nat /\ Len(t) \in Nat
      BY LenProperties
    <3>3. ASSUME NEW x, IsIn(x, s \o t) PROVE IsIn(x, s) \/ IsIn(x, t)
      BY <3>1, <3>2, <3>3 DEF IsIn
    <3>4. ASSUME NEW x, IsIn(x, s) PROVE IsIn(x, s \o t)
      BY <3>1, <3>2, <3>4 DEF IsIn
    <3>5. ASSUME NEW x, IsIn(x, t) PROVE IsIn(x, s \o t)
      <4>1. PICK k \in 1..Len(t) : t[k] = x
        BY <3>5 DEF IsIn
      <4>2. k + Len(s) \in 1..Len(s \o t) /\ (s \o t)[k + Len(s)] = x
        BY <3>1, <3>2, <4>1
      <4>. QED  BY <4>2 DEF IsIn
    <3>. QED  BY <3>1, <3>3, <3>4, <3>5
  <2>4. \A i : i \in 1..(n + 2) <=> i \in 1..(n + 1) \/ i = n + 2
    OBVIOUS
  <2>. QED
    BY <2>1, <2>2, <2>3, <2>4 DEF Cat
<1>. HIDE DEF T
<1>10. N - 1 \in T
  <2>1. Nat \subseteq T
    BY <1>8, <1>9, Induct
  <2>. QED  BY <1>1, <2>1
<1>12. (N - 1) + 1 = N /\ N <= N
  BY <1>1
<1>13. /\ flat[N] \in Seq(X)
       /\ \A x : IsIn(x, flat[N]) <=> \E i \in 1..N : IsIn(x, ss[i])
  BY <1>10, <1>12 DEF T
<1>. QED
  BY <1>11, <1>13

-----------------------------------------------------------------------------
(* Requests: what the setters set is what the server reads.                 *)

\* A class of a request: no field of it is repeated, a message or in a oneof.
PlainClass(class, n) ==
    /\ class.oneof = {}
    /\ DOMAIN class.fields = 1..n
    /\ \A i \in 1..n : class.fields[i].kind \in {"string", "uint32"}

\* A message of a plain class.
PlainMessage(class, n, message) == PlainClass(class, n) /\ DOMAIN message \subseteq 1..n

\* What a setter of a plain field leaves behind: the getter returns the value, also
\* when it is the default and the field is not set; the other fields are as they were.
LEMMA PutGet ==
    ASSUME NEW class, NEW n \in Nat, PlainClass(class, n), NEW message,
           DOMAIN message \subseteq 1..n, NEW i \in 1..n, NEW value
    PROVE  LET new == pb!Put(class, message, i, value)
           IN  /\ DOMAIN new \subseteq 1..n
               /\ pb!Get(class, new, i) = value
               /\ \A j \in 1..n : j # i => pb!Get(class, new, j) = pb!Get(class, message, j)
<1>. DEFINE new == pb!Put(class, message, i, value)
            kind == class.fields[i].kind
<1>1. i \notin class.oneof /\ kind \in {"string", "uint32"}
  BY DEF PlainClass
<1>3. \A j \in 1..n \ {i} :
         /\ j \in DOMAIN new <=> j \in DOMAIN message
         /\ j \in DOMAIN new => new[j] = message[j]
  BY <1>1 DEF pb!Put, pb!Without
<1>4. IF pb!IsDefault(class.fields[i], value) THEN i \notin DOMAIN new
      ELSE i \in DOMAIN new /\ new[i] = value
  BY <1>1 DEF pb!Put, pb!Without
<1>5. DOMAIN new \subseteq 1..n
  BY <1>1 DEF pb!Put, pb!Without
<1>. HIDE DEF new
<1>6. pb!Get(class, new, i) = value
  BY <1>1, <1>4 DEF pb!Get, pb!IsSet, pb!IsDefault
<1>7. \A j \in 1..n : j # i => pb!Get(class, new, j) = pb!Get(class, message, j)
  <2>1. \A j \in 1..n : class.fields[j].kind \in {"string", "uint32"}
    BY DEF PlainClass
  <2>. QED  BY <1>3, <2>1 DEF pb!Get, pb!IsSet
<1>. QED
  BY <1>5, <1>6, <1>7 DEF new

\* The setter of a field with a name of its own.
LEMMA SetPuts ==
    ASSUME NEW class, NEW i \in DOMAIN class.fields,
           \A j \in DOMAIN class.fields : class.fields[j].name = class.fields[i].name => j = i,
           NEW message, NEW value
    PROVE  pb!Set(class, message, class.fields[i].name, value) = pb!Put(class, message, i, value)
<1>1. (CHOOSE j \in DOMAIN class.fields : class.fields[j].name = class.fields[i].name) = i
  OBVIOUS
<1>. QED
  BY <1>1 DEF pb!Set

\* What is on the wire: a pair for each field that is set, and nothing else.
LEMMA PlainWire ==
    ASSUME NEW class, NEW n \in Nat \ {0}, NEW message, PlainMessage(class, n, message)
    PROVE  /\ \A i \in DOMAIN message : \E k \in DOMAIN pb!SerializeBinary(class, message) :
                 pb!SerializeBinary(class, message)[k] = <<i, message[i]>>
           /\ \A k \in DOMAIN pb!SerializeBinary(class, message) : \E i \in DOMAIN message :
                 pb!SerializeBinary(class, message)[k] = <<i, message[i]>>
<1>. DEFINE w == pb!SerializeBinary(class, message)
            inner == pb!Inside(class, message, pb!SerializeInner)
            X == {<<i, message[i]>> : i \in DOMAIN message}
            ss == [i \in 1..n |-> IF i \in DOMAIN message THEN <<<<i, message[i]>>>> ELSE <<>>]
<1>1. /\ DOMAIN class.fields = 1..n /\ DOMAIN message \subseteq 1..n
      /\ \A i \in 1..n : class.fields[i].kind \in {"string", "uint32"}
  BY DEF PlainClass, PlainMessage
<1>2. inner = [i \in DOMAIN message |-> message[i]]
  BY <1>1 DEF pb!Inside
<1>. HIDE DEF inner
<1>3. \A i \in 1..n : pb!Written(class, inner, i) = ss[i]
  BY <1>1, <1>2 DEF pb!Written, pb!IsSet
<1>4. w = pb!FlattenSeq(ss)
  <2>1. w = pb!SerializeLeaf(class, inner)
    BY DEF pb!SerializeBinary, inner
  <2>2. [i \in DOMAIN class.fields |-> pb!Written(class, inner, i)] = ss
    BY <1>1, <1>3
  <2>. HIDE DEF ss, w
  <2>. QED  BY <2>1, <2>2 DEF pb!SerializeLeaf
<1>5. ss \in Seq(Seq(X)) /\ ss # <<>> /\ Len(ss) = n
  <2>1. ASSUME NEW i \in 1..n PROVE ss[i] \in Seq(X)
    <3>1. CASE i \in DOMAIN message
      <4>1. <<i, message[i]>> \in X
        BY <3>1
      <4>2. ss[i] = <<<<i, message[i]>>>>
        BY <3>1
      <4>. HIDE DEF X
      <4>. QED  BY <4>1, <4>2
    <3>2. CASE i \notin DOMAIN message
      BY <3>2
    <3>. QED  BY <3>1, <3>2
  <2>2. ss \in [1..n -> Seq(X)]
    BY <2>1
  <2>3. ss \in Seq(Seq(X)) /\ Len(ss) = n
    BY <2>2
  <2>. QED  BY <2>3
<1>. HIDE DEF w, ss, X
<1>6. /\ w \in Seq(X)
      /\ \A x : IsIn(x, w) <=> \E i \in 1..n : IsIn(x, ss[i])
  BY <1>4, <1>5, FlattenElements
<1>7. Len(w) \in Nat /\ DOMAIN w = 1..Len(w) /\ \A k \in DOMAIN w : w[k] \in X
  BY <1>6 DEF X
<1>8. ASSUME NEW i \in DOMAIN message
      PROVE  \E k \in DOMAIN w : w[k] = <<i, message[i]>>
  <2>1. i \in 1..n /\ 1 \in 1..Len(ss[i]) /\ ss[i][1] = <<i, message[i]>>
    BY <1>1 DEF ss
  <2>. QED  BY <1>6, <1>7, <2>1 DEF IsIn
<1>. QED
  BY <1>7, <1>8 DEF w, X

\* The two definitions of a request: a class of the client, and the names by which
\* the server knows the fields.
SameFields(class, fields, n) ==
    /\ DOMAIN fields = 1..n
    /\ \A i \in 1..n :
         /\ fields[i] # "method"
         /\ \A j \in 1..n : fields[i] = fields[j] => i = j
         /\ DefaultOf(fields[i]) = IF class.fields[i].kind = "string" THEN "" ELSE 0

\* What the server reads is what the client's getters return, field by field.
ReadAs(d, m, class, message) ==
    LET fields == RequestFields[m]
    IN  /\ d = [field \in {"method"} \cup {fields[i] : i \in DOMAIN class.fields} |-> d[field]]
        /\ d["method"] = m
        /\ \A i \in DOMAIN class.fields : d[fields[i]] = pb!Get(class, message, i)

\* What the server decodes is what the client wrote, for any plain message.
LEMMA DecodedIsWritten ==
    ASSUME NEW m, NEW class, NEW n \in Nat \ {0}, NEW message, PlainMessage(class, n, message),
           SameFields(class, RequestFields[m], n)
    PROVE  ReadAs(Decoded(m, pb!SerializeBinary(class, message)), m, class, message)
<1>. DEFINE w == pb!SerializeBinary(class, message)
            d == Decoded(m, w)
            fields == RequestFields[m]
            On(i) == {k \in DOMAIN w : w[k][1] = i}
            Value(i) == IF On(i) = {} THEN DefaultOf(fields[i])
                        ELSE w[CHOOSE k \in On(i) : TRUE][2]
            Number(field) == CHOOSE i \in DOMAIN fields : fields[i] = field
            names == {fields[i] : i \in 1..n}
<1>6. /\ \A j \in DOMAIN message : \E k \in DOMAIN w : w[k] = <<j, message[j]>>
      /\ \A k \in DOMAIN w : \E j \in DOMAIN message : w[k] = <<j, message[j]>>
  BY PlainWire
<1>. HIDE DEF w
<1>1. DOMAIN fields = 1..n
  BY DEF SameFields
<1>2. d = [field \in {"method"} \cup {fields[i] : i \in DOMAIN fields} |->
              IF field = "method" THEN m ELSE Value(Number(field))]
  BY DEF Decoded
<1>3. \A i \in 1..n : Number(fields[i]) = i
  BY <1>1 DEF SameFields
<1>. HIDE DEF d, Value, Number
<1>4. /\ d = [field \in {"method"} \cup names |-> d[field]]
      /\ d["method"] = m
      /\ \A i \in 1..n : d[fields[i]] = Value(i)
  <2>1. d = [field \in {"method"} \cup names |->
              IF field = "method" THEN m ELSE Value(Number(field))]
    BY <1>1, <1>2
  <2>2. \A i \in 1..n : fields[i] # "method"
    BY DEF SameFields
  <2>. HIDE DEF fields
  <2>. QED  BY <1>3, <2>1, <2>2
<1>5. ASSUME NEW i \in 1..n
      PROVE  Value(i) = pb!Get(class, message, i)
  <2>2. CASE i \in DOMAIN message
    <3>1. On(i) # {} /\ \A k \in On(i) : w[k][2] = message[i]
      BY <1>6, <2>2
    <3>2. Value(i) = message[i]
      <4>. HIDE DEF On
      <4>. QED  BY <3>1 DEF Value
    <3>. QED  BY <2>2, <3>2 DEF pb!Get, pb!IsSet
  <2>3. CASE i \notin DOMAIN message
    <3>1. On(i) = {}
      BY <1>6, <2>3
    <3>2. /\ DefaultOf(fields[i]) = IF class.fields[i].kind = "string" THEN "" ELSE 0
          /\ class.fields[i].kind \in {"string", "uint32"}
      BY DEF SameFields, PlainMessage, PlainClass
    <3>. HIDE DEF On, fields
    <3>3. Value(i) = IF class.fields[i].kind = "string" THEN "" ELSE 0
      BY <3>1, <3>2 DEF Value
    <3>. QED  BY <2>3, <3>2, <3>3 DEF pb!Get, pb!IsSet
  <2>. QED  BY <2>2, <2>3
<1>. QED
  BY <1>4, <1>5 DEF d, w, ReadAs, PlainMessage, PlainClass

\* The tables of the requests at the two ends.
LEMMA GameAndPlayerTable ==
    ASSUME NEW m \in {"CreateGame", "JoinGame", "GetGame"}
    PROVE  LET class == pb!PictophoneClient[m].request
           IN  /\ PlainClass(class, 2) /\ SameFields(class, RequestFields[m], 2)
               /\ class.fields[1].name = "gameId" /\ class.fields[2].name = "playerId"
               /\ RequestFields[m][1] = "game_id" /\ RequestFields[m][2] = "player_id"
<1>. DEFINE table == [fields |-> <<[name |-> "gameId", kind |-> "string"],
                                   [name |-> "playerId", kind |-> "string"]>>, oneof |-> {}]
<1>1. pb!PictophoneClient[m].request = table
  <2>1. /\ pb!CreateGameRequest = table /\ pb!JoinGameRequest = table
        /\ pb!GetGameRequest = table
    BY DEF pb!CreateGameRequest, pb!JoinGameRequest, pb!GetGameRequest, pb!Class, pb!StringField
  <2>. HIDE DEF table
  <2>. QED
    BY <2>1 DEF pb!PictophoneClient, pb!createGame, pb!joinGame, pb!getGame, pb!MethodInfo
<1>2. RequestFields[m] = <<"game_id", "player_id">>
  BY DEF RequestFields
<1>. QED
  BY <1>1, <1>2 DEF PlainClass, SameFields, DefaultOf

\* StartGame has the window and the length besides.
LEMMA StartGameTable ==
    LET class == pb!PictophoneClient["StartGame"].request
        fields == RequestFields["StartGame"]
    IN  /\ PlainClass(class, 4) /\ SameFields(class, fields, 4)
        /\ class.fields[1].name = "gameId" /\ class.fields[2].name = "playerId"
        /\ class.fields[3].name = "windowSize" /\ class.fields[4].name = "length"
        /\ fields[1] = "game_id" /\ fields[2] = "player_id"
        /\ fields[3] = "window_size" /\ fields[4] = "length"
<1>1. pb!PictophoneClient["StartGame"].request =
        [fields |-> <<[name |-> "gameId", kind |-> "string"],
                      [name |-> "playerId", kind |-> "string"],
                      [name |-> "windowSize", kind |-> "uint32"],
                      [name |-> "length", kind |-> "uint32"]>>, oneof |-> {}]
  BY DEF pb!PictophoneClient, pb!startGame, pb!MethodInfo, pb!StartGameRequest, pb!Class,
     pb!StringField, pb!Uint32Field
<1>2. RequestFields["StartGame"] = <<"game_id", "player_id", "window_size", "length">>
  BY DEF RequestFields
<1>3. 1..4 = {1, 2, 3, 4}
  OBVIOUS
<1>. DEFINE class == pb!PictophoneClient["StartGame"].request
            fields == RequestFields["StartGame"]
<1>4. /\ class.oneof = {} /\ DOMAIN class.fields = 1..4
      /\ class.fields[1].name = "gameId" /\ class.fields[2].name = "playerId"
      /\ class.fields[3].name = "windowSize" /\ class.fields[4].name = "length"
      /\ class.fields[1].kind = "string" /\ class.fields[2].kind = "string"
      /\ class.fields[3].kind = "uint32" /\ class.fields[4].kind = "uint32"
  BY <1>1
<1>5. /\ DOMAIN fields = 1..4
      /\ fields[1] = "game_id" /\ fields[2] = "player_id"
      /\ fields[3] = "window_size" /\ fields[4] = "length"
  BY <1>2
<1>. HIDE DEF class, fields
<1>6. PlainClass(class, 4)
  BY <1>3, <1>4 DEF PlainClass
<1>7. SameFields(class, fields, 4)
  <2>1. \A i \in 1..4 : fields[i] # "method"
    BY <1>3, <1>5
  <2>2. \A i, j \in 1..4 : fields[i] = fields[j] => i = j
    BY <1>3, <1>5
  <2>3. DefaultOf("game_id") = "" /\ DefaultOf("player_id") = ""
        /\ DefaultOf("window_size") = 0 /\ DefaultOf("length") = 0
    BY DEF DefaultOf
  <2>. DEFINE Default(i) == IF class.fields[i].kind = "string" THEN "" ELSE 0
  <2>4. Default(1) = "" /\ Default(2) = "" /\ Default(3) = 0 /\ Default(4) = 0
    BY <1>4
  <2>. HIDE DEF Default
  <2>5. \A i \in 1..4 : DefaultOf(fields[i]) = Default(i)
    BY <1>3, <1>5, <2>3, <2>4
  <2>. QED
    BY <1>5, <2>1, <2>2, <2>5 DEF SameFields, Default
<1>. QED
  BY <1>4, <1>5, <1>6, <1>7 DEF class, fields

\* MakeMove has the sentence.
LEMMA MakeMoveTable ==
    LET class == pb!PictophoneClient["MakeMove"].request
        fields == RequestFields["MakeMove"]
    IN  /\ PlainClass(class, 3) /\ SameFields(class, fields, 3)
        /\ class.fields[1].name = "gameId" /\ class.fields[2].name = "playerId"
        /\ class.fields[3].name = "sentence"
        /\ fields[1] = "game_id" /\ fields[2] = "player_id" /\ fields[3] = "sentence"
<1>1. pb!PictophoneClient["MakeMove"].request =
        [fields |-> <<[name |-> "gameId", kind |-> "string"],
                      [name |-> "playerId", kind |-> "string"],
                      [name |-> "sentence", kind |-> "string"]>>, oneof |-> {}]
  BY DEF pb!PictophoneClient, pb!makeMove, pb!MethodInfo, pb!MakeMoveRequest, pb!Class,
     pb!StringField
<1>2. RequestFields["MakeMove"] = <<"game_id", "player_id", "sentence">>
  BY DEF RequestFields
<1>. QED
  BY <1>1, <1>2 DEF PlainClass, SameFields, DefaultOf

\* Field i of a plain class has this name, and no other field has.
HasField(class, n, i, name) ==
    /\ PlainClass(class, n) /\ i \in 1..n
    /\ class.fields[i].name = name
    /\ \A j \in 1..n : class.fields[j].name = name => j = i

\* One setter of a plain class, by the name of its field.
LEMMA SetGet ==
    ASSUME NEW class, NEW n \in Nat, NEW message, PlainMessage(class, n, message),
           NEW i, NEW name, HasField(class, n, i, name), NEW value
    PROVE  /\ PlainMessage(class, n, pb!Set(class, message, name, value))
           /\ pb!Get(class, pb!Set(class, message, name, value), i) = value
           /\ \A j \in 1..n : j # i =>
                 pb!Get(class, pb!Set(class, message, name, value), j) = pb!Get(class, message, j)
<1>1. DOMAIN class.fields = 1..n /\ i \in DOMAIN class.fields /\ class.fields[i].name = name
  BY DEF PlainClass, HasField
<1>2. pb!Set(class, message, name, value) = pb!Put(class, message, i, value)
  BY <1>1, SetPuts DEF HasField
<1>. QED
  BY <1>1, <1>2, PutGet DEF PlainMessage

\* The request that the client puts together and writes is the one that the server
\* reads, whatever the ids and the sentence: also when they are empty, and not written.
LEMMA RequestIsRead ==
    ASSUME NEW p, NEW g, NEW r \in Wishes(p, g)
    PROVE  Decoded(r.method, pb!SerializeBinary(pb!PictophoneClient[r.method].request, Built(r))) = r
<1>. DEFINE m == r.method
            class == pb!PictophoneClient[m].request
            fields == RequestFields[m]
            ids == pb!Set(class, pb!Set(class, pb!New, "gameId", r.game_id), "playerId", r.player_id)
            d == Decoded(m, pb!SerializeBinary(class, Built(r)))
<1>1. DOMAIN pb!New = {}
  BY DEF pb!New
<1>2. ASSUME NEW n \in Nat, n >= 2, PlainClass(class, n),
             class.fields[1].name = "gameId", class.fields[2].name = "playerId",
             \A i \in 3..n : class.fields[i].name \notin {"gameId", "playerId"}
      PROVE  /\ PlainMessage(class, n, ids)
             /\ pb!Get(class, ids, 1) = r.game_id /\ pb!Get(class, ids, 2) = r.player_id
  <2>. DEFINE first == pb!Set(class, pb!New, "gameId", r.game_id)
  <2>. HIDE DEF class
  <2>1. 1 \in 1..n /\ 2 \in 1..n /\ \A i \in 1..n : i = 1 \/ i = 2 \/ i \in 3..n
    BY <1>2
  <2>2. HasField(class, n, 1, "gameId") /\ HasField(class, n, 2, "playerId")
    BY <1>2, <2>1 DEF HasField
  <2>3. PlainMessage(class, n, pb!New)
    BY <1>1, <1>2 DEF PlainMessage
  <2>5. PlainMessage(class, n, first) /\ pb!Get(class, first, 1) = r.game_id
    BY <2>2, <2>3, SetGet
  <2>. HIDE DEF first
  <2>4. /\ PlainMessage(class, n, pb!Set(class, first, "playerId", r.player_id))
        /\ pb!Get(class, pb!Set(class, first, "playerId", r.player_id), 2) = r.player_id
        /\ pb!Get(class, pb!Set(class, first, "playerId", r.player_id), 1) = pb!Get(class, first, 1)
    BY <2>1, <2>2, <2>5, SetGet
  <2>. QED
    BY <2>4, <2>5 DEF first
<1>3. CASE r \in [method : {"CreateGame", "JoinGame", "GetGame"}, player_id : {p}, game_id : {g}]
  <2>1. m \in {"CreateGame", "JoinGame", "GetGame"} /\ r.game_id = g /\ r.player_id = p
    BY <1>3
  <2>2. /\ PlainClass(class, 2) /\ SameFields(class, fields, 2)
        /\ class.fields[1].name = "gameId" /\ class.fields[2].name = "playerId"
        /\ fields[1] = "game_id" /\ fields[2] = "player_id"
    BY <2>1, GameAndPlayerTable
  <2>3. Built(r) = ids
    BY <2>1 DEF Built
  <2>. HIDE DEF class, fields, ids
  <2>4. /\ PlainMessage(class, 2, Built(r))
        /\ pb!Get(class, Built(r), 1) = g /\ pb!Get(class, Built(r), 2) = p
    BY <1>2, <2>1, <2>2, <2>3
  <2>13. ReadAs(d, m, class, Built(r))
    BY <2>2, <2>4, DecodedIsWritten DEF fields
  <2>5. /\ d = [field \in {"method"} \cup {fields[i] : i \in 1..2} |-> d[field]]
        /\ d["method"] = m
        /\ d[fields[1]] = g /\ d[fields[2]] = p
    BY <2>2, <2>4, <2>13 DEF ReadAs, fields, PlainClass
  <2>6. {"method"} \cup {fields[i] : i \in 1..2} = {"method", "game_id", "player_id"}
    BY <2>2
  <2>7. r = [method |-> m, player_id |-> p, game_id |-> g]
    BY <1>3
  <2>. HIDE DEF d, m
  <2>8. d = [method |-> m, player_id |-> p, game_id |-> g]
    BY <2>2, <2>5, <2>6
  <2>. QED  BY <2>7, <2>8 DEF d, m, class
<1>4. CASE r \in [method : {"StartGame"}, player_id : {p}, game_id : {g},
                  window_size : {2}, length : {5}]
  <2>1. /\ m = "StartGame" /\ r.game_id = g /\ r.player_id = p
        /\ r.window_size = 2 /\ r.length = 5
    BY <1>4
  <2>2. /\ PlainClass(class, 4) /\ SameFields(class, fields, 4)
        /\ class.fields[1].name = "gameId" /\ class.fields[2].name = "playerId"
        /\ class.fields[3].name = "windowSize" /\ class.fields[4].name = "length"
        /\ fields[1] = "game_id" /\ fields[2] = "player_id"
        /\ fields[3] = "window_size" /\ fields[4] = "length"
    BY <2>1, StartGameTable
  <2>. DEFINE third == pb!Set(class, ids, "windowSize", r.window_size)
              fourth == pb!Set(class, third, "length", r.length)
  <2>3. Built(r) = fourth
    BY <2>1 DEF Built
  <2>. HIDE DEF class, fields, ids
  <2>4. \A i \in 1..4 : i = 1 \/ i = 2 \/ i = 3 \/ i = 4
    OBVIOUS
  <2>12. HasField(class, 4, 3, "windowSize") /\ HasField(class, 4, 4, "length")
    BY <2>2, <2>4 DEF HasField
  <2>5. /\ PlainMessage(class, 4, ids)
        /\ pb!Get(class, ids, 1) = g /\ pb!Get(class, ids, 2) = p
    BY <1>2, <2>1, <2>2, <2>4
  <2>6. /\ PlainMessage(class, 4, third) /\ pb!Get(class, third, 3) = 2
        /\ pb!Get(class, third, 1) = g /\ pb!Get(class, third, 2) = p
    BY <2>1, <2>4, <2>5, <2>12, SetGet
  <2>. HIDE DEF third
  <2>7. /\ PlainMessage(class, 4, fourth) /\ pb!Get(class, fourth, 4) = 5
        /\ pb!Get(class, fourth, 1) = g /\ pb!Get(class, fourth, 2) = p
        /\ pb!Get(class, fourth, 3) = 2
    BY <2>1, <2>4, <2>6, <2>12, SetGet
  <2>. HIDE DEF fourth
  <2>13. ReadAs(d, m, class, Built(r))
    BY <2>2, <2>3, <2>7, DecodedIsWritten DEF fields
  <2>8. /\ d = [field \in {"method"} \cup {fields[i] : i \in 1..4} |-> d[field]]
        /\ d["method"] = m
        /\ d[fields[1]] = g /\ d[fields[2]] = p /\ d[fields[3]] = 2 /\ d[fields[4]] = 5
    BY <2>2, <2>3, <2>7, <2>13 DEF ReadAs, fields, PlainClass
  <2>9. {"method"} \cup {fields[i] : i \in 1..4}
            = {"method", "game_id", "player_id", "window_size", "length"}
    BY <2>2, <2>4
  <2>10. r = [method |-> m, player_id |-> p, game_id |-> g, window_size |-> 2, length |-> 5]
    BY <1>4
  <2>. HIDE DEF d, m
  <2>11. d = [method |-> m, player_id |-> p, game_id |-> g, window_size |-> 2, length |-> 5]
    BY <2>2, <2>8, <2>9
  <2>. QED  BY <2>10, <2>11 DEF d, m, class
<1>5. CASE r \in [method : {"MakeMove"}, player_id : {p}, game_id : {g}, sentence : Sentences]
  <2>1. m = "MakeMove" /\ r.game_id = g /\ r.player_id = p
    BY <1>5
  <2>2. /\ PlainClass(class, 3) /\ SameFields(class, fields, 3)
        /\ class.fields[1].name = "gameId" /\ class.fields[2].name = "playerId"
        /\ class.fields[3].name = "sentence"
        /\ fields[1] = "game_id" /\ fields[2] = "player_id" /\ fields[3] = "sentence"
    BY <2>1, MakeMoveTable
  <2>. DEFINE third == pb!Set(class, ids, "sentence", r.sentence)
  <2>3. Built(r) = third
    BY <2>1 DEF Built
  <2>. HIDE DEF class, fields, ids
  <2>4. \A i \in 1..3 : i = 1 \/ i = 2 \/ i = 3
    OBVIOUS
  <2>12. HasField(class, 3, 3, "sentence")
    BY <2>2, <2>4 DEF HasField
  <2>5. /\ PlainMessage(class, 3, ids)
        /\ pb!Get(class, ids, 1) = g /\ pb!Get(class, ids, 2) = p
    BY <1>2, <2>1, <2>2, <2>4
  <2>6. /\ PlainMessage(class, 3, third) /\ pb!Get(class, third, 3) = r.sentence
        /\ pb!Get(class, third, 1) = g /\ pb!Get(class, third, 2) = p
    BY <2>1, <2>4, <2>5, <2>12, SetGet
  <2>. HIDE DEF third
  <2>13. ReadAs(d, m, class, Built(r))
    BY <2>2, <2>3, <2>6, DecodedIsWritten DEF fields
  <2>7. /\ d = [field \in {"method"} \cup {fields[i] : i \in 1..3} |-> d[field]]
        /\ d["method"] = m
        /\ d[fields[1]] = g /\ d[fields[2]] = p /\ d[fields[3]] = r.sentence
    BY <2>2, <2>3, <2>6, <2>13 DEF ReadAs, fields, PlainClass
  <2>8. {"method"} \cup {fields[i] : i \in 1..3} = {"method", "game_id", "player_id", "sentence"}
    BY <2>2, <2>4
  <2>9. r = [method |-> m, player_id |-> p, game_id |-> g, sentence |-> r.sentence]
    BY <1>5
  <2>. HIDE DEF d, m
  <2>10. d = [method |-> m, player_id |-> p, game_id |-> g, sentence |-> r.sentence]
    BY <2>2, <2>7, <2>8
  <2>. QED  BY <2>9, <2>10 DEF d, m, class
<1>. QED
  BY <1>3, <1>4, <1>5 DEF Wishes

-----------------------------------------------------------------------------
(* Answers: what the server writes is what toObject returns.                *)

\* A class of an answer: its n fields are messages, and have names of their own.
DistinctNames(class) ==
    \A i, j \in DOMAIN class.fields : class.fields[i].name = class.fields[j].name => i = j

AnswerClass(class) ==
    /\ 9 \notin DOMAIN class.fields
    /\ \A i \in DOMAIN class.fields : class.fields[i].kind = "message"
    /\ DistinctNames(class)

\* The one field that is set, and what was read into it.
HoldsOnly(message, i, value) == DOMAIN message = {i} /\ message[i] = value

\* One message on the wire, or none, and perhaps a field that the class does not
\* know, which is skipped.
LEMMA AnswerIsRead ==
    ASSUME NEW class, AnswerClass(class),
           NEW i \in DOMAIN class.fields, NEW v, NEW w \in Newer(<<<<i, v>>>>)
    PROVE  HoldsOnly(pb!DeserializeBinary(class, w), i,
                     pb!DeserializeInner(class.fields[i].class, v))
<1>. DEFINE pairs == pb!ReadMessages(class, w, pb!DeserializeInner)
            inside == pb!DeserializeInner(class.fields[i].class, v)
            message == pb!Reading(class, pairs)
<1>1. class.fields[i].kind = "message" /\ 9 \notin DOMAIN class.fields
  BY DEF AnswerClass
<1>2. w = <<<<i, v>>>> \/ w = <<<<i, v>>, <<9, "new">>>>
  BY DEF Newer
<1>3. /\ Len(pairs) \in {1, 2} /\ pairs[1] = <<i, inside>>
      /\ Len(pairs) = 2 => pairs[2][1] = 9
  <2>. HIDE DEF inside
  <2>1. CASE w = <<<<i, v>>>>
    <3>1. DOMAIN w = 1..1 /\ w[1][1] = i /\ w[1][2] = v
      BY <2>1
    <3>2. pairs = <<<<i, inside>>>>
      BY <1>1, <3>1 DEF pb!ReadMessages, inside
    <3>. HIDE DEF pairs
    <3>. QED  BY <3>2
  <2>2. CASE w = <<<<i, v>>, <<9, "new">>>>
    <3>1. DOMAIN w = 1..2 /\ w[1][1] = i /\ w[1][2] = v /\ w[2] = <<9, "new">>
      BY <2>2
    <3>2. pairs = [k \in 1..2 |-> IF k = 1 THEN <<i, inside>> ELSE <<9, "new">>]
      BY <1>1, <3>1 DEF pb!ReadMessages, inside
    <3>. HIDE DEF pairs
    <3>. QED  BY <3>2
  <2>. QED  BY <1>2, <2>1, <2>2
<1>4. pb!DeserializeBinary(class, w) = message[Len(pairs)]
  BY DEF pb!DeserializeBinary, pb!DeserializeLeaf
<1>. HIDE DEF pairs, inside, message
<1>5. /\ message[0] = pb!New
      /\ \A k \in 1..Len(pairs) : message[k] = pb!ReadField(class, message[k - 1], pairs[k])
  BY <1>3, ReadingLoop DEF message
<1>6. DOMAIN message[1] = {i} /\ message[1][i] = inside
  <2>1. message[1] = pb!ReadField(class, message[0], pairs[1])
    BY <1>3, <1>5
  <2>2. message[1] = pb!Put(class, pb!New, i, inside)
    BY <1>1, <1>3, <1>5, <2>1 DEF pb!ReadField
  <2>3. ~pb!IsDefault(class.fields[i], inside)
    BY <1>1 DEF pb!IsDefault
  <2>4. DOMAIN pb!New = {}
    BY DEF pb!New
  <2>. QED  BY <2>2, <2>3, <2>4 DEF pb!Put
<1>7. message[Len(pairs)] = message[1]
  <2>1. CASE Len(pairs) = 2
    <3>1. message[2] = pb!ReadField(class, message[1], pairs[2])
      BY <1>5, <2>1
    <3>. QED  BY <1>1, <1>3, <2>1, <3>1 DEF pb!ReadField
  <2>. QED  BY <1>3, <2>1
<1>. QED
  BY <1>4, <1>6, <1>7 DEF inside, HoldsOnly

\* Without a message on the wire, nothing is set.
LEMMA NoAnswerIsRead ==
    ASSUME NEW class, AnswerClass(class), NEW w \in Newer(<<>>)
    PROVE  DOMAIN pb!DeserializeBinary(class, w) = {}
<1>. DEFINE pairs == pb!ReadMessages(class, w, pb!DeserializeInner)
            message == pb!Reading(class, pairs)
<1>1. 9 \notin DOMAIN class.fields
  BY DEF AnswerClass
<1>2. w = <<>> \/ w = <<<<9, "new">>>>
  BY DEF Newer
<1>3. Len(pairs) \in {0, 1} /\ (Len(pairs) = 1 => pairs[1][1] = 9)
  <2>1. CASE w = <<>>
    <3>1. pairs = <<>>
      BY <2>1 DEF pb!ReadMessages
    <3>. HIDE DEF pairs
    <3>. QED  BY <3>1
  <2>2. CASE w = <<<<9, "new">>>>
    <3>1. DOMAIN w = 1..1 /\ w[1] = <<9, "new">>
      BY <2>2
    <3>2. pairs = <<<<9, "new">>>>
      BY <1>1, <3>1 DEF pb!ReadMessages
    <3>. HIDE DEF pairs
    <3>. QED  BY <3>2
  <2>. QED  BY <1>2, <2>1, <2>2
<1>4. pb!DeserializeBinary(class, w) = message[Len(pairs)]
  BY DEF pb!DeserializeBinary, pb!DeserializeLeaf
<1>. HIDE DEF pairs, message
<1>5. /\ message[0] = pb!New
      /\ \A k \in 1..Len(pairs) : message[k] = pb!ReadField(class, message[k - 1], pairs[k])
  BY <1>3, ReadingLoop DEF message
<1>6. message[Len(pairs)] = pb!New
  <2>1. CASE Len(pairs) = 1
    <3>1. message[1] = pb!ReadField(class, message[0], pairs[1])
      BY <1>5, <2>1
    <3>. QED  BY <1>1, <1>3, <1>5, <2>1, <3>1 DEF pb!ReadField
  <2>. QED  BY <1>3, <1>5, <2>1
<1>. QED
  BY <1>4, <1>6 DEF pb!New

\* toObject: the names of the fields that are shown, and the getters' values.
ShownFields(class, message) ==
    {i \in DOMAIN class.fields : class.fields[i].kind # "message" \/ i \in DOMAIN message}

\* An object has the fields that it shows, under their names.
LEMMA ObjectOf ==
    ASSUME NEW class, DistinctNames(class), NEW message
    PROVE  /\ DOMAIN pb!ToObjectLeaf(class, message)
                  = {class.fields[i].name : i \in ShownFields(class, message)}
           /\ \A i \in ShownFields(class, message) :
                  pb!ToObjectLeaf(class, message)[class.fields[i].name] = pb!Get(class, message, i)
<1>. DEFINE shown == ShownFields(class, message)
            Number(name) == CHOOSE i \in shown : class.fields[i].name = name
<1>1. pb!ToObjectLeaf(class, message) = [name \in {class.fields[i].name : i \in shown} |->
                                            pb!Get(class, message, Number(name))]
  BY DEF pb!ToObjectLeaf, ShownFields, pb!IsSet
<1>2. shown \subseteq DOMAIN class.fields
  BY DEF ShownFields
<1>. HIDE DEF shown
<1>3. \A i \in shown : Number(class.fields[i].name) = i
  BY <1>2 DEF DistinctNames
<1>. HIDE DEF Number
<1>4. /\ DOMAIN pb!ToObjectLeaf(class, message) = {class.fields[i].name : i \in shown}
      /\ \A i \in shown :
            pb!ToObjectLeaf(class, message)[class.fields[i].name] = pb!Get(class, message, i)
  BY <1>1, <1>3
<1>. QED
  BY <1>4 DEF shown

\* The object of an answer: the messages that are set, under their names.
IsAnswerObject(object, class, message) ==
    /\ DOMAIN object = {class.fields[i].name : i \in DOMAIN message}
    /\ \A i \in DOMAIN message :
          object[class.fields[i].name] = pb!ToObjectInner(class.fields[i].class, message[i])

LEMMA AnswerObject ==
    ASSUME NEW class, AnswerClass(class), NEW message, DOMAIN message \subseteq DOMAIN class.fields
    PROVE  IsAnswerObject(pb!ToObject(class, message), class, message)
<1>. DEFINE inner == pb!Inside(class, message, pb!ToObjectInner)
<1>1. /\ DOMAIN inner = DOMAIN message
      /\ \A i \in DOMAIN message : inner[i] = pb!ToObjectInner(class.fields[i].class, message[i])
  BY DEF pb!Inside, AnswerClass
<1>2. pb!ToObject(class, message) = pb!ToObjectLeaf(class, inner)
  BY DEF pb!ToObject
<1>. HIDE DEF inner
<1>3. ShownFields(class, inner) = DOMAIN message
  BY <1>1 DEF ShownFields, AnswerClass
<1>4. \A i \in DOMAIN message : pb!Get(class, inner, i) = inner[i]
  BY <1>1 DEF pb!Get, pb!IsSet
<1>5. DistinctNames(class)
  BY DEF AnswerClass
<1>6. /\ DOMAIN pb!ToObjectLeaf(class, inner)
            = {class.fields[i].name : i \in ShownFields(class, inner)}
      /\ \A i \in ShownFields(class, inner) :
            pb!ToObjectLeaf(class, inner)[class.fields[i].name] = pb!Get(class, inner, i)
  BY <1>5, ObjectOf
<1>. QED
  BY <1>1, <1>2, <1>3, <1>4, <1>6 DEF IsAnswerObject

\* The client's object for an answer with an error or a game, and for one without.
LEMMA NamedObject ==
    ASSUME NEW class, AnswerClass(class),
           NEW i \in DOMAIN class.fields, NEW v, NEW w \in Newer(<<<<i, v>>>>)
    PROVE  HoldsOnly(pb!ToObject(class, pb!DeserializeBinary(class, w)), class.fields[i].name,
                     pb!ToObjectInner(class.fields[i].class,
                                      pb!DeserializeInner(class.fields[i].class, v)))
<1>. DEFINE message == pb!DeserializeBinary(class, w)
            object == pb!ToObject(class, message)
            value == pb!DeserializeInner(class.fields[i].class, v)
<1>1. HoldsOnly(message, i, value)
  BY AnswerIsRead
<1>. HIDE DEF message, value
<1>2. DOMAIN message \subseteq DOMAIN class.fields /\ i \in DOMAIN message
  BY <1>1 DEF HoldsOnly
<1>3. IsAnswerObject(object, class, message)
  BY <1>2, AnswerObject
<1>. HIDE DEF object
<1>. QED
  BY <1>1, <1>3 DEF IsAnswerObject, HoldsOnly, message, object, value

LEMMA NoErrorObject ==
    ASSUME NEW class, AnswerClass(class), NEW w \in Newer(<<>>)
    PROVE  DOMAIN pb!ToObject(class, pb!DeserializeBinary(class, w)) = {}
<1>1. DOMAIN pb!DeserializeBinary(class, w) = {}
  BY NoAnswerIsRead
<1>2. IsAnswerObject(pb!ToObject(class, pb!DeserializeBinary(class, w)), class,
                     pb!DeserializeBinary(class, w))
  BY <1>1, AnswerObject
<1>. QED
  BY <1>1, <1>2 DEF IsAnswerObject

-----------------------------------------------------------------------------
(* The tables of the answers at the two ends.                              *)

\* A member of oneof error has at the client the name of its error.
SameErrors(class, errors) ==
    /\ AnswerClass(class)
    /\ DOMAIN errors = DOMAIN class.fields
    /\ \A i, j \in DOMAIN errors : errors[i] = errors[j] => i = j
    /\ \A i \in DOMAIN errors : errors[i] \in Errors => class.fields[i].name = ErrorName[errors[i]]

\* It is so for each action method, and GetGame's answer has the game besides.
LEMMA CreateGameErrors ==
    SameErrors(pb!PictophoneClient["CreateGame"].response, ErrorFields["CreateGame"])
<1>. DEFINE class == pb!PictophoneClient["CreateGame"].response
            errors == ErrorFields["CreateGame"]
<1>1. class = pb!CreateGameResponse
  BY DEF pb!PictophoneClient, pb!createGame, pb!MethodInfo
<1>2. /\ DOMAIN class.fields = 1..2
      /\ class.fields[1].kind = "message" /\ class.fields[2].kind = "message"
      /\ class.fields[1].name = "unknownError" /\ class.fields[2].name = "gameAlreadyExistsError"
  BY <1>1 DEF pb!CreateGameResponse, pb!OneofClass, pb!MessageField
<1>3. DOMAIN errors = 1..2 /\ errors[1] = "Unknown" /\ errors[2] = "GameAlreadyExists"
  BY DEF ErrorFields
<1>4. ErrorName["GameAlreadyExists"] = "gameAlreadyExistsError"
  BY DEF ErrorName
<1>. HIDE DEF class, errors
<1>. QED
  BY <1>2, <1>3, <1>4 DEF SameErrors, AnswerClass, DistinctNames, Errors, class, errors

LEMMA JoinGameErrors ==
    SameErrors(pb!PictophoneClient["JoinGame"].response, ErrorFields["JoinGame"])
<1>. DEFINE class == pb!PictophoneClient["JoinGame"].response
            errors == ErrorFields["JoinGame"]
<1>1. class = pb!JoinGameResponse
  BY DEF pb!PictophoneClient, pb!joinGame, pb!MethodInfo
<1>2. /\ DOMAIN class.fields = 1..3
      /\ class.fields[1].kind = "message" /\ class.fields[2].kind = "message"
      /\ class.fields[3].kind = "message"
      /\ class.fields[1].name = "unknownError" /\ class.fields[2].name = "gameNotFoundError"
      /\ class.fields[3].name = "gameAlreadyStartedError"
  BY <1>1 DEF pb!JoinGameResponse, pb!OneofClass, pb!MessageField
<1>3. /\ DOMAIN errors = 1..3 /\ errors[1] = "Unknown" /\ errors[2] = "GameNotFound"
      /\ errors[3] = "GameAlreadyStarted"
  BY DEF ErrorFields
<1>4. /\ ErrorName["GameNotFound"] = "gameNotFoundError"
      /\ ErrorName["GameAlreadyStarted"] = "gameAlreadyStartedError"
  BY DEF ErrorName
<1>5. 1..3 = {1, 2, 3}
  OBVIOUS
<1>. HIDE DEF class, errors
<1>6. AnswerClass(class)
  BY <1>2, <1>5 DEF AnswerClass, DistinctNames
<1>. QED
  BY <1>2, <1>3, <1>4, <1>5, <1>6 DEF SameErrors, Errors, class, errors

LEMMA StartGameErrors ==
    SameErrors(pb!PictophoneClient["StartGame"].response, ErrorFields["StartGame"])
<1>. DEFINE class == pb!PictophoneClient["StartGame"].response
            errors == ErrorFields["StartGame"]
<1>1. class = pb!StartGameResponse
  BY DEF pb!PictophoneClient, pb!startGame, pb!MethodInfo
<1>2. /\ DOMAIN class.fields = 1..4
      /\ class.fields[1].kind = "message" /\ class.fields[2].kind = "message"
      /\ class.fields[3].kind = "message" /\ class.fields[4].kind = "message"
      /\ class.fields[1].name = "unknownError"
      /\ class.fields[2].name = "playerNotInGameError"
      /\ class.fields[3].name = "invalidGameParametersError"
      /\ class.fields[4].name = "gameAlreadyStartedError"
  BY <1>1 DEF pb!StartGameResponse, pb!OneofClass, pb!MessageField
<1>3. /\ DOMAIN errors = 1..4 /\ errors[1] = "Unknown" /\ errors[2] = "PlayerNotInGame"
      /\ errors[3] = "InvalidGameParameters" /\ errors[4] = "GameAlreadyStarted"
  BY DEF ErrorFields
<1>4. /\ ErrorName["PlayerNotInGame"] = "playerNotInGameError"
      /\ ErrorName["GameAlreadyStarted"] = "gameAlreadyStartedError"
  BY DEF ErrorName
<1>5. 1..4 = {1, 2, 3, 4}
  OBVIOUS
<1>. HIDE DEF class, errors
<1>6. AnswerClass(class)
  BY <1>2, <1>5 DEF AnswerClass, DistinctNames
<1>. QED
  BY <1>2, <1>3, <1>4, <1>5, <1>6 DEF SameErrors, Errors, class, errors

LEMMA MakeMoveErrors ==
    SameErrors(pb!PictophoneClient["MakeMove"].response, ErrorFields["MakeMove"])
<1>. DEFINE class == pb!PictophoneClient["MakeMove"].response
            errors == ErrorFields["MakeMove"]
<1>1. class = pb!MakeMoveResponse
  BY DEF pb!PictophoneClient, pb!makeMove, pb!MethodInfo
<1>2. /\ DOMAIN class.fields = 1..4
      /\ class.fields[1].kind = "message" /\ class.fields[2].kind = "message"
      /\ class.fields[3].kind = "message" /\ class.fields[4].kind = "message"
      /\ class.fields[1].name = "unknownError"
      /\ class.fields[2].name = "notYourTurnError"
      /\ class.fields[3].name = "gameNotStartedError"
      /\ class.fields[4].name = "gameAlreadyOverError"
  BY <1>1 DEF pb!MakeMoveResponse, pb!OneofClass, pb!MessageField
<1>3. /\ DOMAIN errors = 1..4 /\ errors[1] = "Unknown" /\ errors[2] = "NotYourTurn"
      /\ errors[3] = "GameNotStarted" /\ errors[4] = "GameAlreadyOver"
  BY DEF ErrorFields
<1>4. /\ ErrorName["NotYourTurn"] = "notYourTurnError"
      /\ ErrorName["GameNotStarted"] = "gameNotStartedError"
      /\ ErrorName["GameAlreadyOver"] = "gameAlreadyOverError"
  BY DEF ErrorName
<1>5. 1..4 = {1, 2, 3, 4}
  OBVIOUS
<1>. HIDE DEF class, errors
<1>6. AnswerClass(class)
  BY <1>2, <1>5 DEF AnswerClass, DistinctNames
<1>. QED
  BY <1>2, <1>3, <1>4, <1>5, <1>6 DEF SameErrors, Errors, class, errors

LEMMA GetGameErrors ==
    LET class == pb!PictophoneClient["GetGame"].response
        errors == ErrorFields["GetGame"]
    IN  /\ AnswerClass(class)
        /\ DOMAIN class.fields = 1..3
        /\ class.fields[2].name = "playerNotInGameError" /\ class.fields[3].name = "game"
        /\ class.fields[3].class = pb!Game
        /\ DOMAIN errors = 1..2 /\ errors[1] = "Unknown" /\ errors[2] = "PlayerNotInGame"
<1>. DEFINE class == pb!PictophoneClient["GetGame"].response
            errors == ErrorFields["GetGame"]
<1>1. class = pb!GetGameResponse
  BY DEF pb!PictophoneClient, pb!getGame, pb!MethodInfo
<1>2. /\ DOMAIN class.fields = 1..3
      /\ class.fields[1].kind = "message" /\ class.fields[2].kind = "message"
      /\ class.fields[3].kind = "message"
      /\ class.fields[1].name = "unknownError" /\ class.fields[2].name = "playerNotInGameError"
      /\ class.fields[3].name = "game" /\ class.fields[3].class = pb!Game
  BY <1>1 DEF pb!GetGameResponse, pb!OneofClass, pb!MessageField
<1>3. DOMAIN errors = 1..2 /\ errors[1] = "Unknown" /\ errors[2] = "PlayerNotInGame"
  BY DEF ErrorFields
<1>5. 1..3 = {1, 2, 3}
  OBVIOUS
<1>. HIDE DEF class, errors
<1>6. AnswerClass(class)
  BY <1>2, <1>5 DEF AnswerClass, DistinctNames
<1>. QED
  BY <1>2, <1>3, <1>6 DEF class, errors

-----------------------------------------------------------------------------
\* An error that the answer of a method can carry: a member of its oneof.
ErrorOf(m, error) ==
    \/ error = None
    \/ error \in Errors /\ \E i \in DOMAIN ErrorFields[m] : ErrorFields[m][i] = error

\* The logic answers a method with no other.
LEMMA ErrorOfMethod ==
    ASSUME NEW st, NEW r, r.method \in Methods
    PROVE  ErrorOf(r.method, HandleAction(st, r).error)
<1>. DEFINE error == HandleAction(st, r).error
<1>1. \A x, e : Ok(x).error = None /\ Err(e).error = e
  BY DEF Ok, Err
<1>2. CASE r.method = "CreateGame"
  <2>1. error \in {None, "GameAlreadyExists"}
    BY <1>1, <1>2 DEF HandleAction, CreateGame
  <2>2. 2 \in DOMAIN ErrorFields["CreateGame"] /\ ErrorFields["CreateGame"][2] = "GameAlreadyExists"
    BY DEF ErrorFields
  <2>. HIDE DEF error
  <2>. QED  BY <1>2, <2>1, <2>2 DEF ErrorOf, Errors, error
<1>3. CASE r.method = "JoinGame"
  <2>1. error \in {None, "GameNotFound", "GameAlreadyStarted"}
    BY <1>1, <1>3 DEF HandleAction, JoinGame
  <2>2. /\ 2 \in DOMAIN ErrorFields["JoinGame"] /\ 3 \in DOMAIN ErrorFields["JoinGame"]
        /\ ErrorFields["JoinGame"][2] = "GameNotFound"
        /\ ErrorFields["JoinGame"][3] = "GameAlreadyStarted"
    BY DEF ErrorFields
  <2>. HIDE DEF error
  <2>. QED  BY <1>3, <2>1, <2>2 DEF ErrorOf, Errors, error
<1>4. CASE r.method = "StartGame"
  <2>1. error \in {None, "GameAlreadyStarted", "PlayerNotInGame"}
    BY <1>1, <1>4 DEF HandleAction, StartGame
  <2>2. /\ 2 \in DOMAIN ErrorFields["StartGame"] /\ 4 \in DOMAIN ErrorFields["StartGame"]
        /\ ErrorFields["StartGame"][2] = "PlayerNotInGame"
        /\ ErrorFields["StartGame"][4] = "GameAlreadyStarted"
    BY DEF ErrorFields
  <2>. HIDE DEF error
  <2>. QED  BY <1>4, <2>1, <2>2 DEF ErrorOf, Errors, error
<1>5. CASE r.method = "MakeMove"
  <2>1. error \in {None, "GameNotStarted", "GameAlreadyOver", "NotYourTurn"}
    BY <1>1, <1>5 DEF HandleAction, MakeMove
  <2>2. /\ \A i \in 2..4 : i \in DOMAIN ErrorFields["MakeMove"]
        /\ ErrorFields["MakeMove"][2] = "NotYourTurn"
        /\ ErrorFields["MakeMove"][3] = "GameNotStarted"
        /\ ErrorFields["MakeMove"][4] = "GameAlreadyOver"
    BY DEF ErrorFields
  <2>. HIDE DEF error
  <2>. QED  BY <1>5, <2>1, <2>2 DEF ErrorOf, Errors, error
<1>. QED
  BY <1>2, <1>3, <1>4, <1>5 DEF Methods

\* An error is encoded as the one member of the oneof that has its name.
LEMMA ErrorOnTheWire ==
    ASSUME NEW m, NEW i \in DOMAIN ErrorFields[m], ErrorFields[m][i] # None,
           \A j \in DOMAIN ErrorFields[m] : ErrorFields[m][j] = ErrorFields[m][i] => j = i
    PROVE  EncodedError(m, ErrorFields[m][i]) = <<<<i, <<>>>>>>
<1>1. (CHOOSE j \in DOMAIN ErrorFields[m] : ErrorFields[m][j] = ErrorFields[m][i]) = i
  OBVIOUS
<1>. QED
  BY <1>1 DEF EncodedError

\* The answer of an action method, read by the client: the error of the logic under
\* its name at the client, and nothing when there is none.
LEMMA AnswerObjectOf ==
    ASSUME NEW m \in Methods, NEW error, ErrorOf(m, error), NEW w \in Newer(EncodedError(m, error))
    PROVE  DOMAIN pb!ToObject(pb!PictophoneClient[m].response,
                              pb!DeserializeBinary(pb!PictophoneClient[m].response, w))
              = IF error = None THEN {} ELSE {ErrorName[error]}
<1>. DEFINE class == pb!PictophoneClient[m].response
            errors == ErrorFields[m]
<1>1. SameErrors(class, errors)
  <2>2. CASE m = "CreateGame"
    BY <2>2, CreateGameErrors
  <2>3. CASE m = "JoinGame"
    BY <2>3, JoinGameErrors
  <2>4. CASE m = "StartGame"
    BY <2>4, StartGameErrors
  <2>5. CASE m = "MakeMove"
    BY <2>5, MakeMoveErrors
  <2>. QED  BY <2>2, <2>3, <2>4, <2>5 DEF Methods
<1>. HIDE DEF class, errors
<1>2. AnswerClass(class) /\ DOMAIN errors = DOMAIN class.fields
  BY <1>1 DEF SameErrors
<1>3. CASE error = None
  <2>1. w \in Newer(<<>>)
    BY <1>3 DEF EncodedError
  <2>. QED  BY <1>2, <1>3, <2>1, NoErrorObject DEF class
<1>4. CASE error # None
  <2>1. error \in Errors /\ \E i \in DOMAIN errors : errors[i] = error
    BY <1>4 DEF ErrorOf, errors
  <2>2. PICK i \in DOMAIN errors : errors[i] = error
    BY <2>1
  <2>3. class.fields[i].name = ErrorName[error]
    BY <1>1, <2>1, <2>2 DEF SameErrors
  <2>4. EncodedError(m, errors[i]) = <<<<i, <<>>>>>>
    BY <1>1, <1>2, <1>4, <2>2, ErrorOnTheWire DEF SameErrors, errors
  <2>5. w \in Newer(<<<<i, <<>>>>>>)
    BY <2>2, <2>4
  <2>6. DOMAIN pb!ToObject(class, pb!DeserializeBinary(class, w)) = {class.fields[i].name}
    <3>. DEFINE value == pb!ToObjectInner(class.fields[i].class,
                                          pb!DeserializeInner(class.fields[i].class, <<>>))
    <3>1. HoldsOnly(pb!ToObject(class, pb!DeserializeBinary(class, w)), class.fields[i].name, value)
      BY <1>2, <2>5, NamedObject
    <3>. QED  BY <3>1 DEF HoldsOnly
  <2>. QED  BY <1>4, <2>3, <2>6 DEF class
<1>. QED
  BY <1>3, <1>4

\* The wire begins with the values of field 1.
Lists(pairs, values) ==
    /\ Len(pairs) \in Nat /\ Len(values) <= Len(pairs)
    /\ \A k \in 1..Len(values) : pairs[k][1] = 1 /\ pairs[k][2] = values[k]

RepeatedFirst(class) ==
    1 \in DOMAIN class.fields /\ class.fields[1].kind = "repeated" /\ 1 \notin class.oneof

\* After as many rounds as a repeated field has elements on the wire, the field
\* has them all, in order, and nothing else is set.
LEMMA RepeatedIsRead ==
    ASSUME NEW class, RepeatedFirst(class), NEW X, NEW values \in Seq(X),
           NEW pairs, Lists(pairs, values)
    PROVE  /\ DOMAIN pb!Reading(class, pairs)[Len(values)] \subseteq {1}
           /\ pb!Get(class, pb!Reading(class, pairs)[Len(values)], 1) = values
<1>. DEFINE message == pb!Reading(class, pairs)
            n == Len(values)
            Prefix(k) == [i \in 1..k |-> values[i]]
            T == {k \in Nat : k <= n => /\ DOMAIN message[k] \subseteq {1}
                                        /\ pb!Get(class, message[k], 1) = Prefix(k)}
<1>1. n \in Nat /\ values = Prefix(n)
  OBVIOUS
<1>6. /\ Len(pairs) \in Nat /\ n <= Len(pairs)
      /\ \A k \in 1..n : pairs[k][1] = 1 /\ pairs[k][2] = values[k]
  BY DEF Lists
<1>7. 1 \in DOMAIN class.fields /\ class.fields[1].kind = "repeated" /\ 1 \notin class.oneof
  BY DEF RepeatedFirst
<1>2. /\ message[0] = pb!New
      /\ \A k \in 1..Len(pairs) : message[k] = pb!ReadField(class, message[k - 1], pairs[k])
  BY <1>6, ReadingLoop
<1>3. 0 \in T
  <2>1. DOMAIN pb!New = {}
    BY DEF pb!New
  <2>2. pb!Get(class, pb!New, 1) = <<>>
    BY <1>7, <2>1 DEF pb!Get, pb!IsSet
  <2>3. Prefix(0) = <<>>
    OBVIOUS
  <2>. HIDE DEF message
  <2>. QED  BY <1>2, <2>1, <2>2, <2>3
<1>4. ASSUME NEW k \in Nat, k \in T
      PROVE  k + 1 \in T
  <2>. SUFFICES ASSUME k + 1 <= n
                PROVE  /\ DOMAIN message[k + 1] \subseteq {1}
                       /\ pb!Get(class, message[k + 1], 1) = Prefix(k + 1)
    OBVIOUS
  <2>1. k + 1 \in 1..n /\ k + 1 \in 1..Len(pairs) /\ k <= n /\ (k + 1) - 1 = k
    BY <1>1, <1>6
  <2>. HIDE DEF message
  <2>2. DOMAIN message[k] \subseteq {1} /\ pb!Get(class, message[k], 1) = Prefix(k)
    BY <1>4, <2>1
  <2>3. message[k + 1] = pb!ReadField(class, message[k], pairs[k + 1])
    BY <1>2, <2>1
  <2>4. Append(Prefix(k), values[k + 1]) = Prefix(k + 1)
    BY <1>1, <2>1
  <2>. HIDE DEF Prefix
  <2>5. message[k + 1] = pb!Put(class, message[k], 1, Prefix(k + 1))
    BY <1>6, <1>7, <2>1, <2>2, <2>3, <2>4 DEF pb!ReadField
  <2>6. ~pb!IsDefault(class.fields[1], Prefix(k + 1))
    BY <1>7 DEF pb!IsDefault
  <2>7. DOMAIN message[k + 1] \subseteq {1} /\ 1 \in DOMAIN message[k + 1]
        /\ message[k + 1][1] = Prefix(k + 1)
    BY <1>7, <2>2, <2>5, <2>6 DEF pb!Put
  <2>. QED  BY <2>7 DEF pb!Get, pb!IsSet
<1>5. n \in T
  <2>. HIDE DEF T
  <2>1. Nat \subseteq T
    BY <1>3, <1>4, Induct
  <2>. QED  BY <1>1, <2>1
<1>. HIDE DEF message, Prefix
<1>. QED
  BY <1>1, <1>5 DEF message

\* A message with one repeated field and nothing else: YourTurn and GameOver.
ListClass(class, name) ==
    /\ DOMAIN class.fields = {1} /\ class.oneof = {}
    /\ class.fields[1].kind = "repeated" /\ class.fields[1].name = name

\* A list comes back as it was written, also when it is empty.
LEMMA ListIsRead ==
    ASSUME NEW class, NEW name, ListClass(class, name), NEW X, NEW values \in Seq(X)
    PROVE  pb!ToObjectLeaf(class, pb!DeserializeLeaf(class, Repeated(1, values)))[name] = values
<1>. DEFINE pairs == Repeated(1, values)
            message == pb!DeserializeLeaf(class, pairs)
<1>1. /\ DOMAIN class.fields = {1} /\ class.fields[1].kind = "repeated"
      /\ class.fields[1].name = name /\ class.oneof = {}
  BY DEF ListClass
<1>2. /\ Len(pairs) = Len(values) /\ Len(values) \in Nat
      /\ \A k \in 1..Len(values) : pairs[k][1] = 1 /\ pairs[k][2] = values[k]
  BY DEF Repeated
<1>. HIDE DEF pairs
<1>3. pb!Get(class, message, 1) = values
  <2>1. RepeatedFirst(class) /\ Lists(pairs, values)
    BY <1>1, <1>2 DEF RepeatedFirst, Lists
  <2>. QED  BY <1>2, <2>1, RepeatedIsRead DEF pb!DeserializeLeaf
<1>. HIDE DEF message
<1>4. ShownFields(class, message) = {1}
  BY <1>1 DEF ShownFields
<1>6. DistinctNames(class)
  BY <1>1 DEF DistinctNames
<1>5. \A i \in ShownFields(class, message) :
            pb!ToObjectLeaf(class, message)[class.fields[i].name] = pb!Get(class, message, i)
  BY <1>6, ObjectOf
<1>. QED
  BY <1>1, <1>3, <1>4, <1>5 DEF message, pairs

\* The class of the state of a game for a player.
LEMMA GameTable ==
    /\ DOMAIN pb!Game.fields = 1..5
    /\ pb!Game.fields[1].kind = "repeated" /\ pb!Game.fields[1].name = "playerIdsList"
    /\ pb!Game.fields[2].kind = "message" /\ pb!Game.fields[2].name = "unstarted"
    /\ pb!Game.fields[3].kind = "message" /\ pb!Game.fields[3].name = "yourTurn"
    /\ pb!Game.fields[4].kind = "message" /\ pb!Game.fields[4].name = "notYourTurn"
    /\ pb!Game.fields[5].kind = "message" /\ pb!Game.fields[5].name = "gameOver"
    /\ pb!Game.fields[3].class = pb!YourTurn /\ pb!Game.fields[5].class = pb!GameOver
    /\ pb!Game.oneof = 2..5
BY DEF pb!Game, pb!OneofClass, pb!RepeatedField, pb!MessageField

LEMMA GameNames ==
    /\ DistinctNames(pb!Game)
    /\ \A i \in 2..5 : pb!Game.fields[i].kind = "message"
<1>1. 1..5 = {1, 2, 3, 4, 5} /\ 2..5 = {2, 3, 4, 5}
  OBVIOUS
<1>. QED
  BY <1>1, GameTable DEF DistinctNames

LEMMA ConcatOne ==
    ASSUME NEW Y, NEW s \in Seq(Y), NEW y \in Y
    PROVE  /\ Len(s \o <<y>>) = Len(s) + 1
           /\ DOMAIN (s \o <<y>>) = 1..(Len(s) + 1)
           /\ \A k \in 1..Len(s) : (s \o <<y>>)[k] = s[k]
           /\ (s \o <<y>>)[Len(s) + 1] = y
OBVIOUS

\* A Game on the wire: the players, and one of the four states.
GameWire(w, players, j, v) == w = Repeated(1, players) \o <<<<j, v>>>>

\* The game of an answer is read: its players, and one member of oneof state.
LEMMA GameIsRead ==
    ASSUME NEW X, NEW players \in Seq(X), NEW j \in 2..5, NEW v, NEW w,
           GameWire(w, players, j, v)
    PROVE  /\ pb!Get(pb!Game, pb!DeserializeInner(pb!Game, w), 1) = players
           /\ DOMAIN pb!DeserializeInner(pb!Game, w) \ {1} = {j}
           /\ pb!DeserializeInner(pb!Game, w)[j] = pb!DeserializeLeaf(pb!Game.fields[j].class, v)
<1>. DEFINE class == pb!Game
            n == Len(players)
            inside == pb!DeserializeLeaf(class.fields[j].class, v)
            pairs == pb!ReadMessages(class, w, pb!DeserializeLeaf)
            message == pb!Reading(class, pairs)
<1>1. n \in Nat /\ 1..5 = {1, 2, 3, 4, 5} /\ 2..5 = {2, 3, 4, 5} /\ j \in 1..5
  OBVIOUS
<1>2. /\ DOMAIN class.fields = 1..5 /\ class.oneof = 2..5 /\ 1 \notin class.oneof
      /\ class.fields[1].kind = "repeated" /\ class.fields[j].kind = "message"
  BY <1>1, GameTable, GameNames
<1>3. /\ Len(w) = n + 1 /\ DOMAIN w = 1..(n + 1)
      /\ \A k \in 1..n : w[k] = <<1, players[k]>>
      /\ w[n + 1] = <<j, v>>
  <2>. DEFINE s == Repeated(1, players)
              Y == (1..5) \X (X \cup {v})
  <2>1. Len(s) = n /\ \A k \in 1..n : s[k] = <<1, players[k]>>
    BY <1>1 DEF Repeated
  <2>2. s \in Seq(Y)
    <3>1. \A k \in 1..n : <<1, players[k]>> \in Y
      BY <1>1
    <3>2. s = [k \in 1..n |-> <<1, players[k]>>]
      BY <1>1 DEF Repeated
    <3>. HIDE DEF s, Y
    <3>. QED  BY <1>1, <3>1, <3>2
  <2>3. <<j, v>> \in Y
    BY <1>1
  <2>. HIDE DEF s, Y
  <2>4. /\ Len(s \o <<<<j, v>>>>) = Len(s) + 1
        /\ DOMAIN (s \o <<<<j, v>>>>) = 1..(Len(s) + 1)
        /\ \A k \in 1..Len(s) : (s \o <<<<j, v>>>>)[k] = s[k]
        /\ (s \o <<<<j, v>>>>)[Len(s) + 1] = <<j, v>>
    BY <2>2, <2>3, ConcatOne
  <2>. QED  BY <2>1, <2>4 DEF s, GameWire
<1>. HIDE DEF class, inside
<1>4. /\ Len(pairs) = n + 1
      /\ \A k \in 1..n : pairs[k] = <<1, players[k]>>
      /\ pairs[n + 1] = <<j, inside>>
  <2>. DEFINE IsMessage(i) == i \in DOMAIN class.fields /\ class.fields[i].kind = "message"
  <2>1. pairs = [k \in 1..(n + 1) |->
                    IF IsMessage(w[k][1])
                    THEN <<w[k][1], pb!DeserializeLeaf(class.fields[w[k][1]].class, w[k][2])>>
                    ELSE w[k]]
    BY <1>3 DEF pb!ReadMessages
  <2>2. ~IsMessage(1) /\ IsMessage(j)
    BY <1>1, <1>2
  <2>. HIDE DEF IsMessage, pairs
  <2>3. Len(pairs) = n + 1
    BY <1>1, <2>1
  <2>4. ASSUME NEW k \in 1..n PROVE pairs[k] = <<1, players[k]>>
    <3>1. w[k] = <<1, players[k]>> /\ w[k][1] = 1 /\ k \in 1..(n + 1)
      BY <1>1, <1>3
    <3>. QED  BY <2>1, <2>2, <3>1
  <2>5. pairs[n + 1] = <<j, inside>>
    <3>1. <<j, v>>[1] = j /\ <<j, v>>[2] = v /\ n + 1 \in 1..(n + 1)
      BY <1>1
    <3>. QED  BY <1>3, <2>1, <2>2, <3>1 DEF inside
  <2>. QED  BY <2>3, <2>4, <2>5
<1>5. pb!DeserializeInner(class, w) = message[n + 1]
  BY <1>4 DEF pb!DeserializeInner, pb!DeserializeLeaf
<1>. HIDE DEF pairs
<1>6. DOMAIN message[n] \subseteq {1} /\ pb!Get(class, message[n], 1) = players
  <2>1. RepeatedFirst(class)
    BY <1>1, <1>2 DEF RepeatedFirst
  <2>2. Lists(pairs, players)
    <3>1. \A k \in 1..n : pairs[k][1] = 1 /\ pairs[k][2] = players[k]
      BY <1>4
    <3>. QED  BY <1>1, <1>4, <3>1 DEF Lists
  <2>. QED  BY <2>1, <2>2, RepeatedIsRead
<1>7. message[n + 1] = pb!ReadField(class, message[n], pairs[n + 1])
  <2>1. n + 1 \in 1..Len(pairs) /\ (n + 1) - 1 = n /\ Len(pairs) \in Nat
    BY <1>1, <1>4
  <2>. QED  BY <2>1, ReadingLoop
<1>. HIDE DEF message
<1>8. message[n + 1] = pb!Put(class, message[n], j, inside)
  BY <1>1, <1>2, <1>4, <1>7 DEF pb!ReadField
<1>9. ~pb!IsDefault(class.fields[j], inside)
  BY <1>2 DEF pb!IsDefault
<1>10. message[n + 1] = [i \in (DOMAIN message[n] \ (2..5)) \cup {j} |->
                            IF i = j THEN inside ELSE message[n][i]]
  BY <1>2, <1>8, <1>9 DEF pb!Put
<1>11. /\ DOMAIN message[n + 1] \ {1} = {j} /\ message[n + 1][j] = inside
       /\ 1 \in DOMAIN message[n + 1] <=> 1 \in DOMAIN message[n]
       /\ 1 \in DOMAIN message[n] => message[n + 1][1] = message[n][1]
  BY <1>1, <1>6, <1>10
<1>12. pb!Get(class, message[n + 1], 1) = players
  BY <1>2, <1>6, <1>11 DEF pb!Get, pb!IsSet
<1>. QED
  BY <1>5, <1>11, <1>12 DEF class, inside

\* The client's object for a game: its players, and field j with what was in it.
IsGameObject(object, players, j, v) ==
    /\ DOMAIN object = {"playerIdsList", pb!Game.fields[j].name}
    /\ object["playerIdsList"] = players
    /\ object[pb!Game.fields[j].name]
          = pb!ToObjectLeaf(pb!Game.fields[j].class,
                            pb!DeserializeLeaf(pb!Game.fields[j].class, v))

LEMMA GameObject ==
    ASSUME NEW X, NEW players \in Seq(X), NEW j \in 2..5, NEW v, NEW w,
           GameWire(w, players, j, v)
    PROVE  IsGameObject(pb!ToObjectInner(pb!Game, pb!DeserializeInner(pb!Game, w)), players, j, v)
<1>. DEFINE class == pb!Game
            message == pb!DeserializeInner(class, w)
            inner == pb!Inside(class, message, pb!ToObjectLeaf)
            object == pb!ToObjectInner(class, message)
            within == pb!DeserializeLeaf(class.fields[j].class, v)
<1>1. /\ pb!Get(class, message, 1) = players
      /\ DOMAIN message \ {1} = {j} /\ message[j] = within
  BY GameIsRead
<1>2. 2..5 = {2, 3, 4, 5} /\ 1..5 = {1, 2, 3, 4, 5} /\ 1 # j
  OBVIOUS
<1>3. /\ DOMAIN class.fields = 1..5
      /\ class.fields[1].kind = "repeated" /\ class.fields[1].name = "playerIdsList"
      /\ \A i \in 2..5 : class.fields[i].kind = "message"
      /\ DistinctNames(class)
  BY GameTable, GameNames
<1>4. object = pb!ToObjectLeaf(class, inner)
  BY DEF pb!ToObjectInner
<1>. HIDE DEF class, message, within, object
<1>5. /\ DOMAIN inner = DOMAIN message
      /\ 1 \in DOMAIN message => inner[1] = message[1]
      /\ inner[j] = pb!ToObjectLeaf(class.fields[j].class, within)
  BY <1>1, <1>3 DEF pb!Inside
<1>. HIDE DEF inner
<1>6. pb!Get(class, inner, 1) = players
  BY <1>1, <1>3, <1>5 DEF pb!Get, pb!IsSet
<1>7. pb!Get(class, inner, j) = pb!ToObjectLeaf(class.fields[j].class, within)
  BY <1>1, <1>5 DEF pb!Get, pb!IsSet
<1>8. ShownFields(class, inner) = {1, j}
  BY <1>1, <1>2, <1>3, <1>5 DEF ShownFields
<1>9. /\ DOMAIN object = {class.fields[i].name : i \in ShownFields(class, inner)}
      /\ \A i \in ShownFields(class, inner) :
            object[class.fields[i].name] = pb!Get(class, inner, i)
  <2>1. DistinctNames(class)
    BY <1>3
  <2>2. /\ DOMAIN pb!ToObjectLeaf(class, inner)
            = {class.fields[i].name : i \in ShownFields(class, inner)}
        /\ \A i \in ShownFields(class, inner) :
              pb!ToObjectLeaf(class, inner)[class.fields[i].name] = pb!Get(class, inner, i)
    BY <2>1, ObjectOf
  <2>. QED  BY <1>4, <2>2
<1>10. DOMAIN object = {class.fields[1].name, class.fields[j].name}
  BY <1>8, <1>9
<1>. QED
  BY <1>3, <1>6, <1>7, <1>8, <1>9, <1>10 DEF class, within, object, message, IsGameObject

\* What GetGame may answer.
ViewOK(view) ==
    \/ view = NoView
    \/ \E players \in Seq(PlayerIds), shown \in Seq(Sentences),
          turn \in {"Unstarted", "NotYourTurn", "YourTurn", "GameOver"} :
          /\ view = View(players, turn, shown)
          /\ turn \in {"Unstarted", "NotYourTurn"} => shown = <<>>

\* The page that a view is to be shown as: PageShowsTheView.
PageFor(view) ==
    CASE view.error # None -> Shown("Error", <<>>)
      [] view.error = None /\ view.state = "Unstarted" -> Shown("Unstarted", view.players)
      [] OTHER -> Shown(view.state, view.shown)

\* The page of an answer with a view is the page of that view.
LEMMA PageIsTheView ==
    ASSUME NEW view, ViewOK(view), NEW w \in Newer(EncodedView(view)), NEW object,
           object = pb!ToObject(pb!PictophoneClient["GetGame"].response,
                                pb!DeserializeBinary(pb!PictophoneClient["GetGame"].response, w))
    PROVE  PageOf(object) = PageFor(view)
<1>. DEFINE class == pb!PictophoneClient["GetGame"].response
<1>1. /\ AnswerClass(class)
      /\ DOMAIN class.fields = 1..3
      /\ class.fields[2].name = "playerNotInGameError" /\ class.fields[3].name = "game"
      /\ class.fields[3].class = pb!Game
      /\ DOMAIN ErrorFields["GetGame"] = 1..2
      /\ ErrorFields["GetGame"][1] = "Unknown" /\ ErrorFields["GetGame"][2] = "PlayerNotInGame"
  BY GetGameErrors
<1>2. object = pb!ToObject(class, pb!DeserializeBinary(class, w))
  OBVIOUS
<1>3. 2 \in DOMAIN class.fields /\ 3 \in DOMAIN class.fields
  BY <1>1
<1>. HIDE DEF class
<1>4. CASE view = NoView
  <2>1. view.error = "PlayerNotInGame" /\ "PlayerNotInGame" # None
    BY <1>4, NoneAssumption DEF NoView, Errors
  <2>2. EncodedError("GetGame", "PlayerNotInGame") = <<<<2, <<>>>>>>
    <3>1. \A j \in 1..2 : ErrorFields["GetGame"][j] = ErrorFields["GetGame"][2] => j = 2
      BY <1>1
    <3>. QED  BY <1>1, <2>1, <3>1, ErrorOnTheWire
  <2>3. w \in Newer(<<<<2, <<>>>>>>)
    BY <2>1, <2>2 DEF EncodedView
  <2>4. DOMAIN pb!ToObject(class, pb!DeserializeBinary(class, w)) = {class.fields[2].name}
    <3>1. AnswerClass(class)
      BY <1>1
    <3>. DEFINE value == pb!ToObjectInner(class.fields[2].class,
                                          pb!DeserializeInner(class.fields[2].class, <<>>))
    <3>2. HoldsOnly(pb!ToObject(class, pb!DeserializeBinary(class, w)), class.fields[2].name, value)
      BY <1>3, <2>3, <3>1, NamedObject
    <3>. QED  BY <3>2 DEF HoldsOnly
  <2>5. DOMAIN object = {"playerNotInGameError"}
    BY <1>1, <1>2, <2>4
  <2>. QED  BY <2>1, <2>5 DEF PageOf, PageFor, Has
<1>5. ASSUME NEW players \in Seq(PlayerIds), NEW shown \in Seq(Sentences), NEW turn,
             view = View(players, turn, shown), NEW j \in 2..5, NEW v,
             EncodedState(view) = <<<<j, v>>>>
      PROVE  /\ Has(object, "game")
             /\ IsGameObject(object.game, players, j, v)
  <2>. DEFINE game == Repeated(1, players) \o <<<<j, v>>>>
  <2>1. view.error = None /\ view.players = players
    BY <1>5 DEF View
  <2>2. EncodedView(view) = <<<<3, game>>>>
    BY <1>5, <2>1 DEF EncodedView
  <2>. HIDE DEF game
  <2>3. w \in Newer(<<<<3, game>>>>)
    BY <2>2
  <2>4. AnswerClass(class)
    BY <1>1
  <2>5. HoldsOnly(object, class.fields[3].name,
                  pb!ToObjectInner(class.fields[3].class,
                                   pb!DeserializeInner(class.fields[3].class, game)))
    BY <1>2, <1>3, <2>3, <2>4, NamedObject
  <2>8. DOMAIN object = {"game"}
    BY <1>1, <2>5 DEF HoldsOnly
  <2>9. object["game"] = pb!ToObjectInner(pb!Game, pb!DeserializeInner(pb!Game, game))
    BY <1>1, <2>5 DEF HoldsOnly
  <2>10. GameWire(game, players, j, v)
    BY DEF GameWire, game
  <2>11. IsGameObject(object["game"], players, j, v)
    BY <2>9, <2>10, GameObject
  <2>. QED  BY <2>8, <2>11 DEF Has
<1>6. ASSUME NEW players \in Seq(PlayerIds), NEW shown \in Seq(Sentences), NEW turn,
             view = View(players, turn, shown),
             turn \in {"Unstarted", "NotYourTurn", "YourTurn", "GameOver"},
             turn \in {"Unstarted", "NotYourTurn"} => shown = <<>>
      PROVE  PageOf(object) = PageFor(view)
  <2>1. /\ view.error = None /\ view.players = players
        /\ view.state = turn /\ view.shown = shown
    BY <1>6 DEF View
  <2>2. /\ pb!Game.fields[2].name = "unstarted" /\ pb!Game.fields[3].name = "yourTurn"
        /\ pb!Game.fields[4].name = "notYourTurn" /\ pb!Game.fields[5].name = "gameOver"
        /\ pb!Game.fields[3].class = pb!YourTurn /\ pb!Game.fields[5].class = pb!GameOver
    BY GameTable
  <2>3. ListClass(pb!YourTurn, "contextList") /\ ListClass(pb!GameOver, "sentencesList")
    BY DEF pb!YourTurn, pb!GameOver, pb!Class, pb!RepeatedField, ListClass
  <2>4. 2 \in 2..5 /\ 3 \in 2..5 /\ 4 \in 2..5 /\ 5 \in 2..5
    OBVIOUS
  <2>5. CASE turn = "Unstarted"
    <3>1. EncodedState(view) = <<<<2, <<>>>>>>
      BY <2>1, <2>5 DEF EncodedState
    <3>2. Has(object, "game") /\ IsGameObject(object.game, players, 2, <<>>)
      BY <1>5, <1>6, <2>4, <3>1
    <3>3. /\ DOMAIN object.game = {"playerIdsList", "unstarted"}
          /\ object.game["playerIdsList"] = players
      BY <2>2, <3>2 DEF IsGameObject
    <3>. QED  BY <2>1, <2>5, <3>2, <3>3 DEF PageOf, PageFor, Has
  <2>6. CASE turn = "NotYourTurn"
    <3>1. EncodedState(view) = <<<<4, <<>>>>>>
      BY <2>1, <2>6 DEF EncodedState
    <3>2. Has(object, "game") /\ IsGameObject(object.game, players, 4, <<>>)
      BY <1>5, <1>6, <2>4, <3>1
    <3>3. DOMAIN object.game = {"playerIdsList", "notYourTurn"}
      BY <2>2, <3>2 DEF IsGameObject
    <3>. QED  BY <1>6, <2>1, <2>6, <3>2, <3>3 DEF PageOf, PageFor, Has
  <2>7. CASE turn = "YourTurn"
    <3>1. EncodedState(view) = <<<<3, Repeated(1, shown)>>>>
      BY <2>1, <2>7 DEF EncodedState
    <3>2. Has(object, "game") /\ IsGameObject(object.game, players, 3, Repeated(1, shown))
      BY <1>5, <1>6, <2>4, <3>1
    <3>. DEFINE inner == pb!ToObjectLeaf(pb!YourTurn,
                                         pb!DeserializeLeaf(pb!YourTurn, Repeated(1, shown)))
    <3>3. inner["contextList"] = shown
      BY <2>3, ListIsRead
    <3>. HIDE DEF inner
    <3>4. DOMAIN object.game = {"playerIdsList", "yourTurn"} /\ object.game["yourTurn"] = inner
      BY <2>2, <3>2 DEF IsGameObject, inner
    <3>. QED  BY <2>1, <2>7, <3>2, <3>3, <3>4 DEF PageOf, PageFor, Has
  <2>8. CASE turn = "GameOver"
    <3>1. EncodedState(view) = <<<<5, Repeated(1, shown)>>>>
      BY <2>1, <2>8 DEF EncodedState
    <3>2. Has(object, "game") /\ IsGameObject(object.game, players, 5, Repeated(1, shown))
      BY <1>5, <1>6, <2>4, <3>1
    <3>. DEFINE inner == pb!ToObjectLeaf(pb!GameOver,
                                         pb!DeserializeLeaf(pb!GameOver, Repeated(1, shown)))
    <3>3. inner["sentencesList"] = shown
      BY <2>3, ListIsRead
    <3>. HIDE DEF inner
    <3>4. DOMAIN object.game = {"playerIdsList", "gameOver"} /\ object.game["gameOver"] = inner
      BY <2>2, <3>2 DEF IsGameObject, inner
    <3>. QED  BY <2>1, <2>8, <3>2, <3>3, <3>4 DEF PageOf, PageFor, Has
  <2>. QED  BY <1>6, <2>5, <2>6, <2>7, <2>8
<1>. QED
  BY <1>4, <1>6 DEF ViewOK

\* What get_game answers is something that GetGame's answer can carry.
LEMMA ViewType ==
    ASSUME NEW st \in OptionState, NEW g \in GameIds, NEW p \in PlayerIds
    PROVE  ViewOK(GetGame(st, g, p))
<1>. DEFINE game == GameOf(UnwrapOrDefault(st), g)
            view == GetGame(st, g, p)
<1>1. game \in Game
  BY UnwrapType, GameOfType
<1>2. /\ ~IsIn(p, game.players) => view = NoView
      /\ IsIn(p, game.players) /\ game.status = "Unstarted" =>
            view = View(game.players, "Unstarted", <<>>)
      /\ IsIn(p, game.players) /\ game.status = "Started" /\ IsOver(game) =>
            view = View(game.players, "GameOver", game.sentences)
      /\ /\ IsIn(p, game.players) /\ game.status = "Started"
         /\ ~IsOver(game) /\ ActivePlayer(game) # p
         => view = View(game.players, "NotYourTurn", <<>>)
      /\ IsIn(p, game.players) /\ MayMove(game, p) =>
            view = View(game.players, "YourTurn", Window(game))
      /\ game.status \in {"Unstarted", "Started"}
  BY GetGameCases
<1>. HIDE DEF game, view
<1>3. game.players \in Seq(PlayerIds) /\ <<>> \in Seq(Sentences)
  BY <1>1 DEF Game, UnstartedGame, StartedGame
<1>4. game.status = "Started" => game.sentences \in Seq(Sentences) /\ Window(game) \in Seq(Sentences)
  <2>. SUFFICES ASSUME game.status = "Started"
                PROVE  game.sentences \in Seq(Sentences) /\ Window(game) \in Seq(Sentences)
    OBVIOUS
  <2>1. game.sentences \in Seq(Sentences) /\ game.window_size \in Nat
    BY <1>1 DEF Game, UnstartedGame, StartedGame
  <2>. DEFINE n == Len(game.sentences)
              start == IF n > game.window_size THEN n - game.window_size ELSE 0
  <2>2. n \in Nat /\ start \in Nat
    BY <2>1, LenProperties
  <2>3. Window(game) = SubSeq(game.sentences, start + 1, n)
    BY DEF Window
  <2>. HIDE DEF start
  <2>4. \A i \in (start + 1)..n : game.sentences[i] \in Sentences
    <3>. TAKE i \in (start + 1)..n
    <3>1. i \in 1..n
      BY <2>2
    <3>. QED  BY <2>1, <3>1, ElementOfSeq
  <2>. HIDE DEF n
  <2>5. SubSeq(game.sentences, start + 1, n) \in Seq(Sentences)
    BY <2>1, <2>2, <2>4, SubSeqProperties
  <2>. QED  BY <2>1, <2>3, <2>5
<1>. QED
  BY <1>2, <1>3, <1>4 DEF ViewOK, MayMove, view

-----------------------------------------------------------------------------
(* One call after another.                                                 *)

\* The inductive invariant: what is on the wire, at each end of a call.
Wished(r) == \E p \in PlayerIds, g \in GameIds : r \in Wishes(p, g)

Sent == wire = pb!SerializeBinary(pb!PictophoneClient[asked.method].request, Built(asked))

Answered ==
    IF asked.method = "GetGame"
    THEN meant = GetGame(state, asked.game_id, asked.player_id)
    ELSE ErrorOf(asked.method, meant)

Returned ==
    wire \in Newer(IF asked.method = "GetGame" THEN EncodedView(meant)
                   ELSE EncodedError(asked.method, meant))

CallOK ==
    /\ pc \in {"idle", "sent", "served", "received"}
    /\ pc # "idle" => Wished(asked)
    /\ pc = "sent" => Sent
    /\ pc \in {"served", "received"} => arrived = asked /\ Answered
    /\ pc = "served" => Returned
    /\ AnswerArrives
    /\ PageShowsTheView

\* A wish of the page is a query, or an action of the service: this is where the
\* parameters of the page matter.
LEMMA WishType ==
    ASSUME NEW r, Wished(r)
    PROVE  /\ r.game_id \in GameIds /\ r.player_id \in PlayerIds
           /\ r.method # "GetGame" => r.method \in Methods /\ r \in ActionRequest
BY PageParametersAssumption DEF Wished, Wishes, Methods, ActionRequest, CreateGameRequest,
   JoinGameRequest, StartGameRequest, MakeMoveRequest

\* The server reads the wish that is under way.
LEMMA WishIsRead ==
    ASSUME Wished(asked), Sent
    PROVE  Decoded(asked.method, wire) = asked
BY RequestIsRead DEF Wished, Sent

\* A call is a step of the service, or none.
LEMMA CallIsStep ==
    ASSUME CallOK, [RpcNext]_rpcVars
    PROVE  [Next]_vars
<1>1. CASE HandleRequest
  <2>1. arrived' = asked
    BY <1>1, WishIsRead DEF HandleRequest, CallOK
  <2>2. asked \in ActionRequest
    BY <1>1, WishType DEF HandleRequest, CallOK
  <2>3. Handle(asked)
    BY <1>1, <2>1 DEF HandleRequest
  <2>. QED  BY <2>2, <2>3 DEF ActionRequest, Next
<1>2. CASE (\E p \in PlayerIds : Ask(p)) \/ HandleGetGame \/ Receive \/ Done \/ UNCHANGED rpcVars
  BY <1>2 DEF Ask, HandleGetGame, Receive, Done, rpcVars, vars
<1>. QED  BY <1>1, <1>2 DEF RpcNext

\* Every step of a call keeps the invariant.
LEMMA CallStep ==
    ASSUME TypeOK, CallOK, [RpcNext]_rpcVars
    PROVE  CallOK'
<1>1. ASSUME NEW p \in PlayerIds, Ask(p)
      PROVE  CallOK'
  <2>1. pc' = "sent" /\ Wished(asked') /\ Sent'
    BY <1>1 DEF Ask, Wished, Sent
  <2>. QED  BY <2>1 DEF CallOK, AnswerArrives, PageShowsTheView
<1>2. CASE HandleRequest
  <2>1. /\ pc = "sent" /\ asked.method # "GetGame" /\ asked' = asked /\ pc' = "served"
        /\ arrived' = Decoded(asked.method, wire)
        /\ meant' = HandleAction(state, arrived').error
        /\ wire' \in Newer(EncodedError(asked.method, meant'))
    BY <1>2 DEF HandleRequest
  <2>2. Wished(asked) /\ arrived' = asked
    BY <2>1, WishIsRead DEF CallOK
  <2>3. Answered'
    BY <2>1, <2>2, WishType, ErrorOfMethod DEF Answered
  <2>4. Returned'
    BY <2>1 DEF Returned
  <2>. QED  BY <2>1, <2>2, <2>3, <2>4 DEF CallOK, AnswerArrives, PageShowsTheView
<1>3. CASE HandleGetGame
  <2>1. /\ pc = "sent" /\ asked.method = "GetGame" /\ asked' = asked /\ pc' = "served"
        /\ arrived' = Decoded(asked.method, wire)
        /\ meant' = GetGame(state, arrived'.game_id, arrived'.player_id)
        /\ wire' \in Newer(EncodedView(meant')) /\ state' = state
    BY <1>3 DEF HandleGetGame, vars
  <2>2. Wished(asked) /\ arrived' = asked
    BY <2>1, WishIsRead DEF CallOK
  <2>3. Answered' /\ Returned'
    BY <2>1, <2>2 DEF Answered, Returned
  <2>. QED  BY <2>1, <2>2, <2>3 DEF CallOK, AnswerArrives, PageShowsTheView
<1>4. CASE Receive
  <2>. DEFINE class == pb!PictophoneClient[asked.method].response
              object == pb!ToObject(class, pb!DeserializeBinary(class, wire))
  <2>1. /\ pc = "served" /\ received' = object /\ pc' = "received"
        /\ UNCHANGED <<state, wire, asked, arrived, meant>>
    BY <1>4 DEF Receive, vars
  <2>2. Wished(asked) /\ arrived = asked /\ Answered /\ Returned
    BY <2>1 DEF CallOK
  <2>3. Wished(asked') /\ arrived' = asked' /\ Answered'
    BY <2>1, <2>2 DEF Answered
  <2>4. AnswerArrives'
    <3>1. CASE asked.method # "GetGame"
      <4>1. /\ asked.method \in Methods /\ ErrorOf(asked.method, meant)
            /\ wire \in Newer(EncodedError(asked.method, meant))
        BY <2>2, <3>1, WishType DEF Answered, Returned
      <4>2. DOMAIN object = IF meant = None THEN {} ELSE {ErrorName[meant]}
        BY <4>1, AnswerObjectOf
      <4>. QED  BY <2>1, <4>2 DEF AnswerArrives
    <3>2. CASE asked.method = "GetGame"
      BY <2>1, <3>2 DEF AnswerArrives
    <3>. QED  BY <3>1, <3>2
  <2>5. PageShowsTheView'
    <3>1. CASE asked.method = "GetGame"
      <4>1. asked.game_id \in GameIds /\ asked.player_id \in PlayerIds
        BY <2>2, WishType
      <4>2. meant = GetGame(state, asked.game_id, asked.player_id)
        BY <2>2, <3>1 DEF Answered
      <4>3. ViewOK(meant)
        BY <4>1, <4>2, ViewType DEF TypeOK
      <4>4. wire \in Newer(EncodedView(meant))
        BY <2>2, <3>1 DEF Returned
      <4>5. object = pb!ToObject(pb!PictophoneClient["GetGame"].response,
                                 pb!DeserializeBinary(pb!PictophoneClient["GetGame"].response, wire))
        BY <3>1
      <4>. HIDE DEF object
      <4>6. PageOf(object) = PageFor(meant)
        BY <4>3, <4>4, <4>5, PageIsTheView
      <4>. QED  BY <2>1, <4>6 DEF PageShowsTheView, PageFor
    <3>2. CASE asked.method # "GetGame"
      BY <2>1, <3>2 DEF PageShowsTheView
    <3>. QED  BY <3>1, <3>2
  <2>. QED  BY <2>1, <2>3, <2>4, <2>5 DEF CallOK
<1>5. CASE Done
  BY <1>5 DEF Done, CallOK, AnswerArrives, PageShowsTheView
<1>6. CASE UNCHANGED rpcVars
  BY <1>6 DEF rpcVars, vars, CallOK, Sent, Answered, Returned, AnswerArrives, PageShowsTheView
<1>. QED
  BY <1>1, <1>2, <1>3, <1>4, <1>5, <1>6 DEF RpcNext

\* The calls of the client, encoded, read, answered and shown, do to the games what
\* the service promises and nothing else: Rpc implements GameService.
THEOREM CallsImplementService == RpcSpec => Spec
<1>1. RpcInit => Init /\ CallOK
  BY DEF RpcInit, CallOK, AnswerArrives, PageShowsTheView
<1>2. TypeOK /\ CallOK /\ [RpcNext]_rpcVars => CallOK'
  BY CallStep
<1>3. CallOK /\ [RpcNext]_rpcVars => [Next]_vars
  BY CallIsStep
<1>4. Init => TypeOK
  BY DEF Init, TypeOK, OptionState
<1>5. TypeOK /\ [Next]_vars => TypeOK'
  BY TypeStep
<1>. QED
  BY <1>1, <1>2, <1>3, <1>4, <1>5, PTL DEF RpcSpec, Spec

\* The inductive invariant of the calls.
THEOREM CallsCorrect == RpcSpec => []CallOK
<1>1. RpcInit => CallOK
  BY DEF RpcInit, CallOK, AnswerArrives, PageShowsTheView
<1>2. TypeOK /\ CallOK /\ [RpcNext]_rpcVars => CallOK'
  BY CallStep
<1>. QED
  BY <1>1, <1>2, CallsImplementService, TypeCorrect, PTL DEF RpcSpec

\* The server reads the request that the user made, whatever the ids and the sentence.
THEOREM RequestsArrive == RpcSpec => []RequestArrives
<1>1. CallOK => RequestArrives
  BY DEF CallOK, RequestArrives
<1>. QED
  BY <1>1, CallsCorrect, PTL

\* The client finds the error of the logic in the answer, or none, also in the answer of
\* a newer server.
THEOREM AnswersArrive == RpcSpec => []AnswerArrives
<1>1. CallOK => AnswerArrives
  BY DEF CallOK
<1>. QED
  BY <1>1, CallsCorrect, PTL

\* The page of a game is the one for the view that get_game computed, however long the
\* roster and the story.
THEOREM PagesShowTheView == RpcSpec => []PageShowsTheView
<1>1. CallOK => PageShowsTheView
  BY DEF CallOK
<1>. QED
  BY <1>1, CallsCorrect, PTL

\* What the user reads and what the rules do, from end to end: the page that she is
\* shown tells her to write exactly when any sentence of hers would be accepted.
PageTellsTheTurn ==
    pc = "received" /\ asked.method = "GetGame" =>
        (PageOf(received).kind = "YourTurn"
           <=> \A s \in Sentences :
                  HandleAction(state, [method |-> "MakeMove", game_id |-> asked.game_id,
                                       player_id |-> asked.player_id, sentence |-> s]).error = None)

\* It follows from what the wire keeps (CallOK) and from what the rules say (ViewsAgree).
LEMMA TurnsTold ==
    ASSUME TypeOK, RosterOK, CallOK
    PROVE  PageTellsTheTurn
<1>. SUFFICES ASSUME pc = "received", asked.method = "GetGame"
              PROVE  PageOf(received).kind = "YourTurn"
                       <=> \A s \in Sentences :
                             HandleAction(state, [method |-> "MakeMove", game_id |-> asked.game_id,
                                                  player_id |-> asked.player_id,
                                                  sentence |-> s]).error = None
  BY DEF PageTellsTheTurn
<1>1. asked.game_id \in GameIds /\ asked.player_id \in PlayerIds
  BY WishType DEF CallOK
<1>2. meant = GetGame(state, asked.game_id, asked.player_id)
  BY DEF CallOK, Answered
<1>3. PageOf(received) = PageFor(meant)
  BY DEF CallOK, PageShowsTheView, PageFor
<1>4. ViewOK(meant)
  BY <1>1, <1>2, ViewType DEF TypeOK
<1>5. PageFor(meant).kind = "YourTurn" <=> meant.state = "YourTurn"
  BY <1>4, NoneAssumption DEF ViewOK, PageFor, View, NoView, Shown, Errors
<1>6. (\A s \in Sentences :
          HandleAction(state, [method |-> "MakeMove", game_id |-> asked.game_id,
                               player_id |-> asked.player_id, sentence |-> s]).error = None)
        <=> GetGame(state, asked.game_id, asked.player_id).state = "YourTurn"
  BY <1>1, ViewsAgree DEF ViewAgreesWithMoves
<1>. QED
  BY <1>2, <1>3, <1>5, <1>6

\* A page that says `your turn' says it exactly to the player whose move is accepted.
THEOREM PagesTellTheTurn == RpcSpec => []PageTellsTheTurn
<1>1. TypeOK /\ RosterOK /\ CallOK => PageTellsTheTurn
  BY TurnsTold
<1>. QED
  BY <1>1, CallsImplementService, CallsCorrect, TypeCorrect, RosterCorrect, PTL
=============================================================================
