----------------------------- MODULE GameService -----------------------------
(***************************************************************************)
(* What pictophone promises its clients: one game state, to which the      *)
(* actions of all the clients are applied one at a time, each with the     *)
(* answer the rules of GameLogic give.  The server (Server.tla) implements *)
(* this with a shared log and a replay of it per call.                     *)
(*                                                                         *)
(* `moves' is a history variable: the moves that were answered without an  *)
(* error, per game, in the order they were made.  It is not in the code,   *)
(* and the properties compare the state with it.                           *)
(***************************************************************************)
EXTENDS GameLogic

VARIABLES
    state,      \* Option<State>, as fold_state threads it
    moves       \* history: [GameIds -> sequence of [player, sentence]]

vars == <<state, moves>>

Move == [player : PlayerIds, sentence : Sentences]

Init == /\ state = None
        /\ moves = [g \in GameIds |-> <<>>]

\* One action of the log: any request of any client, in any state.
Handle(request) ==
    LET result == HandleAction(state, request)
    IN  /\ state' = NextState(state, request)
        /\ moves' = IF request.method = "MakeMove" /\ result.error = None
                    THEN [moves EXCEPT ![request.game_id] =
                             Append(@, [player |-> request.player_id,
                                        sentence |-> request.sentence])]
                    ELSE moves

Next == \/ \E request \in CreateGameRequest : Handle(request)
        \/ \E request \in JoinGameRequest : Handle(request)
        \/ \E request \in StartGameRequest : Handle(request)
        \/ \E request \in MakeMoveRequest : Handle(request)

Spec == Init /\ [][Next]_vars

-----------------------------------------------------------------------------
Games == UnwrapOrDefault(state)

Existing == {g \in GameIds : Games[g] # None}

Started == {g \in Existing : Games[g].status = "Started"}

TypeOK == /\ state \in OptionState
          /\ moves \in [GameIds -> Seq(Move)]

\* No player appears twice in a game, and a started game has a player: the
\* `% players.len()' and the `unwrap' of make_move and get_game cannot trap
\* (main.rs:71-74, 204-207), whichever order actions arrive in.
RosterOK ==
    /\ \A g \in Existing : \A i, j \in 1..Len(Games[g].players) :
            Games[g].players[i] = Games[g].players[j] => i = j
    /\ \A g \in Started : Games[g].players # <<>>

\* The story of a game is exactly the sentences whose MakeMove was answered
\* without an error, in that order, and players wrote it in strict rotation:
\* no accepted move is lost, doubled or attributed to another turn.
StoryIsAcceptedMoves ==
    \A g \in GameIds :
        IF g \in Started
        THEN /\ Len(Games[g].sentences) = Len(moves[g])
             /\ Len(moves[g]) <= Games[g].length
             /\ \A i \in 1..Len(moves[g]) :
                    /\ Games[g].sentences[i] = moves[g][i].sentence
                    /\ moves[g][i].player =
                         Games[g].players[((i - 1) % Len(Games[g].players)) + 1]
        ELSE moves[g] = <<>>

\* What get_game shows and what make_move accepts agree, though each computes
\* the turn for itself: a player is told YourTurn exactly when a move of hers
\* would be accepted; one player of an unfinished game is told so, and nobody
\* sees the whole story before nobody can move any more.
ViewAgreesWithMoves ==
    \A g \in GameIds :
        LET CanMove(p) == \A s \in Sentences :
                HandleAction(state, [method |-> "MakeMove", game_id |-> g,
                                     player_id |-> p, sentence |-> s]).error = None
            Sees(p) == GetGame(state, g, p).state
        IN  /\ \A p \in PlayerIds : CanMove(p) <=> Sees(p) = "YourTurn"
            /\ g \in Started =>
                 \/ \A p \in PlayerIds : Sees(p) \in {"GameOver", "None"}
                 \/ /\ \A p \in PlayerIds : Sees(p) # "GameOver"
                    /\ \E p \in PlayerIds : /\ Sees(p) = "YourTurn"
                                            /\ \A q \in PlayerIds \ {p} : Sees(q) # "YourTurn"

\* The point of the game: until it is over a player sees at most the last
\* window_size sentences, and of those only on her own turn.
StoryHiddenUntilOver ==
    \A g \in Started : \A p \in PlayerIds :
        LET view == GetGame(state, g, p)
            n == Len(Games[g].sentences)
            k == Len(view.shown)
        IN  view.state # "GameOver" =>
                /\ k <= Games[g].window_size
                /\ k > 0 => p = ActivePlayer(Games[g])
                /\ \A i \in 1..k : view.shown[i] = Games[g].sentences[n - k + i]

\* A client that lost the answer of its MakeMove and repeats the request does
\* not move twice: with two players or more the repetition is refused.
RepeatedMoveRefused ==
    \A g \in Started :
        LET last == moves[g][Len(moves[g])]
        IN  Len(moves[g]) > 0 /\ Len(Games[g].players) > 1 =>
                HandleAction(state, [method |-> "MakeMove", game_id |-> g,
                                     player_id |-> last.player,
                                     sentence |-> last.sentence]).error # None

\* A game never disappears or starts again, its roster only grows until it
\* starts and is then fixed with its window and length, and its story is only
\* ever extended at the end.
GamesOnlyGrow ==
    LET IsPrefixOf(s, t) == Len(s) <= Len(t) /\ \A i \in 1..Len(s) : s[i] = t[i]
        old == Games
        new == Games'
    IN  /\ Existing \subseteq Existing'
        /\ \A g \in Existing :
             IF old[g].status = "Started"
             THEN /\ new[g].status = "Started"
                  /\ new[g].players = old[g].players
                  /\ new[g].window_size = old[g].window_size
                  /\ new[g].length = old[g].length
                  /\ IsPrefixOf(old[g].sentences, new[g].sentences)
             ELSE IsPrefixOf(old[g].players, new[g].players)

StepsOnlyGrow == [][GamesOnlyGrow]_vars
=============================================================================
