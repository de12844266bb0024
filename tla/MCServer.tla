------------------------------- MODULE MCServer -------------------------------
(* Instance of Server for TLC: one game and one player, and one call of each *)
(* action method, in all orders; every method depends on another before it.  *)
EXTENDS Server

CONSTANTS createCall, joinCall, startCall, moveCall, g, p, s

MCRequestOf ==
    [c \in Actions |->
        CASE c = createCall -> [method |-> "CreateGame", game_id |-> g, player_id |-> p]
          [] c = joinCall -> [method |-> "JoinGame", game_id |-> g, player_id |-> p]
          [] c = startCall -> [method |-> "StartGame", game_id |-> g, player_id |-> p,
                           window_size |-> 1, length |-> 1]
          [] c = moveCall -> [method |-> "MakeMove", game_id |-> g, player_id |-> p,
                          sentence |-> s]]

MCGameAsked == [q \in Queries |-> g]

MCPlayerAsking == [q \in Queries |-> p]
=============================================================================
