---------------------------- MODULE MCGameService ----------------------------
(* Instance of GameService for TLC.  Games, players and sentences are only  *)
(* compared for equality, so all three sets are symmetric.                  *)
EXTENDS GameService, TLC

Symmetry == Permutations(GameIds) \cup Permutations(PlayerIds)
            \cup Permutations(Sentences)
=============================================================================
