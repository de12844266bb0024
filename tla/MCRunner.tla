------------------------------ MODULE MCRunner ------------------------------
(* Instance of Runner for TLC.                                             *)
EXTENDS Runner, TLC

Symmetry == Permutations(Calls)
=============================================================================
