----------------------------- MODULE MCActionLog -----------------------------
(* Instance of ActionLog for TLC.                                           *)
EXTENDS ActionLog, TLC
=============================================================================
