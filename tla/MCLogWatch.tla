------------------------------ MODULE MCLogWatch ------------------------------
(* Instance of LogWatch for TLC.                                            *)
EXTENDS LogWatch
=============================================================================
