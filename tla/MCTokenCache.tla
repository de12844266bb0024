----------------------------- MODULE MCTokenCache -----------------------------
(* Instance of TokenCache for TLC.                                           *)
EXTENDS TokenCache
=============================================================================
