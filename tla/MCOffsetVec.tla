----------------------------- MODULE MCOffsetVec -----------------------------
(* Instance of OffsetVec for TLC.                                           *)
EXTENDS OffsetVec
=============================================================================
