------------------------------ MODULE MCFrontend ------------------------------
(* Instance of Frontend for TLC: the address of one of the games is read     *)
(* back as it is, that of the other (with a slash in its id) is not.         *)
EXTENDS Frontend

CONSTANTS plain, slashed

MCAsParsed == [g \in GameIds |-> IF g = plain THEN GameAt(g) ELSE Unknown]
=============================================================================
