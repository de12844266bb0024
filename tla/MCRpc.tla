-------------------------------- MODULE MCRpc --------------------------------
(* Instance of Rpc for TLC.  Identifiers are strings, as on the wire.        *)
EXTENDS Rpc
=============================================================================
