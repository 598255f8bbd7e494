--------------------------- MODULE MCRemoteCommands ---------------------------
(* Instances of RemoteCommands for TLC. *)
EXTENDS RemoteCommands
=============================================================================
