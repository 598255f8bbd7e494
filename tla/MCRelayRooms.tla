---------------------------- MODULE MCRelayRooms ----------------------------
(* Instances of RelayRooms for TLC. *)
EXTENDS RelayRooms
=============================================================================
