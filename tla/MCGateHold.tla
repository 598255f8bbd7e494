---------------------------- MODULE MCGateHold ----------------------------
(* Instances of GateHold for TLC. *)
EXTENDS GateHold
=============================================================================
