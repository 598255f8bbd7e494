----------------------------- MODULE MCManager -----------------------------
(* Instances of Manager for TLC. *)
EXTENDS Manager, TLC

CONSTANTS u1, u2

AllAtOne == [u \in Unit |-> 1]
OneEach == (u1 :> 1) @@ (u2 :> 2)
NoDeps == [u \in Unit |-> {}]
Chain == (u1 :> {}) @@ (u2 :> {u1})
=============================================================================
