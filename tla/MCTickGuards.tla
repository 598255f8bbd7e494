---------------------------- MODULE MCTickGuards ----------------------------
(* Instances of TickGuards for TLC. *)
EXTENDS TickGuards

\* Constraint: agents that always do some of what they are told.
Working == ~lapsed
=============================================================================
