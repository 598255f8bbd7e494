------------------------- MODULE MCArtifactWrites -------------------------
(* Instances of ArtifactWrites for TLC. *)
EXTENDS ArtifactWrites, TLC

=============================================================================
