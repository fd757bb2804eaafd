------------------------- MODULE MCVersionActivation -------------------------
(* Instances of VersionActivation for TLC. *)
EXTENDS VersionActivation, TLC

Twins == Permutations(Rows)
=============================================================================
