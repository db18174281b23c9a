------------------------------- MODULE MCDkg -------------------------------
(* Instances of Dkg for TLC. *)
EXTENDS Dkg, TLC

Symmetry == Permutations(Node)
=============================================================================
