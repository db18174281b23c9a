-------------------------- MODULE MCNodeListCache --------------------------
(* Instances of NodeListCache for TLC. *)
EXTENDS NodeListCache, TLC

Symmetry == Permutations(Caller)
=============================================================================
