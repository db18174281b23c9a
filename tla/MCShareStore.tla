---------------------------- MODULE MCShareStore ----------------------------
(* Instances of ShareStore for TLC. *)
EXTENDS ShareStore, TLC

(* Identities and masters are interchangeable. *)
Symmetry == Permutations(Identity) \cup Permutations(Master)
=============================================================================
