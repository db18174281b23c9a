------------------------------ MODULE MCDerive ------------------------------
(* Instances of Derive for TLC: four nodes, threshold two; node 2 is known
   under two urls, and node 4 may be down, forked or foreign. *)
EXTENDS Derive

Urls   == {"a", "b", "c", "d"}
Places == [u \in Urls |-> CASE u = "a" -> 2 [] u = "b" -> 2 [] u = "c" -> 3 [] u = "d" -> 4]
=============================================================================
