--------------------------- MODULE SessionOutcome ---------------------------
(***************************************************************************)
(* What one DKG session id promises to form_cluster: nobody finishes       *)
(* before every member has joined, and all members that finish hold shares *)
(* of one polynomial.  It does not promise that everybody finishes.  This  *)
(* is the view module Reshare has of a session.                            *)
(***************************************************************************)
CONSTANTS
    Node,   \* the members
    Poly,   \* the polynomials a session can end with
    None

VARIABLES
    joined, \* the members that have started run_session
    result  \* the polynomial each finished member has a share of

Init ==
    /\ joined = {}
    /\ result = [n \in Node |-> None]

Join(n) ==
    /\ joined' = joined \cup {n}
    /\ UNCHANGED result

Finish(n, p) ==
    /\ joined = Node
    /\ result[n] = None
    /\ \A m \in Node : result[m] \in {None, p}
    /\ result' = [result EXCEPT ![n] = p]
    /\ UNCHANGED joined

Next == \E n \in Node : Join(n) \/ \E p \in Poly : Finish(n, p)

Spec == Init /\ [][Next]_<<joined, result>>
=============================================================================
