---------------------------- MODULE MasterLedger ----------------------------
(***************************************************************************)
(* What the committee promises about its master key, whatever sessions,    *)
(* crashes and lost messages do: a master comes into being only while no   *)
(* process holds one, a process that holds one changes it for no other,    *)
(* and a process is given either a master that a genesis made or, by a     *)
(* recovery from dealers on several polynomials, one that no other process *)
(* holds: a stray master does not spread.                                  *)
(***************************************************************************)
CONSTANTS
    Node,
    Master,
    None

VARIABLES
    minted, \* the masters that a genesis has made
    held    \* the master that each process holds a share of

Init ==
    /\ minted \in SUBSET Master
    /\ held \in [Node -> minted \cup {None}]

(* A genesis completes. *)
Mint(g) ==
    /\ \A n \in Node : held[n] = None
    /\ minted' = minted \cup {g}
    /\ UNCHANGED held

(* A process gets a share of a master of the committee: by the genesis itself,
   by a recovery, or from its sealed blob. *)
Receive(n, g) ==
    /\ held[n] = None
    /\ g \in minted
    /\ held' = [held EXCEPT ![n] = g]
    /\ UNCHANGED minted

(* A process gets a share that nobody can combine with another one. *)
Stray(n, g) ==
    /\ held[n] = None
    /\ g \notin minted /\ \A m \in Node : held[m] # g
    /\ held' = [held EXCEPT ![n] = g]
    /\ UNCHANGED minted

(* A process dies. *)
Drop(n) ==
    /\ held' = [held EXCEPT ![n] = None]
    /\ UNCHANGED minted

Next ==
    \/ \E g \in Master : Mint(g)
    \/ \E n \in Node : Drop(n) \/ \E g \in Master : Receive(n, g) \/ Stray(n, g)

Spec == Init /\ [][Next]_<<minted, held>>
=============================================================================
