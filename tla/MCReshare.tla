----------------------------- MODULE MCReshare -----------------------------
(* Instances of Reshare for TLC. *)
EXTENDS Reshare, TLC

CONSTANTS
    LostShares,   \* in FormedInit, how many nodes have lost their share
    Ahead         \* in FormedInit, how many completed a refresh others missed

(* Nodes and session identifiers are interchangeable. *)
Symmetry == Permutations(Node) \cup Permutations(Session)

(* What a finished session leaves behind. *)
Ran(k, g, e) == [kind |-> k, dealers |-> IF k = "refresh" THEN Node ELSE {},
                 members |-> Node, epoch |-> e, full |-> TRUE, master |-> g,
                 base |-> IF k = "refresh" THEN g ELSE None]

(* A committee after a genesis that everyone completed and gossiped.  Some
   nodes have just completed a refresh in whose last round messages to the others
   got lost (ahead), and some have been restarted without their sealed blob
   (lost). *)
Formed(lost, ahead) ==
    \E g \in Session, r \in Session :
       LET Moved == ahead # {}
           Held(n) == IF n \in ahead THEN [poly |-> r, epoch |-> GENESIS_EPOCH + 1]
                                     ELSE [poly |-> g, epoch |-> GENESIS_EPOCH]
       IN
       /\ Moved <=> r # g
       /\ pc = [n \in Node |-> IF n \in lost THEN "boot" ELSE "watch"]
       /\ shard = [n \in Node |-> IF n \in lost THEN None ELSE Held(n)]
       /\ group_pubkey = [n \in Node |-> IF n \in lost THEN None ELSE g]
       /\ sealed = [n \in Node |->
             IF n \in lost THEN None
             ELSE [poly |-> Held(n).poly, epoch |-> Held(n).epoch, master |-> g]]
       /\ peer_table = [n \in Node |-> [m \in Node |->
             IF m = n \/ n \in lost THEN Undiscovered ELSE GENESIS_EPOCH]]
       /\ snap = [n \in Node |-> NoMembership]
       /\ mine = [n \in Node |-> None]
       /\ behind = [n \in Node |-> 0]
       /\ session = [s \in Session |->
             IF s = g THEN Ran("genesis", g, GENESIS_EPOCH)
             ELSE IF s = r THEN Ran("refresh", g, GENESIS_EPOCH + 1) ELSE Blank]
       /\ part = [s \in Session |-> [n \in Node |->
             IF s = g \/ (s = r /\ n \in ahead) THEN "done"
             ELSE IF s = r THEN "left" ELSE "out"]]

(* The same with as many nodes of each kind as the instance says. *)
FormedInit ==
    /\ crashes = 0 /\ losses = 0 /\ refreshes = 0
    /\ \E lost, ahead \in SUBSET Node :
          /\ Cardinality(lost) = LostShares /\ Cardinality(ahead) = Ahead
          /\ lost \cap ahead = {}
          /\ Formed(lost, ahead)

FormedSpec == FormedInit /\ [][Next]_vars
FairFormedSpec == FormedSpec /\ Fairness

(* A committee split over two epochs by the messages that may be lost, or one
   that starts over after every share of its first genesis was lost. *)
SplitOrLostInit ==
    /\ crashes = 0
    /\ \/ /\ losses = MaxLosses /\ refreshes = 0
          /\ \E n \in Node : Formed({}, {n})
       \/ /\ losses = 0 /\ refreshes = MaxRefreshes
          /\ Formed(Node, {})

SplitOrLostSpec == SplitOrLostInit /\ [][Next]_vars

(* Session identifiers are drawn in order: liveness allows no symmetry. *)
InOrder ==
    \A s, t \in Session :
       s < t /\ session[s].kind = "unused" => session[t].kind = "unused"

(* A committee that has formed, or one that forms without a crash. *)
StartInit == (FormedInit \/ (Fresh /\ crashes = MaxCrashes)) /\ InOrder

NextInOrder == Next /\ InOrder'

FairStartSpec == StartInit /\ [][NextInOrder]_vars /\ Fairness
============================================================================
