------------------------------ MODULE MCGossip ------------------------------
(* An instance of Gossip for TLC: three hosts that have each other as seeds,
   the third of which can come back under a second identity. *)
EXTENDS Gossip

CONSTANT Master1 \* the master of the first genesis

MCNode   == 1..3
MCAddr   == 1..4
MCHostOf == [a \in MCAddr |-> IF a = 4 THEN 3 ELSE a]
MCSeeds  == [h \in MCNode |-> MCNode \ {h}]

(* One of the initial states that differ in the names of identities and
   masters only. *)
StartInit == Init /\ \A h \in Node : id[h] = h /\ group_pubkey[h] = Master1

FairStartSpec == StartInit /\ [][Next]_vars /\ Fairness
============================================================================
