------------------------------- MODULE Gossip -------------------------------
(***************************************************************************)
(* The peer tables: the gossip rounds of every node, the gossip handler    *)
(* that answers them, and liveness judged from direct contact              *)
(* (gossip_round and the gossip handler of src/grpc.rs, PeerInfo of        *)
(* src/server.rs, cluster_view of src/metrics.rs).                         *)
(*                                                                         *)
(* Abstractions.                                                           *)
(*  - A node is named by its grpc url, fixed in its configuration; tables  *)
(*    are keyed by address, the TEE identity, which a restart may change.  *)
(*    The pubkey of an entry is that of its address.                       *)
(*  - Instants are ages in gossip periods (30 s of sleep and the round).   *)
(*    An age is capped at Never, which also stands for last_seen = 0.      *)
(*  - A push is over in the period it was sent in (it times out after 5 s) *)
(*    and its two ends are one step: of what others do to the caller's     *)
(*    table between the handler and the merge, the next round leaves no    *)
(*    trace.                                                               *)
(*  - How a share is obtained is the subject of Reshare: here a node       *)
(*    takes one over (Adopt).                                              *)
(***************************************************************************)
EXTENDS Integers

CONSTANTS
    Node,      \* hosts, by their grpc url
    Addr,      \* identities, by their eth address
    HostOf,    \* the host an identity belongs to
    Seeds,     \* cluster.seeds of each host
    Window,    \* PEER_LIVENESS_WINDOW_SECS, in gossip periods
    Epochs,    \* the epochs a share can have
    Master,    \* group public keys
    None,      \* no entry, no group pubkey
    Unstable,  \* the hosts whose process may crash
    MaxAdopts, \* bound on new shares
    MaxFaults  \* bound on crashes and on pushes lost between running nodes

ASSUME GossipAssumption ==
    /\ HostOf \in [Addr -> Node]
    /\ Seeds \in [Node -> SUBSET Node]
    /\ Window \in Nat
    /\ Epochs \subseteq Nat \ {0}

VARIABLES
    up,           \* the process runs
    id,           \* the address of its signing key
    epoch,        \* epoch of AppState.shard, 0 without a share
    group_pubkey, \* AppState.group_pubkey
    table,        \* AppState.peer_table
    round,        \* the gossip round of each node
    down,         \* periods since a host went down
    best,         \* history: the largest epoch each identity has held
    adopts, faults

vars == <<up, id, epoch, group_pubkey, table, round, down, best, adopts, faults>>

shareVars == <<id, epoch, group_pubkey, best>>

Never == Window + 1
Epoch0  == Epochs \cup {0}
Master0 == Master \cup {None}
Entry   == [age : 0..Never, epoch : Epoch0, gpk : Master0]
Tables  == [Addr -> Entry \cup {None}]
NoTable == [a \in Addr |-> None]
Rounds  == [state : {"idle", "pushing", "done"}, todo : SUBSET Node,
            epoch : Epoch0, gpk : Master0]
Resting(s) == [state |-> s, todo |-> {}, epoch |-> 0, gpk |-> None]

ASSUME NoneAssumption == None \notin Entry /\ None \notin Master

TypeOK ==
    /\ up \in [Node -> BOOLEAN]
    /\ id \in [Node -> Addr]
    /\ epoch \in [Node -> Epoch0]
    /\ group_pubkey \in [Node -> Master0]
    /\ table \in [Node -> Tables]
    /\ round \in [Node -> Rounds]
    /\ down \in [Node -> 0..Never]
    /\ best \in [Addr -> Epoch0]
    /\ adopts \in Nat /\ faults \in Nat

(* All processes have just started and reloaded shares of one epoch. *)
Init ==
    /\ up = [h \in Node |-> TRUE]
    /\ id \in [Node -> Addr] /\ \A h \in Node : HostOf[id[h]] = h
    /\ \E e \in Epochs, m \in Master :
          /\ epoch = [h \in Node |-> e]
          /\ group_pubkey = [h \in Node |-> m]
          /\ best = [a \in Addr |-> IF id[HostOf[a]] = a THEN e ELSE 0]
    /\ table = [h \in Node |-> NoTable]
    /\ round = [h \in Node |-> Resting("idle")]
    /\ down = [h \in Node |-> 0]
    /\ adopts = 0 /\ faults = 0

Fault == faults < MaxFaults /\ faults' = faults + 1

Known(t) == {a \in Addr : t[a] # None}

(* is_live: direct contact within the window. *)
IsLive(h, a) == table[h][a] # None /\ table[h][a].age <= Window

----------------------------------------------------------------------------
(* A gossip round *)

(* Mutant: only peers that count as live are contacted. *)
TargetsLive(h) ==
    (IF Known(table[h]) = {} THEN Seeds[h]
     ELSE {HostOf[a] : a \in {b \in Known(table[h]) : IsLive(h, b)}}) \ {h}

(* The urls in the table, or the seeds while the table is empty. *)
Targets(h) ==
    (IF Known(table[h]) = {} THEN Seeds[h]
     ELSE {HostOf[a] : a \in Known(table[h])}) \ {h}

(* Mutant: the round announces known_epoch instead of the epoch of the own
   share. *)
BeginRoundKnown(h) ==
    /\ up[h] /\ round[h].state = "idle"
    /\ \E e \in {epoch[h]} \cup {table[h][a].epoch : a \in Known(table[h])} :
          round' = [round EXCEPT ![h] =
             IF Targets(h) = {} THEN Resting("done")
             ELSE [state |-> "pushing", todo |-> Targets(h),
                   epoch |-> e, gpk |-> group_pubkey[h]]]
    /\ UNCHANGED <<up, shareVars, table, down, adopts, faults>>

(* gossip_round: targets, epoch and group pubkey are read once, for all the
   pushes of the round. *)
BeginRound(h) ==
    /\ up[h] /\ round[h].state = "idle"
    /\ round' = [round EXCEPT ![h] =
          IF Targets(h) = {} THEN Resting("done")
          ELSE [state |-> "pushing", todo |-> Targets(h),
                epoch |-> epoch[h], gpk |-> group_pubkey[h]]]
    /\ UNCHANGED <<up, shareVars, table, down, adopts, faults>>

(* Mutant: the handler keeps the larger epoch, as the merge does. *)
RegisterLarger(t, a, e, m) ==
    [t EXCEPT ![a] = [age |-> 0, gpk |-> m,
                      epoch |-> IF @ # None /\ @.epoch > e THEN @.epoch ELSE e]]

(* The gossip handler replaces the caller's entry, whatever it was. *)
Register(t, a, e, m) == [t EXCEPT ![a] = [age |-> 0, epoch |-> e, gpk |-> m]]

(* Mutant: a relayed entry counts as contact. *)
RelayedAlive(e, o) == [o EXCEPT !.age = 0]

(* What becomes of entry e when o is told by relay.  It never gets younger;
   the larger epoch and the last group pubkey that was reported count. *)
Relayed(e, o) ==
    IF e = None THEN [o EXCEPT !.age = Never]
    ELSE [age   |-> e.age,
          epoch |-> IF o.epoch > e.epoch THEN o.epoch ELSE e.epoch,
          gpk   |-> IF o.gpk = None THEN e.gpk ELSE o.gpk]

(* A push to d succeeded: all entries under its url have been contacted. *)
Contacted(t, d) ==
    [a \in Addr |-> IF t[a] # None /\ HostOf[a] = d
                    THEN [t[a] EXCEPT !.age = 0] ELSE t[a]]

(* The answer o is merged into t, without the entries under the own url. *)
Merged(h, t, o) ==
    [a \in Addr |-> IF HostOf[a] = h \/ o[a] = None THEN t[a]
                    ELSE Relayed(t[a], o[a])]

(* The round goes on with its next target. *)
Advance(h, d) ==
    round' = [round EXCEPT ![h] =
                 IF round[h].todo = {d} THEN Resting("done")
                 ELSE [round[h] EXCEPT !.todo = @ \ {d}]]

(* push_gossip: the handler of d registers the caller and answers with its
   table, and the caller merges the answer, unless it gets lost. *)
Push(h, d) ==
    /\ up[h] /\ up[d] /\ h # d
    /\ d \in round[h].todo
    /\ LET t == Register(table[d], id[h], round[h].epoch, round[h].gpk)
       IN  \/ /\ table' = [table EXCEPT ![d] = t,
                                        ![h] = Merged(h, Contacted(@, d), t)]
              /\ UNCHANGED faults
           \/ table' = [table EXCEPT ![d] = t] /\ Fault
    /\ Advance(h, d)
    /\ UNCHANGED <<up, shareVars, down, adopts>>

(* The push fails, which is only logged. *)
PushFails(h, d) ==
    /\ up[h]
    /\ d \in round[h].todo
    /\ IF up[d] THEN Fault ELSE UNCHANGED faults
    /\ Advance(h, d)
    /\ UNCHANGED <<up, shareVars, table, down, adopts>>

----------------------------------------------------------------------------
(* Shares, crashes and time *)

(* The node stores a share, whatever epoch its session had (with the same
   epoch, its peers see no difference).  A process keeps the group pubkey it
   knows. *)
Adopt(h, e, m) ==
    /\ up[h] /\ adopts < MaxAdopts
    /\ e # epoch[h]
    /\ group_pubkey[h] \in {None, m}
    /\ epoch' = [epoch EXCEPT ![h] = e]
    /\ group_pubkey' = [group_pubkey EXCEPT ![h] = m]
    /\ best' = [best EXCEPT ![id[h]] = IF e > @ THEN e ELSE @]
    /\ adopts' = adopts + 1
    /\ UNCHANGED <<up, id, table, round, down, faults>>

Crash(h) ==
    /\ up[h] /\ h \in Unstable /\ Fault
    /\ up' = [up EXCEPT ![h] = FALSE]
    /\ epoch' = [epoch EXCEPT ![h] = 0]
    /\ group_pubkey' = [group_pubkey EXCEPT ![h] = None]
    /\ table' = [table EXCEPT ![h] = NoTable]
    /\ round' = [round EXCEPT ![h] = Resting("idle")]
    /\ UNCHANGED <<id, down, best, adopts>>

(* The process is started again, under the same identity or a new one. *)
Restart(h, a) ==
    /\ ~up[h] /\ HostOf[a] = h
    /\ up' = [up EXCEPT ![h] = TRUE]
    /\ id' = [id EXCEPT ![h] = a]
    /\ down' = [down EXCEPT ![h] = 0]
    /\ UNCHANGED <<epoch, group_pubkey, best, table, round, adopts, faults>>

(* Mutant: ages wrap around. *)
OlderWrapping(n) == (n + 1) % (Never + 2)

Older(n) == IF n < Never THEN n + 1 ELSE n

(* A gossip period passes, in which every running node has done a round. *)
Tick ==
    /\ \A h \in Node : up[h] => round[h].state = "done"
    /\ round' = [h \in Node |-> Resting("idle")]
    /\ table' = [h \in Node |-> [a \in Addr |->
          IF table[h][a] = None THEN None
          ELSE [table[h][a] EXCEPT !.age = Older(@)]]]
    /\ down' = [h \in Node |-> IF up[h] THEN 0 ELSE Older(down[h])]
    /\ UNCHANGED <<up, shareVars, adopts, faults>>

Gossips(h) == BeginRound(h) \/ \E d \in Node : Push(h, d) \/ PushFails(h, d)

Next ==
    \/ \E h \in Node :
          \/ Gossips(h) \/ Crash(h)
          \/ \E e \in Epochs, m \in Master : Adopt(h, e, m)
          \/ \E a \in Addr : Restart(h, a)
    \/ Tick

Spec == Init /\ [][Next]_vars

(* The gossip tasks keep taking their steps and time passes; a dead process
   is restarted.  Faults and new shares need not happen. *)
Fairness ==
    /\ WF_vars(Tick \/ (UNCHANGED faults /\ \E h \in Node : Gossips(h)))
    /\ \A h \in Node : WF_vars(\E a \in Addr : Restart(h, a))

----------------------------------------------------------------------------
(* Properties *)

(* "Relayed gossip NEVER refreshes liveness": a host that has been down for
   longer than the window is live in nobody's table, however often the other
   nodes pass its entry around. *)
DeadExpires ==
    \A h \in Node, a \in Addr :
       ~up[HostOf[a]] /\ down[HostOf[a]] > Window => ~IsLive(h, a)

(* The epoch in an entry has been held by that very identity, so known_epoch
   never runs ahead of the cluster and no reshare skips epochs. *)
EpochsHeld ==
    \A h \in Node, a \in Addr :
       table[h][a] # None => table[h][a].epoch <= best[a]

(* "Nodes converge on their own": after a crash, a new identity or a lost
   push, all nodes have each other as live peers in the end, and keep them,
   also the node whose table was filled by others before it asked a seed. *)
Discovered ==
    <>[](\A h, d \in Node : h # d => up[h] /\ IsLive(h, id[d]))

(* cluster_view: live peers that report a group pubkey other than ours. *)
Mismatched(h) ==
    IF group_pubkey[h] = None THEN {}
    ELSE {a \in Addr : IsLive(h, a) /\ table[h][a].gpk \notin {None, group_pubkey[h]}}

Forked(h, d) ==
    group_pubkey[d] # group_pubkey[h] /\ None \notin {group_pubkey[d], group_pubkey[h]}

(* "So that a single node can detect a forked master": whatever stale entries
   are relayed, each node again and again sees the epoch that each peer holds,
   also that it has lost its share, and whether it is on another master. *)
ViewsCatchUp ==
    \A h, d \in Node :
       h # d => []<>(/\ table[h][id[d]] # None
                     /\ table[h][id[d]].epoch = epoch[d]
                     /\ id[d] \in Mismatched(h) <=> Forked(h, d))
============================================================================
