------------------------------ MODULE Reshare ------------------------------
(***************************************************************************)
(* The share lifecycle of the KMS committee: genesis DKG, reshare recovery *)
(* of a node without a share, the fall-behind watchdog, proactive refresh, *)
(* the sealed share on disk, crashes and restarts (src/init.rs, with the   *)
(* gossip and StartReshare handlers of src/grpc.rs that feed it).          *)
(*                                                                         *)
(* Abstractions.                                                           *)
(*  - A polynomial is named by the session that produced it, a master by   *)
(*    the session that first had it as its intercept.  A share is the pair *)
(*    (polynomial, epoch tag); its index is its node's nodeList position.  *)
(*  - The DKG rounds of one session are abstracted to what they decide:    *)
(*    every member must join before anyone can finish, and from then on    *)
(*    each member finishes or times out on its own (src/dkg.rs has no      *)
(*    commit step after round 5).  Resharing keeps the intercept exactly   *)
(*    when all dealers deal shares of one polynomial; otherwise Lagrange   *)
(*    yields an unrelated intercept, named by the session itself.          *)
(*  - The nodeList is complete and fixed: Node.                            *)
(*  - Which discovered peers count as live when a membership is assembled  *)
(*    is a free choice, since it depends on clocks and lost pushes only.   *)
(***************************************************************************)
EXTENDS Integers, FiniteSets

CONSTANTS
    Node,         \* the committee, i.e. the on-chain nodeList
    Threshold,    \* cluster.threshold
    Session,      \* session identifiers, each used at most once
    None,         \* no share, no key, no session
    Mixed,        \* the dealers of a session are on several polynomials
    MaxCrashes,   \* bound on process crashes
    MaxLosses,    \* bound on lost or late messages and failed file writes
    MaxRefreshes  \* bound on operator refreshes

ASSUME ThresholdAssumption ==
    /\ IsFiniteSet(Node)
    /\ Threshold \in 1..Cardinality(Node)

VARIABLES
    pc,           \* control state of the form_cluster task of each node
    shard,        \* AppState.shard
    group_pubkey, \* AppState.group_pubkey
    sealed,       \* the durable sealed blob (file or re-injected)
    peer_table,   \* epochs learned by gossip, Undiscovered if no entry
    snap,         \* the Membership assembled by the task, as far as it is used
    mine,         \* the session the form_cluster task waits for
    behind,       \* behind_checks of the watchdog
    session,      \* what each session is about
    part,         \* progress of each node in each session
    crashes, losses, refreshes

vars == <<pc, shard, group_pubkey, sealed, peer_table, snap, mine, behind,
          session, part, crashes, losses, refreshes>>

sessionVars == <<session, part>>
taskVars    == <<pc, snap, mine, behind>>
shareVars   == <<shard, group_pubkey, sealed>>
budgets     == <<crashes, losses, refreshes>>

GENESIS_EPOCH == 1
Undiscovered  == -1

Peers(n) == Node \ {n}
Up(n)    == pc[n] # "down"

(* majority: an epoch-changing reshare involves more than half of Node. *)
majority == Cardinality(Node) \div 2 + 1

(* Mutant: the epoch of the next share is announced. *)
OwnEpochNext(n) == IF shard[n] = None THEN 0 ELSE shard[n].epoch + 1

OwnEpoch(n) == IF shard[n] = None THEN 0 ELSE shard[n].epoch

(* known_epoch: e is the largest epoch among the own share and the table. *)
KnownEpochs(n) == {OwnEpoch(n)} \cup ({peer_table[n][m] : m \in Peers(n)} \cap Nat)
IsKnownEpoch(n, e) == e \in KnownEpochs(n) /\ \A f \in KnownEpochs(n) : f <= e

(* leading_dealers: live share-holders at the largest epoch among them. *)
LeadingDealers(n, live) ==
    {p \in live : /\ peer_table[n][p] > 0
                  /\ \A q \in live : peer_table[n][q] <= peer_table[n][p]}

(* Mutant: off by one. *)
EnoughDealersOffByOne(dealers) ==
    /\ Cardinality(dealers) > Threshold
    /\ Cardinality(dealers) + 1 >= majority

(* run_reshare_recovery: enough dealers to reconstruct the master, and a
   majority of the committee in the session. *)
EnoughDealers(dealers) ==
    /\ Cardinality(dealers) >= Threshold
    /\ Cardinality(dealers) + 1 >= majority

(* cluster_view: the epoch that n knows of p. *)
EpochSeen(n, p) == IF p = n THEN OwnEpoch(n) ELSE peer_table[n][p]

(* Mutant: the live holders of any epoch are counted. *)
LeadingHoldersAny(n, live) == {p \in live \cup {n} : EpochSeen(n, p) > 0}

(* leading_holders: the live share-holders at the largest epoch, with n. *)
LeadingHolders(n, live) ==
    {p \in live \cup {n} : /\ EpochSeen(n, p) > 0
                           /\ \A q \in live \cup {n} : EpochSeen(n, q) <= EpochSeen(n, p)}

RecoveryThreshold ==
    IF Threshold > Cardinality(Node) \div 2 THEN Threshold ELSE Cardinality(Node) \div 2

(* assemble_participants, as far as the callers use the result: the dealers
   of a recovery, none if they are too few, and all_discovered. *)
Membership(n, live) ==
    [dealers |-> IF EnoughDealers(LeadingDealers(n, live))
                 THEN LeadingDealers(n, live) ELSE {},
     all     |-> live = Peers(n)]
NoMembership == [dealers |-> {}, all |-> FALSE]

Discovered(n) == {m \in Peers(n) : peer_table[n][m] # Undiscovered}

Blank == [kind |-> "unused", dealers |-> {}, members |-> {}, epoch |-> 0,
          base |-> None, full |-> FALSE, master |-> None]

Share       == [poly : Session, epoch : Nat]
SealedShare == [poly : Session, epoch : Nat, master : Session]
Parts       == {"out", "invited", "running", "sealed", "keyed", "done", "left", "gone"}
Table       == [Node -> Nat \cup {Undiscovered}]
Sessions    == [kind : {"unused", "genesis", "recovery", "refresh"},
                dealers : SUBSET Node, members : SUBSET Node, epoch : Nat,
                base : Session \cup {None, Mixed}, full : BOOLEAN,
                master : Session \cup {None}]

ASSUME SentinelAssumption ==
    /\ None \notin Session /\ Mixed \notin Session /\ Mixed # None
    /\ None \notin Share /\ None \notin SealedShare

TypeOK ==
    /\ pc \in [Node -> {"down", "boot", "form", "assembled",
                        "session", "watch"}]
    /\ shard \in [Node -> Share \cup {None}]
    /\ group_pubkey \in [Node -> Session \cup {None}]
    /\ sealed \in [Node -> SealedShare \cup {None}]
    /\ peer_table \in [Node -> Table]
    /\ snap \in [Node -> [dealers : SUBSET Node, all : BOOLEAN]]
    /\ mine \in [Node -> Session \cup {None}]
    /\ behind \in [Node -> {0, 1}]
    /\ session \in [Session -> Sessions]
    /\ part \in [Session -> [Node -> Parts]]
    /\ crashes \in Nat /\ losses \in Nat /\ refreshes \in Nat

(* Every process has just started, and none has ever held a share. *)
Fresh ==
    /\ pc = [n \in Node |-> "boot"]
    /\ shard = [n \in Node |-> None]
    /\ group_pubkey = [n \in Node |-> None]
    /\ sealed = [n \in Node |-> None]
    /\ peer_table = [n \in Node |-> [m \in Node |-> Undiscovered]]
    /\ snap = [n \in Node |-> NoMembership]
    /\ mine = [n \in Node |-> None]
    /\ behind = [n \in Node |-> 0]
    /\ session = [s \in Session |-> Blank]
    /\ part = [s \in Session |-> [n \in Node |-> "out"]]
    /\ losses = 0 /\ refreshes = 0

Init == Fresh /\ crashes = 0

Lose == losses < MaxLosses /\ losses' = losses + 1

----------------------------------------------------------------------------
(* Gossip *)

(* The entries c takes over from the table that d answers with: the larger
   epoch of every third node. *)
Merge(c, d) ==
    [m \in Node |-> IF m \in {c, d} \/ peer_table[d][m] <= peer_table[c][m]
                    THEN peer_table[c][m] ELSE peer_table[d][m]]

(* Node c pushes to d: the handler of d overwrites its entry for c with the
   pushed epoch and answers with its table; the answer can get lost. *)
Gossip(c, d) ==
    /\ Up(c) /\ Up(d) /\ c # d
    /\ \/ /\ peer_table' = [peer_table EXCEPT ![d][c] = OwnEpoch(c), ![c] = Merge(c, d)]
          /\ UNCHANGED losses
       \/ /\ peer_table' = [peer_table EXCEPT ![d][c] = OwnEpoch(c)]
          /\ Lose
    /\ UNCHANGED <<taskVars, shareVars, sessionVars, crashes, refreshes>>

----------------------------------------------------------------------------
(* The form_cluster task *)

(* A task leaves a session without a new share: it returns to the loop it
   came from. *)
Resume(n) == IF shard[n] = None THEN "form" ELSE "watch"

(* try_reload_sealed: adopt the sealed share unless gossip already knows a
   larger epoch.  The record's master is not compared with the cluster's.  No
   session of the node runs yet, so the key and the share change at once. *)
ReloadSealed(n) ==
    /\ pc[n] = "boot"
    /\ shard[n] = None /\ sealed[n] # None
    /\ \A e \in KnownEpochs(n) : e <= sealed[n].epoch
    /\ group_pubkey' = [group_pubkey EXCEPT ![n] = sealed[n].master]
    /\ shard' = [shard EXCEPT ![n] = [poly |-> sealed[n].poly, epoch |-> sealed[n].epoch]]
    /\ pc' = [pc EXCEPT ![n] = "watch"]
    /\ UNCHANGED <<sealed, snap, mine, behind, peer_table, sessionVars, budgets>>

(* No blob, or a blob the cluster has moved past: join the formation loop. *)
SkipReload(n) ==
    /\ pc[n] = "boot"
    /\ sealed[n] # None => \E e \in KnownEpochs(n) : e > sealed[n].epoch
    /\ pc' = [pc EXCEPT ![n] = "form"]
    /\ UNCHANGED <<snap, mine, behind, shareVars, peer_table, sessionVars, budgets>>

(* Top of the loop: assemble whoever is discovered and live. *)
Assemble(n, live) ==
    /\ pc[n] = "form"
    /\ pc' = [pc EXCEPT ![n] = "assembled"]
    /\ snap' = [snap EXCEPT ![n] = Membership(n, live)]
    /\ UNCHANGED <<mine, behind, shareVars, peer_table, sessionVars, budgets>>

HolderAnswers(n) == \E p \in Peers(n) : Up(p) /\ shard[p] # None

(* join_cluster = SeedReachableDeclined: an initialized seed declines with
   FailedPrecondition, and a reachable seed that fails in any other way also
   counts as declining. *)
SeedDeclined(n) ==
    /\ \E p \in Peers(n) : Up(p)
    /\ IF HolderAnswers(n) THEN UNCHANGED losses ELSE Lose

(* The watchdog recovers without a probe. *)
MayRecover(n) == IF shard[n] = None THEN SeedDeclined(n) ELSE UNCHANGED losses

(* join_cluster = NoSeedReachable: every seed is unreachable or
   uninitialized, which costs lost probes if a
   holder is in fact up. *)
NoSeedReachable(n) ==
    IF HolderAnswers(n) THEN Lose ELSE UNCHANGED losses

OpenGenesis(s) == session[s].kind = "genesis" /\ ~session[s].full

(* Not everyone is discovered: genesis is all-or-nothing, go round again. *)
WaitForAll(n) ==
    /\ pc[n] = "assembled"
    /\ shard[n] = None
    /\ NoSeedReachable(n)
    /\ ~snap[n].all
    /\ pc' = [pc EXCEPT ![n] = "form"]
    /\ snap' = [snap EXCEPT ![n] = NoMembership]
    /\ UNCHANGED <<mine, behind, shareVars, peer_table, sessionVars, crashes, refreshes>>

(* Mutant: a genesis runs with a majority of the nodeList. *)
GenesisCompleteMajority(n, s) ==
    Cardinality({m \in Peers(n) : part[s][m] = "running"}) + 1 >= majority

(* With n, every node of the nodeList has joined: nobody's barrier is met
   before. *)
GenesisComplete(n, s) == \A m \in Peers(n) : part[s][m] = "running"

(* run_genesis: join the session "genesis:{app_id}". *)
RunGenesis(n, s) ==
    /\ pc[n] = "assembled"
    /\ shard[n] = None
    /\ NoSeedReachable(n)
    /\ snap[n].all
    /\ IF \E g \in Session : OpenGenesis(g)
       THEN OpenGenesis(s) ELSE session[s].kind = "unused"
    /\ session' = [session EXCEPT ![s] =
          [kind |-> "genesis", dealers |-> {}, members |-> Node,
           epoch |-> GENESIS_EPOCH, base |-> None,
           full |-> GenesisComplete(n, s), master |-> s]]
    /\ part' = [part EXCEPT ![s][n] = "running"]
    /\ pc' = [pc EXCEPT ![n] = "session"]
    /\ mine' = [mine EXCEPT ![n] = s]
    /\ snap' = [snap EXCEPT ![n] = NoMembership]
    /\ UNCHANGED <<behind, shareVars, peer_table, crashes, refreshes>>

(* Watchdog: the cluster is not ahead of us. *)
WatchInStep(n) ==
    /\ pc[n] = "watch"
    /\ \A e \in KnownEpochs(n) : e <= OwnEpoch(n)
    /\ behind[n] # 0
    /\ behind' = [behind EXCEPT ![n] = 0]
    /\ UNCHANGED <<pc, snap, mine, shareVars, peer_table, sessionVars, budgets>>

(* Mutant: the count of checks is never acted upon. *)
WatchBehindUncapped(n) ==
    /\ pc[n] = "watch"
    /\ \E e \in KnownEpochs(n) : e > OwnEpoch(n)
    /\ behind' = [behind EXCEPT ![n] = @ + 1]
    /\ UNCHANGED <<pc, snap, mine, shareVars, peer_table, sessionVars, budgets>>

(* Watchdog: first check that finds the cluster ahead. *)
WatchBehind(n) ==
    /\ pc[n] = "watch"
    /\ \E e \in KnownEpochs(n) : e > OwnEpoch(n)
    /\ behind[n] = 0
    /\ behind' = [behind EXCEPT ![n] = 1]
    /\ UNCHANGED <<pc, snap, mine, shareVars, peer_table, sessionVars, budgets>>

(* Watchdog: second check in a row; assemble and catch up. *)
WatchCatchUp(n, live) ==
    /\ pc[n] = "watch"
    /\ \E e \in KnownEpochs(n) : e > OwnEpoch(n)
    /\ behind[n] = 1
    /\ behind' = [behind EXCEPT ![n] = 0]
    /\ pc' = [pc EXCEPT ![n] = "assembled"]
    /\ snap' = [snap EXCEPT ![n] = Membership(n, live)]
    /\ UNCHANGED <<mine, shareVars, peer_table, sessionVars, budgets>>

----------------------------------------------------------------------------
(* Reshare sessions *)

(* run_reshare_recovery finds too few dealers, or form_cluster still waits
   for the remaining members (SUBSET_SETTLE). *)
GiveUpRecovery(n) ==
    /\ pc[n] = "assembled"
    /\ MayRecover(n)
    /\ \/ snap[n].dealers = {}
       \/ shard[n] = None /\ ~snap[n].all
    /\ pc' = [pc EXCEPT ![n] = Resume(n)]
    /\ snap' = [snap EXCEPT ![n] = NoMembership]
    /\ UNCHANGED <<mine, behind, shareVars, peer_table, sessionVars, crashes, refreshes>>

(* run_reshare_recovery: the dealers come from the membership assembled
   earlier, the new epoch from the table as it is now. *)
StartRecovery(n, s) ==
    /\ pc[n] = "assembled"
    /\ MayRecover(n)
    /\ snap[n].dealers # {}
    /\ session[s].kind = "unused"
    /\ \E e \in KnownEpochs(n) :
          /\ IsKnownEpoch(n, e)
          /\ session' = [session EXCEPT ![s] =
                [kind |-> "recovery", dealers |-> snap[n].dealers,
                 members |-> snap[n].dealers \cup {n}, epoch |-> e + 1,
                 base |-> None, full |-> FALSE, master |-> s]]
    /\ part' = [part EXCEPT ![s] =
          [m \in Node |-> IF m = n THEN "running"
                          ELSE IF m \in snap[n].dealers THEN "invited" ELSE "out"]]
    /\ pc' = [pc EXCEPT ![n] = "session"]
    /\ mine' = [mine EXCEPT ![n] = s]
    /\ snap' = [snap EXCEPT ![n] = NoMembership]
    /\ UNCHANGED <<behind, shareVars, peer_table, crashes, refreshes>>

(* trigger_refresh: everyone is live and at our epoch; all nodes deal, this
   one included. *)
TriggerRefresh(n, s) ==
    /\ Up(n) /\ shard[n] # None
    /\ refreshes < MaxRefreshes
    /\ \A m \in Peers(n) : peer_table[n][m] = OwnEpoch(n)
    /\ session[s].kind = "unused"
    /\ session' = [session EXCEPT ![s] =
          [kind |-> "refresh", dealers |-> Node, members |-> Node,
           epoch |-> OwnEpoch(n) + 1, base |-> None, full |-> FALSE, master |-> s]]
    /\ part' = [part EXCEPT ![s] = [m \in Node |-> "invited"]]
    /\ refreshes' = refreshes + 1
    /\ UNCHANGED <<taskVars, shareVars, peer_table, crashes, losses>>

(* The checks of start_reshare and run_reshare_dealer. *)
CanDeal(d, s) ==
    /\ shard[d] # None
    /\ session[s].epoch > shard[d].epoch
    /\ session[s].members \ {d} \subseteq Discovered(d)

(* Adding a dealer on polynomial p to dealers on b. *)
Combine(b, p) == IF b \in {None, p} THEN p ELSE Mixed

(* Mutant: dealers deal random values instead of their shares. *)
InterceptRandom(s, b) == s

(* The intercept a session over dealers on b ends with. *)
Intercept(s, b) == IF b = Mixed THEN s ELSE session[b].master

(* run_reshare_dealer: deal the share held now. *)
DealerJoin(d, s) ==
    /\ Up(d)
    /\ part[s][d] = "invited"
    /\ CanDeal(d, s)
    /\ part' = [part EXCEPT ![s][d] = "running"]
    /\ LET b == Combine(session[s].base, shard[d].poly)
           f == \A m \in session[s].members \ {d} : part[s][m] = "running"
       IN  session' = [session EXCEPT ![s] =
              [@ EXCEPT !.base = b, !.full = f,
                        !.master = IF f THEN Intercept(s, b) ELSE s]]
    /\ UNCHANGED <<taskVars, shareVars, peer_table, budgets>>

(* The trigger cannot be delivered, or the dealer refuses: the starter only
   logs it. *)
DealerDecline(d, s) ==
    /\ part[s][d] = "invited"
    /\ IF Up(d) /\ CanDeal(d, s) THEN Lose ELSE UNCHANGED losses
    /\ part' = [part EXCEPT ![s][d] = "left"]
    /\ UNCHANGED <<taskVars, shareVars, peer_table, session, crashes, refreshes>>

(* If the task was waiting for s, it goes back to its loop. *)
EndTask(n, s, to) ==
    /\ pc' = IF mine[n] = s THEN [pc EXCEPT ![n] = to] ELSE pc
    /\ mine' = IF mine[n] = s THEN [mine EXCEPT ![n] = None] ELSE mine

(* Somebody whose messages the barrier needs will not send them. *)
Stalled(s) ==
    \E m \in session[s].members :
       \/ part[s][m] = "gone"
       \/ ~session[s].full /\ \/ part[s][m] = "left"
                              \/ part[s][m] = "out" /\ (shard[m] # None \/ ~Up(m))

(* await_round times out, or run_session fails.  Without a stalled member this
   takes a round message that is lost, for broadcast_round never resends, or
   that comes after DKG_ROUND_TIMEOUT: a member that is merely late costs the
   others the session as well. *)
TimeOut(n, s) ==
    /\ part[s][n] = "running"
    /\ IF Stalled(s) THEN UNCHANGED losses ELSE Lose
    /\ part' = [part EXCEPT ![s][n] = "left"]
    /\ EndTask(n, s, Resume(n))
    /\ UNCHANGED <<snap, behind, shareVars, peer_table, session, crashes, refreshes>>

(* Mutant: no guard. *)
KeepsAnyMaster(n, s) == TRUE

(* The group-pubkey guard after run_session.  run_genesis has none. *)
KeepsMaster(n, s) ==
    \/ session[s].kind = "genesis"
    \/ group_pubkey[n] \in {None, session[s].master}

GuardAbort(n, s) ==
    /\ part[s][n] = "running" /\ session[s].full
    /\ ~KeepsMaster(n, s)
    /\ part' = [part EXCEPT ![s][n] = "left"]
    /\ EndTask(n, s, Resume(n))
    /\ UNCHANGED <<snap, behind, shareVars, peer_table, session, budgets>>

(* Round 5 done and the guard passed: store_share first seals and persists
   the new share; a failed file write is only logged. *)
Finish(n, s) ==
    /\ part[s][n] = "running" /\ session[s].full
    /\ KeepsMaster(n, s)
    /\ part' = [part EXCEPT ![s][n] = "sealed"]
    /\ \/ /\ sealed' = [sealed EXCEPT ![n] =
               [poly |-> s, epoch |-> session[s].epoch, master |-> session[s].master]]
          /\ UNCHANGED losses
       \/ Lose /\ UNCHANGED sealed
    /\ UNCHANGED <<taskVars, shard, group_pubkey, peer_table, session, crashes, refreshes>>

(* store_share: then the group pubkey is replaced, *)
StoreKey(n, s) ==
    /\ part[s][n] = "sealed"
    /\ group_pubkey' = [group_pubkey EXCEPT ![n] = session[s].master]
    /\ part' = [part EXCEPT ![s][n] = "keyed"]
    /\ UNCHANGED <<taskVars, shard, sealed, peer_table, session, budgets>>

(* and, under another lock, the share, with no second look at the epoch held.
   Other sessions of the node can run in between. *)
StoreShare(n, s) ==
    /\ part[s][n] = "keyed"
    /\ shard' = [shard EXCEPT ![n] = [poly |-> s, epoch |-> session[s].epoch]]
    /\ part' = [part EXCEPT ![s][n] = "done"]
    /\ EndTask(n, s, "watch")
    /\ UNCHANGED <<snap, behind, group_pubkey, sealed, peer_table, session, budgets>>

----------------------------------------------------------------------------
(* Crashes *)

(* The process dies: memory and sessions are lost, the blob survives only on
   a durable volume and under the same TEE identity. *)
Crash(n) ==
    /\ Up(n)
    /\ crashes < MaxCrashes
    /\ crashes' = crashes + 1
    /\ pc' = [pc EXCEPT ![n] = "down"]
    /\ shard' = [shard EXCEPT ![n] = None]
    /\ group_pubkey' = [group_pubkey EXCEPT ![n] = None]
    /\ \/ UNCHANGED sealed
       \/ sealed' = [sealed EXCEPT ![n] = None]
    /\ peer_table' = [peer_table EXCEPT ![n] = [m \in Node |-> Undiscovered]]
    /\ snap' = [snap EXCEPT ![n] = NoMembership]
    /\ mine' = [mine EXCEPT ![n] = None]
    /\ behind' = [behind EXCEPT ![n] = 0]
    /\ part' = [s \in Session |-> [part[s] EXCEPT ![n] =
          IF @ \in {"invited", "running"} THEN "gone"
          ELSE IF @ \in {"sealed", "keyed"} THEN "left" ELSE @]]
    /\ UNCHANGED <<session, losses, refreshes>>

Restart(n) ==
    /\ pc[n] = "down"
    /\ pc' = [pc EXCEPT ![n] = "boot"]
    /\ UNCHANGED <<snap, mine, behind, shareVars, peer_table, sessionVars, budgets>>

----------------------------------------------------------------------------
TaskStep(n) ==
    \/ ReloadSealed(n) \/ SkipReload(n)
    \/ \E live \in SUBSET Discovered(n) : Assemble(n, live) \/ WatchCatchUp(n, live)
    \/ WaitForAll(n)
    \/ \E s \in Session : RunGenesis(n, s) \/ StartRecovery(n, s)
    \/ GiveUpRecovery(n)
    \/ WatchInStep(n) \/ WatchBehind(n)

SessionStep(n, s) ==
    \/ DealerJoin(n, s) \/ DealerDecline(n, s)
    \/ TimeOut(n, s) \/ GuardAbort(n, s) \/ Finish(n, s)
    \/ StoreKey(n, s) \/ StoreShare(n, s)

Next ==
    \E n \in Node :
       \/ TaskStep(n)
       \/ \E s \in Session : SessionStep(n, s) \/ TriggerRefresh(n, s)
       \/ \E d \in Node : Gossip(n, d)
       \/ Crash(n) \/ Restart(n)

Spec == Init /\ [][Next]_vars

(* The steps tokio and the timers keep taking while a process is up: gossip
   runs every 30 s and reaches a running peer, direct contact keeps such a peer
   live for 90 s, the loops sleep for bounded times, a sent request is handled,
   a barrier that cannot be met times out, and a dead process is restarted.
   No fault is fair: losses, crashes and refreshes need not happen. *)
Fairness ==
    \A n \in Node :
       /\ WF_vars(Restart(n))
       /\ WF_vars(ReloadSealed(n) \/ SkipReload(n))
       /\ SF_vars(Assemble(n, Discovered(n)))
       /\ WF_vars(UNCHANGED losses /\ (GiveUpRecovery(n) \/ WaitForAll(n)))
       /\ WF_vars(UNCHANGED losses /\
                  \E s \in Session : RunGenesis(n, s) \/ StartRecovery(n, s))
       /\ WF_vars(WatchInStep(n) \/ WatchBehind(n))
       /\ SF_vars(WatchCatchUp(n, Discovered(n)))
       /\ \A d \in Node : WF_vars(UNCHANGED losses /\ Gossip(n, d))
       /\ \A s \in Session : WF_vars(UNCHANGED losses /\ SessionStep(n, s))

FairSpec == Spec /\ Fairness

----------------------------------------------------------------------------
(* Properties *)

(* The group pubkey a node verifies derived keys against is the one of the
   polynomial its share lies on, also between the two writes of store_share
   and while several sessions of the node are inside it; the same holds for
   the record sealed on disk. *)
KeyMatchesShare ==
    \A n \in Node :
       /\ shard[n] # None => group_pubkey[n] = session[shard[n].poly].master
       /\ sealed[n] # None => sealed[n].master = session[sealed[n].poly].master

(* "Refuses to update if the reshare would change the group public key": as
   long as a process lives, no session replaces a group pubkey it knows. *)
MasterStable ==
    [][\A n \in Node : group_pubkey[n] # None /\ group_pubkey'[n] # None
                          => group_pubkey'[n] = group_pubkey[n]]_vars

(* A session whose dealers sit on several polynomials reconstructs garbage;
   no share-holder that dealt in it gets as far as store_share. *)
DealersRejectGarbage ==
    \A s \in Session :
       session[s].base = Mixed =>
          \A d \in session[s].dealers : part[s][d] \notin {"sealed", "keyed", "done"}

(* majority: two reshares always have a member in common, so no two disjoint
   subsets of the committee can each advance the epoch. *)
QuorumsOverlap ==
    \A s, t \in Session :
       {session[s].kind, session[t].kind} \subseteq {"recovery", "refresh"}
          => session[s].members \cap session[t].members # {}

(* Disaster gate: a genesis can only complete while no running node holds a
   share, even when the probes of the seeds were lost. *)
NoGenesisOverHolders ==
    [][\A s \in Session :
          session'[s].kind = "genesis" /\ session'[s].full /\ ~session[s].full
             => \A n \in Node : shard[n] = None]_vars

(* "The number to alert on is kms_leading_holders < kms_recovery_threshold":
   in every mixture of epochs, of nodes without a share and of stale tables
   that sessions leave behind, the gauge of a node that needs a recovery is
   below the line exactly when run_reshare_recovery would refuse to start one. *)
AlertMeansStuck ==
    \A n \in Node : \A live \in SUBSET Discovered(n) :
       n \notin LeadingHolders(n, live) =>
          (Cardinality(LeadingHolders(n, live)) < RecoveryThreshold
              <=> ~EnoughDealers(LeadingDealers(n, live)))

(* The masters that a completed genesis has made. *)
Minted == {s \in Session : session[s].kind = "genesis" /\ session[s].full}

Ledger == INSTANCE MasterLedger
             WITH Master <- Session, minted <- Minted, held <- group_pubkey

(* "Every epoch shares the same master", as far as it is true: the group
   pubkeys of the processes change only as MasterLedger allows.  In particular
   the garbage of a recovery over several polynomials stays with the one node
   that was recovered, and no later recovery can build on it. *)
KeepsLedger == Ledger!Spec

(* Epochs are never skipped, although the epoch of a reshare is taken from a
   table of rumours: a session that completes under an epoch is a genesis, or
   another session has completed under the epoch before. *)
EpochsUnbroken ==
    \A s \in Session :
       session[s].full =>
          \/ session[s].kind = "genesis" /\ session[s].epoch = GENESIS_EPOCH
          \/ \E t \in Session : session[t].full /\ session[t].epoch + 1 = session[s].epoch

(* "Monotonic epoch: never reshare backwards into an epoch we've already
   passed": the epoch of the share a process holds never decreases. *)
EpochMonotonic ==
    [][\A n \in Node : shard[n] # None /\ shard'[n] # None
                          => shard'[n].epoch >= shard[n].epoch]_vars

(* No node is past the start of two sessions at once.  Nothing in the code sees
   to this; it is the condition under which the epochs are monotonic. *)
OneSessionEach ==
    \A n \in Node : \A s, t \in Session :
       {part[s][n], part[t][n]} \subseteq {"running", "sealed", "keyed"} => s = t

(* "Every epoch shares the same master": a recovery gives a node a share of
   the master the rest of the committee holds. *)
OneMaster ==
    \A n, m \in Node :
       shard[n] # None /\ shard[m] # None => group_pubkey[n] = group_pubkey[m]

(* When the above is true: shares of different masters are held only after a
   reshare over several polynomials or a second genesis has completed. *)
OneMasterUnlessMixed ==
    /\ \A s \in Session : session[s].full => session[s].base # Mixed
    /\ \A s, t \in Minted : s = t
    => OneMaster

(* The nodes that hold a share of polynomial p, have it sealed, or are past
   the barrier of its session and need nothing but their own next step. *)
Prospects(p) ==
    {n \in Node : \/ shard[n] # None /\ shard[n].poly = p
                  \/ sealed[n] # None /\ sealed[n].poly = p
                  \/ part[p][n] \in {"sealed", "keyed"}
                  \/ part[p][n] = "running" /\ session[p].full /\ KeepsMaster(n, p)}

(* "The master survives any < threshold loss": while fewer than Threshold
   nodes have crashed, Threshold shares of one polynomial can be had. *)
MasterSurvives ==
    crashes < Threshold /\ (\E s \in Session : session[s].full)
       => \E p \in Session : Cardinality(Prospects(p)) >= Threshold

(* The bound on sessions has not been used up. *)
SessionsLeft == \E s \in Session : session[s].kind = "unused"

(* A member gives up a genesis although all the others are about to enter it. *)
GivesUpEarly ==
    \E s \in Session : \E n \in Node :
       /\ session[s].kind = "genesis" /\ ~session[s].full
       /\ part[s][n] = "running" /\ part'[s][n] = "left"
       /\ \A m \in Node : Up(m) /\ shard[m] = None

(* "The whole committee lines up": this goes on happening no longer. *)
LinesUp == <>[][~GivesUpEarly]_vars

(* Formation and self-healing: "keep retrying until the whole committee lines
   up and one attempt succeeds".  A node without a share ends up with one, over
   attempts that fail because a message or an invitation is lost or late. *)
Rejoins ==
    []SessionsLeft /\ LinesUp => \A n \in Node : shard[n] = None ~> shard[n] # None

(* A running node holds a share of an older epoch than another one does. *)
Stranded(n) ==
    shard[n] # None /\ \E m \in Node : OwnEpoch(m) > OwnEpoch(n)

(* "A node stranded on a stale polynomial detects it via gossip and re-syncs
   automatically." *)
Resyncs ==
    []SessionsLeft => \A n \in Node : Stranded(n) ~> ~Stranded(n)
============================================================================
