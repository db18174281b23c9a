--------------------------- MODULE ReshareProofs ---------------------------
(***************************************************************************)
(* Proofs, for every committee, threshold and number of sessions and       *)
(* faults, of safety properties of Reshare.  IInv is the inductive         *)
(* invariant they rest on; EInv and AheadOfShare add the epochs.           *)
(***************************************************************************)
EXTENDS Reshare, TLAPS

Active == {"running", "sealed", "keyed"}
Reshares == {"recovery", "refresh"}

(* A session has a master from its first step; nobody takes part in an unused
   session or in one it is not a member of. *)
SessionsWellFormed ==
    \A s \in Session :
       /\ session[s].kind # "unused" => session[s].master \in Session
       /\ session[s].full => session[s].kind # "unused"
       /\ \A n \in Node :
             part[s][n] # "out" => session[s].kind # "unused" /\ n \in session[s].members

(* Everyone has joined a full session, so its master is final, and only full
   sessions can be finished. *)
FullIsFinal ==
    \A s \in Session, n \in Node :
       /\ session[s].full => part[s][n] # "invited"
       /\ part[s][n] \in {"sealed", "keyed", "done"} => session[s].full

(* Every share, in memory or sealed, comes from a full session. *)
SharesFromFull ==
    \A n \in Node :
       /\ shard[n] # None => session[shard[n].poly].full
       /\ sealed[n] # None => session[sealed[n].poly].full

(* A process that holds a share knows a group pubkey, and one that knows a
   group pubkey holds a share or is about to get it from its own session. *)
KeyWithShare ==
    \A n \in Node :
       /\ shard[n] # None => group_pubkey[n] # None
       /\ shard[n] = None /\ group_pubkey[n] # None =>
             mine[n] \in Session /\ part[mine[n]][n] = "keyed"

(* A node without a share takes part in the session of its own task only. *)
OneSessionWithoutShare ==
    \A n \in Node :
       /\ pc[n] # "session" => mine[n] = None
       /\ \A s \in Session :
             part[s][n] \in Active /\ shard[n] = None => mine[n] = s

(* Members of an unfinished genesis hold no share, dealers always hold one,
   and nobody is invited to a genesis. *)
SessionRoles ==
    \A s \in Session, n \in Node :
       /\ part[s][n] \in Active =>
             /\ session[s].kind = "genesis" => shard[n] = None
             /\ n \in session[s].dealers => shard[n] # None
       /\ part[s][n] = "invited" => session[s].kind # "genesis"

(* A node never invites itself as a dealer of its own recovery. *)
DealersAreOthers == \A n \in Node : n \notin snap[n].dealers

(* A node that has sealed a new share knows no other master, and once it has
   stored the key, it knows that one. *)
SealedKeepsMaster ==
    \A s \in Session, n \in Node :
       /\ part[s][n] = "sealed" => group_pubkey[n] \in {None, session[s].master}
       /\ part[s][n] = "keyed" => group_pubkey[n] = session[s].master

IInv ==
    /\ TypeOK /\ SessionsWellFormed /\ FullIsFinal /\ SharesFromFull /\ KeyWithShare
    /\ OneSessionWithoutShare /\ SessionRoles /\ DealersAreOthers
    /\ SealedKeepsMaster /\ KeyMatchesShare

----------------------------------------------------------------------------
(* Type correctness.  A sealed record names a master because a session in use
   has one, so SessionsWellFormed and FullIsFinal are needed as well. *)

(* known_epoch is a natural number, whatever gossip has delivered. *)
LEMMA KnownEpochsNat ==
    ASSUME TypeOK, NEW n \in Node
    PROVE  KnownEpochs(n) \subseteq Nat /\ OwnEpoch(n) \in Nat
BY DEF TypeOK, Share, KnownEpochs, OwnEpoch

(* assemble_participants never lists the node itself as a dealer, and its
   dealers are enough or none. *)
LEMMA MembershipType ==
    ASSUME NEW n \in Node, NEW live \in SUBSET Discovered(n)
    PROVE  /\ Membership(n, live) \in [dealers : SUBSET Node, all : BOOLEAN]
           /\ n \notin Membership(n, live).dealers
           /\ \/ Membership(n, live).dealers = {}
              \/ EnoughDealers(Membership(n, live).dealers)
BY Zenon DEF Membership, LeadingDealers, Discovered, Peers

(* The reset value of snap has the type of a membership. *)
LEMMA NoMembershipType == NoMembership \in [dealers : SUBSET Node, all : BOOLEAN]
BY Zenon DEF NoMembership

(* The state of a fresh process is well typed. *)
THEOREM TypeInit == Init => TypeOK
BY NoMembershipType DEF Init, Fresh, TypeOK, Blank, Sessions, Table, Parts

(* The steps of form_cluster and of the watchdog keep the state well typed. *)
LEMMA TypeTask ==
    ASSUME TypeOK, NEW n \in Node, TaskStep(n)
    PROVE  TypeOK'
<1>. USE DEF TypeOK, taskVars, shareVars, sessionVars, budgets, Lose
<1>1. CASE ReloadSealed(n)
  BY <1>1, Zenon DEF ReloadSealed, Share, SealedShare
<1>2. CASE SkipReload(n)
  BY <1>2, Zenon DEF SkipReload
<1>3. ASSUME NEW live \in SUBSET Discovered(n), Assemble(n, live)
      PROVE  TypeOK'
  BY <1>3, MembershipType, Zenon DEF Assemble
<1>4. ASSUME NEW live \in SUBSET Discovered(n), WatchCatchUp(n, live)
      PROVE  TypeOK'
  BY <1>4, MembershipType, Zenon DEF WatchCatchUp
<1>5. CASE WaitForAll(n)
  BY <1>5, NoMembershipType DEF WaitForAll, NoSeedReachable
<1>6. ASSUME NEW s \in Session, RunGenesis(n, s)
      PROVE  TypeOK'
  BY <1>6, NoMembershipType DEF RunGenesis, GenesisComplete, NoSeedReachable, GENESIS_EPOCH,
     Sessions, Parts
<1>7. ASSUME NEW s \in Session, StartRecovery(n, s)
      PROVE  TypeOK'
  BY <1>7, NoMembershipType, KnownEpochsNat DEF StartRecovery, MayRecover, SeedDeclined,
     Sessions, Parts
<1>8. CASE GiveUpRecovery(n)
  BY <1>8, NoMembershipType DEF GiveUpRecovery, MayRecover, SeedDeclined, Resume
<1>9. CASE WatchInStep(n)
  BY <1>9, Zenon DEF WatchInStep
<1>10. CASE WatchBehind(n)
  BY <1>10, Zenon DEF WatchBehind
<1>. QED
  BY <1>1, <1>2, <1>3, <1>4, <1>5, <1>6, <1>7, <1>8, <1>9, <1>10, ZenonT(30) DEF TaskStep

(* The record that DealerJoin writes is a session record. *)
LEMMA SessionUpdate ==
    ASSUME NEW r \in Sessions, NEW b \in Session \cup {None, Mixed},
           NEW f \in BOOLEAN, NEW i \in Session \cup {None}
    PROVE  [r EXCEPT !.base = b, !.full = f, !.master = i] \in Sessions
BY Zenon DEF Sessions

(* The steps of a session member keep the state well typed. *)
LEMMA TypeSession ==
    ASSUME TypeOK, SessionsWellFormed, NEW n \in Node, NEW s \in Session, SessionStep(n, s)
    PROVE  TypeOK'
<1>. USE DEF TypeOK, taskVars, shareVars, sessionVars, budgets, Lose, EndTask, Resume
<1>1. CASE DealerJoin(n, s)
  <2>. DEFINE b == Combine(session[s].base, shard[n].poly)
              f == \A m \in session[s].members \ {n} : part[s][m] = "running"
              i == IF f THEN Intercept(s, b) ELSE s
  <2>1. b \in Session \cup {Mixed}
    BY <1>1, Zenon DEF DealerJoin, CanDeal, Combine, Share, Sessions
  <2>2. i \in Session \cup {None} /\ f \in BOOLEAN
    BY <2>1, Zenon DEF Intercept, Sessions
  <2>. DEFINE r == [session[s] EXCEPT !.base = b, !.full = f, !.master = i]
  <2>3. session' = [session EXCEPT ![s] = r]
    BY <1>1, Zenon DEF DealerJoin
  <2>. HIDE DEF b, f, i
  <2>4. r \in Sessions
    BY <2>1, <2>2, SessionUpdate, Zenon
  <2>. HIDE DEF r
  <2>5. session' \in [Session -> Sessions]
    BY <2>3, <2>4, Zenon
  <2>. QED
    BY <1>1, <2>5, Zenon DEF DealerJoin, Parts
<1>2. CASE DealerDecline(n, s)
  BY <1>2 DEF DealerDecline, Parts
<1>3. CASE TimeOut(n, s)
  BY <1>3 DEF TimeOut, Parts
<1>4. CASE GuardAbort(n, s)
  BY <1>4, Zenon DEF GuardAbort, Parts
<1>5. CASE Finish(n, s)
  <2>1. session[s].master \in Session /\ session[s].epoch \in Nat
    BY <1>5, Zenon DEF Finish, SessionsWellFormed, Sessions
  <2>. DEFINE r == [poly |-> s, epoch |-> session[s].epoch, master |-> session[s].master]
  <2>2. r \in SealedShare
    BY <2>1, Zenon DEF SealedShare
  <2>3. sealed' = [sealed EXCEPT ![n] = r] \/ sealed' = sealed
    BY <1>5, Zenon DEF Finish
  <2>. HIDE DEF r
  <2>4. sealed' \in [Node -> SealedShare \cup {None}]
    BY <2>2, <2>3, Zenon
  <2>. QED
    BY <1>5, <2>4 DEF Finish, Parts
<1>6. CASE StoreKey(n, s)
  BY <1>6, Zenon DEF StoreKey, SessionsWellFormed, Sessions, Parts
<1>7. CASE StoreShare(n, s)
  BY <1>7, Zenon DEF StoreShare, Share, Sessions, Parts
<1>. QED
  BY <1>1, <1>2, <1>3, <1>4, <1>5, <1>6, <1>7, Zenon DEF SessionStep

(* Refreshes, gossip, crashes and restarts keep the state well typed. *)
LEMMA TypeOther ==
    ASSUME TypeOK, NEW n \in Node,
           \/ \E s \in Session : TriggerRefresh(n, s)
           \/ \E d \in Node : Gossip(n, d)
           \/ Crash(n) \/ Restart(n)
    PROVE  TypeOK'
<1>. USE DEF TypeOK, taskVars, shareVars, sessionVars, budgets, Lose
<1>1. ASSUME NEW s \in Session, TriggerRefresh(n, s)
      PROVE  TypeOK'
  BY <1>1, KnownEpochsNat DEF TriggerRefresh, Sessions, Parts
<1>2. ASSUME NEW d \in Node, Gossip(n, d)
      PROVE  TypeOK'
  <2>1. Merge(n, d) \in Table
    BY DEF Merge, Table
  <2>2. OwnEpoch(n) \in Nat
    BY KnownEpochsNat, Zenon
  <2>. DEFINE r == [peer_table[d] EXCEPT ![n] = OwnEpoch(n)]
  <2>3. r \in Table
    BY <2>2, Zenon DEF Table
  <2>4. \/ peer_table' = [peer_table EXCEPT ![d] = r, ![n] = Merge(n, d)]
        \/ peer_table' = [peer_table EXCEPT ![d] = r]
    BY <1>2, Zenon DEF Gossip
  <2>. HIDE DEF r
  <2>5. peer_table' \in [Node -> Table]
    BY <2>1, <2>3, <2>4, Zenon
  <2>. QED
    BY <1>2, <2>5 DEF Gossip
<1>3. CASE Crash(n)
  <2>1. part' \in [Session -> [Node -> Parts]]
    BY <1>3 DEF Crash, Parts
  <2>2. peer_table' \in [Node -> Table]
    BY <1>3, Zenon DEF Crash, Table
  <2>3. crashes' \in Nat /\ losses' \in Nat /\ refreshes' \in Nat
    BY <1>3 DEF Crash
  <2>4. snap' \in [Node -> [dealers : SUBSET Node, all : BOOLEAN]]
    BY <1>3, NoMembershipType, Zenon DEF Crash
  <2>5. /\ pc' \in [Node -> {"down", "boot", "form", "assembled", "session", "watch"}]
        /\ shard' \in [Node -> Share \cup {None}]
        /\ group_pubkey' \in [Node -> Session \cup {None}]
        /\ mine' \in [Node -> Session \cup {None}]
    BY <1>3, Zenon DEF Crash
  <2>6. sealed' \in [Node -> SealedShare \cup {None}] /\ behind' \in [Node -> {0, 1}]
    BY <1>3, Zenon DEF Crash
  <2>7. session' \in [Session -> Sessions]
    BY <1>3, Zenon DEF Crash
  <2>. QED
    BY <2>1, <2>2, <2>3, <2>4, <2>5, <2>6, <2>7, Zenon
<1>4. CASE Restart(n)
  BY <1>4, Zenon DEF Restart
<1>. QED
  BY <1>1, <1>2, <1>3, <1>4, Zenon

----------------------------------------------------------------------------
(* The inductive invariant *)

(* The invariant holds in the state of a fresh committee. *)
THEOREM IInvInit == Init => IInv
<1>. SUFFICES ASSUME Init PROVE IInv
  BY Zenon
<1>1. TypeOK
  BY TypeInit, Zenon
<1>2. /\ SessionsWellFormed /\ FullIsFinal /\ SharesFromFull
      /\ SessionRoles /\ SealedKeepsMaster
  BY Zenon DEF Init, Fresh, Blank, SessionsWellFormed, FullIsFinal, SharesFromFull,
     SessionRoles, SealedKeepsMaster, Active
<1>3. KeyWithShare /\ OneSessionWithoutShare /\ DealersAreOthers /\ KeyMatchesShare
  BY Zenon DEF Init, Fresh, KeyWithShare, OneSessionWithoutShare, DealersAreOthers,
     KeyMatchesShare, NoMembership, Active
<1>. QED
  BY <1>1, <1>2, <1>3, Zenon DEF IInv

(* Steps that leave the shares and the sessions alone. *)
LEMMA QuietStep ==
    ASSUME IInv, TypeOK', DealersAreOthers',
           UNCHANGED <<shareVars, sessionVars, mine>>,
           \A n \in Node : pc'[n] # "session" => mine[n] = None
    PROVE  IInv'
BY DEF IInv, shareVars, sessionVars, SessionsWellFormed, FullIsFinal, SharesFromFull,
   KeyWithShare, OneSessionWithoutShare, SessionRoles, SealedKeepsMaster, KeyMatchesShare

(* Assembling a membership without the node itself keeps DealersAreOthers. *)
LEMMA SnapStep ==
    ASSUME TypeOK, DealersAreOthers, NEW n \in Node, NEW m,
           snap' = [snap EXCEPT ![n] = m], n \notin m.dealers
    PROVE  DealersAreOthers'
BY Zenon DEF TypeOK, DealersAreOthers

(* Dropping a membership keeps DealersAreOthers. *)
LEMMA ResetSnap ==
    ASSUME TypeOK, DealersAreOthers, NEW n \in Node,
           snap' = [snap EXCEPT ![n] = NoMembership]
    PROVE  DealersAreOthers'
BY Zenon DEF TypeOK, DealersAreOthers, NoMembership

(* Steps of form_cluster and of the watchdog that touch no share and no session. *)
LEMMA QuietTask ==
    ASSUME IInv, NEW n \in Node,
           \/ SkipReload(n) \/ WaitForAll(n) \/ GiveUpRecovery(n)
           \/ WatchInStep(n) \/ WatchBehind(n)
           \/ \E live \in SUBSET Discovered(n) : Assemble(n, live) \/ WatchCatchUp(n, live)
    PROVE  IInv'
<1>1. TypeOK'
  BY TypeTask, Zenon DEF IInv, TaskStep
<1>2. DealersAreOthers'
  BY SnapStep, MembershipType DEF IInv, SkipReload, WaitForAll, GiveUpRecovery, WatchInStep,
     WatchBehind, Assemble, WatchCatchUp, NoMembership, DealersAreOthers
<1>3. UNCHANGED <<shareVars, sessionVars, mine>>
  BY Zenon DEF SkipReload, WaitForAll, GiveUpRecovery, WatchInStep, WatchBehind,
     Assemble, WatchCatchUp
<1>4. \A m \in Node : pc'[m] # "session" => mine[m] = None
  BY Zenon DEF IInv, TypeOK, OneSessionWithoutShare, SkipReload, WaitForAll, GiveUpRecovery,
     WatchInStep, WatchBehind, Assemble, WatchCatchUp
<1>. QED
  BY <1>1, <1>2, <1>3, <1>4, QuietStep, Zenon

(* Gossip and restarts touch no share and no session. *)
LEMMA QuietOther ==
    ASSUME IInv, NEW n \in Node, Restart(n) \/ \E d \in Node : Gossip(n, d)
    PROVE  IInv'
<1>1. TypeOK'
  BY TypeOther, Zenon DEF IInv
<1>2. UNCHANGED <<shareVars, sessionVars, mine>> /\ UNCHANGED snap
  BY Zenon DEF Restart, Gossip, taskVars
<1>3. \A m \in Node : pc'[m] # "session" => mine[m] = None
  BY Zenon DEF IInv, TypeOK, OneSessionWithoutShare, Restart, Gossip, taskVars
<1>. QED
  BY <1>1, <1>2, <1>3, QuietStep, Zenon DEF IInv, DealersAreOthers

(* The polynomial of a share, in memory or sealed, is a session. *)
LEMMA SharePoly ==
    ASSUME TypeOK, NEW n \in Node
    PROVE  /\ shard[n] # None => shard[n].poly \in Session
           /\ sealed[n] # None => sealed[n].poly \in Session
BY Zenon DEF TypeOK, Share, SealedShare

(* The master of a full session is final, so shares that stay keep matching. *)
LEMMA SharesStay ==
    ASSUME IInv, UNCHANGED shareVars,
           \A t \in Session : session[t].full =>
              session'[t].full /\ session'[t].master = session[t].master
    PROVE  SharesFromFull' /\ KeyMatchesShare'
BY SharePoly, Zenon DEF IInv, shareVars, SharesFromFull, KeyMatchesShare

(* The sealed record names the master of its polynomial. *)
LEMMA ReloadStep ==
    ASSUME IInv, NEW n \in Node, ReloadSealed(n)
    PROVE  IInv'
<1>. USE DEF IInv
<1>1. TypeOK'
  BY TypeTask, Zenon DEF TaskStep
<1>2. n \in DOMAIN shard /\ sealed[n] \in SealedShare /\ mine[n] = None /\ shard'[n] # None
  BY <1>1, SentinelAssumption
     DEF TypeOK, ReloadSealed, OneSessionWithoutShare, SealedShare, Share
<1>3. (SessionsWellFormed /\ DealersAreOthers)'
  BY Zenon DEF ReloadSealed, sessionVars, SessionsWellFormed, DealersAreOthers
<1>4. (FullIsFinal /\ SharesFromFull /\ KeyMatchesShare)'
  BY <1>2 DEF ReloadSealed, sessionVars, FullIsFinal, SharesFromFull, KeyMatchesShare,
     TypeOK, SealedShare
<1>5. (KeyWithShare /\ OneSessionWithoutShare)'
  BY <1>2, SentinelAssumption, Zenon DEF ReloadSealed, sessionVars, KeyWithShare,
     OneSessionWithoutShare, TypeOK, SealedShare
<1>6. \A s \in Session : part[s][n] \notin Active
  <2>1. shard[n] = None
    BY Zenon DEF ReloadSealed
  <2>. QED
    BY SentinelAssumption, <1>2, <2>1, Zenon DEF OneSessionWithoutShare
<1>7. (SessionRoles /\ SealedKeepsMaster)'
  BY <1>6, Zenon DEF ReloadSealed, sessionVars, SessionRoles, SealedKeepsMaster, TypeOK, Active
<1>. QED
  BY <1>1, <1>3, <1>4, <1>5, <1>7, Zenon

(* A genesis is joined by nodes without a share, and its session is not full. *)
LEMMA GenesisStep ==
    ASSUME IInv, NEW n \in Node, NEW s \in Session, RunGenesis(n, s)
    PROVE  IInv'
<1>. USE DEF IInv
<1>1. TypeOK'
  BY TypeTask, Zenon DEF TaskStep
<1>2. /\ ~session[s].full
      /\ shard[n] = None /\ mine[n] = None /\ \A t \in Session : part[t][n] \notin Active
      /\ \A m \in Node : part[s][m] \notin {"sealed", "keyed", "done"}
  BY SentinelAssumption, Zenon DEF RunGenesis, OpenGenesis, SessionsWellFormed,
     OneSessionWithoutShare, FullIsFinal
<1>3. \A m \in Node : part[s][m] # "out" => session[s].kind = "genesis"
  BY Zenon DEF RunGenesis, OpenGenesis, SessionsWellFormed
<1>4. /\ \A t \in Session \ {s} : session'[t] = session[t] /\ part'[t] = part[t]
      /\ \A m \in Node \ {n} : part'[s][m] = part[s][m]
      /\ part'[s][n] = "running"
  BY Zenon DEF RunGenesis, TypeOK
<1>5. /\ session'[s].kind = "genesis" /\ session'[s].members = Node
      /\ session'[s].master = s /\ session'[s].dealers = {}
      /\ session'[s].full => \A m \in Node \ {n} : part[s][m] = "running"
  BY Zenon DEF RunGenesis, GenesisComplete, TypeOK, Peers
<1>6. SessionsWellFormed'
  BY <1>4, <1>5 DEF SessionsWellFormed
<1>7. UNCHANGED shareVars /\ DealersAreOthers'
  BY ResetSnap, Zenon DEF RunGenesis
<1>8. FullIsFinal'
  BY <1>2, <1>4, <1>5 DEF FullIsFinal
<1>11. SharesFromFull' /\ KeyMatchesShare'
  BY <1>2, <1>4, <1>7, SharesStay, Zenon
<1>12. SealedKeepsMaster'
  BY <1>2, <1>4, <1>7 DEF shareVars, SealedKeepsMaster
<1>9. (KeyWithShare /\ OneSessionWithoutShare)'
  BY <1>2, <1>4, <1>7 DEF RunGenesis, shareVars, KeyWithShare, OneSessionWithoutShare,
     TypeOK, Active
<1>10. SessionRoles'
  BY <1>2, <1>3, <1>4, <1>5, <1>7 DEF shareVars, SessionRoles, Active
<1>. QED
  BY <1>1, <1>6, <1>7, <1>8, <1>9, <1>10, <1>11, <1>12, Zenon

(* Opening a reshare session: nobody has taken part in it before. *)
LEMMA OpenStep ==
    ASSUME IInv, TypeOK', NEW s \in Session, session[s].kind = "unused",
           UNCHANGED shareVars, DealersAreOthers',
           \A t \in Session \ {s} : session'[t] = session[t] /\ part'[t] = part[t],
           session'[s].kind \in Reshares, session'[s].master = s, ~session'[s].full,
           \A m \in Node :
              /\ part'[s][m] \in {"out", "invited", "running"}
              /\ part'[s][m] # "out" => m \in session'[s].members
              /\ part'[s][m] = "running" => m \notin session'[s].dealers /\ mine'[m] = s,
           \A m \in Node : pc'[m] # "session" => mine'[m] = None,
           \A m \in Node : mine'[m] = mine[m] \/ mine[m] = None
    PROVE  IInv'
<1>. USE DEF IInv
<1>1. ~session[s].full /\ \A m \in Node : part[s][m] = "out"
  BY Zenon DEF SessionsWellFormed
<1>2. SessionsWellFormed'
  BY <1>1 DEF SessionsWellFormed, Reshares
<1>3. (FullIsFinal /\ SealedKeepsMaster)'
  BY <1>1 DEF shareVars, FullIsFinal, SealedKeepsMaster
<1>6. SharesFromFull' /\ KeyMatchesShare'
  BY <1>1, SharesStay, Zenon
<1>4. (KeyWithShare /\ OneSessionWithoutShare)'
  BY <1>1, SentinelAssumption DEF shareVars, KeyWithShare, OneSessionWithoutShare, Active
<1>5. SessionRoles'
  BY <1>1 DEF shareVars, SessionRoles, Active, Reshares
<1>. QED
  BY <1>2, <1>3, <1>4, <1>5, <1>6, Zenon

(* run_reshare_recovery opens a session in which only the node itself runs. *)
LEMMA RecoveryStep ==
    ASSUME IInv, NEW n \in Node, NEW s \in Session, StartRecovery(n, s)
    PROVE  IInv'
<1>. USE DEF IInv
<1>1. TypeOK'
  BY TypeTask, Zenon DEF TaskStep
<1>2. /\ session'[s].kind \in Reshares /\ session'[s].master = s /\ ~session'[s].full
      /\ session'[s].dealers = snap[n].dealers
      /\ session'[s].members = snap[n].dealers \cup {n}
      /\ \A t \in Session \ {s} : session'[t] = session[t] /\ part'[t] = part[t]
  BY DEF StartRecovery, TypeOK, Reshares
<1>3. UNCHANGED shareVars /\ DealersAreOthers' /\ session[s].kind = "unused"
  BY ResetSnap, Zenon DEF StartRecovery
<1>4. /\ mine[n] = None /\ mine' = [mine EXCEPT ![n] = s]
      /\ pc' = [pc EXCEPT ![n] = "session"] /\ n \notin snap[n].dealers
  BY Zenon DEF StartRecovery, OneSessionWithoutShare, DealersAreOthers
<1>5. \A m \in Node : /\ pc'[m] # "session" => mine'[m] = None
                      /\ mine'[m] = mine[m] \/ mine[m] = None
  BY <1>4, Zenon DEF OneSessionWithoutShare, TypeOK
<1>6. \A m \in Node :
         /\ part'[s][m] \in {"out", "invited", "running"}
         /\ part'[s][m] # "out" => m \in session'[s].members
         /\ part'[s][m] = "running" => m \notin session'[s].dealers /\ mine'[m] = s
  BY <1>2, <1>4 DEF StartRecovery, TypeOK
<1>. QED
  BY <1>1, <1>2, <1>3, <1>5, <1>6, OpenStep, Zenon

(* trigger_refresh opens a session in which nobody runs yet. *)
LEMMA RefreshStep ==
    ASSUME IInv, NEW n \in Node, NEW s \in Session, TriggerRefresh(n, s)
    PROVE  IInv'
<1>. USE DEF IInv
<1>1. TypeOK'
  BY TypeOther, Zenon
<1>2. /\ session'[s].kind \in Reshares /\ session'[s].master = s /\ ~session'[s].full
      /\ session'[s].members = Node
      /\ \A t \in Session \ {s} : session'[t] = session[t] /\ part'[t] = part[t]
      /\ \A m \in Node : part'[s][m] = "invited"
  BY Zenon DEF TriggerRefresh, TypeOK, Reshares
<1>3. UNCHANGED shareVars /\ DealersAreOthers' /\ session[s].kind = "unused"
  BY Zenon DEF TriggerRefresh, taskVars, DealersAreOthers
<1>4. \A m \in Node : /\ pc'[m] # "session" => mine'[m] = None
                      /\ mine'[m] = mine[m]
  BY Zenon DEF TriggerRefresh, taskVars, OneSessionWithoutShare
<1>. QED
  BY <1>1, <1>2, <1>3, <1>4, OpenStep, Zenon

(* run_reshare_dealer: the session is not full before a dealer joins, so no share
   of it exists yet. *)
LEMMA JoinStep ==
    ASSUME IInv, NEW n \in Node, NEW s \in Session, DealerJoin(n, s)
    PROVE  IInv'
<1>. USE DEF IInv
<1>1. TypeOK'
  BY TypeSession, Zenon DEF SessionStep
<1>2. /\ ~session[s].full /\ shard[n] # None /\ part[s][n] = "invited"
      /\ session[s].kind \notin {"unused", "genesis"} /\ n \in session[s].members
      /\ \A m \in Node : part[s][m] \notin {"sealed", "keyed", "done"}
  BY Zenon DEF DealerJoin, CanDeal, FullIsFinal, SessionsWellFormed, SessionRoles
<1>3. UNCHANGED <<taskVars, shareVars>>
  BY Zenon DEF DealerJoin
<1>4. /\ \A t \in Session \ {s} : session'[t] = session[t] /\ part'[t] = part[t]
      /\ \A m \in Node \ {n} : part'[s][m] = part[s][m]
      /\ part'[s][n] = "running"
  BY Zenon DEF DealerJoin, TypeOK
<1>5. /\ session'[s].kind = session[s].kind /\ session'[s].members = session[s].members
      /\ session'[s].dealers = session[s].dealers
      /\ session'[s].full => \A m \in session[s].members \ {n} : part[s][m] = "running"
  BY DEF DealerJoin, TypeOK, Sessions
<1>6. session'[s].master \in Session
  <2>. DEFINE b == Combine(session[s].base, shard[n].poly)
  <2>1. b = Mixed \/ b = shard[n].poly
    BY Zenon DEF Combine
  <2>2. session[shard[n].poly].master \in Session
    BY <1>2, SharePoly, Zenon DEF SharesFromFull, SessionsWellFormed
  <2>3. Intercept(s, b) \in Session
    BY <2>1, <2>2, Zenon DEF Intercept
  <2>4. session'[s].master \in {s, Intercept(s, b)}
    BY DEF DealerJoin, TypeOK, Sessions
  <2>. QED
    BY <2>3, <2>4, Zenon
<1>7. SessionsWellFormed'
  BY <1>2, <1>4, <1>5, <1>6 DEF SessionsWellFormed
<1>8. FullIsFinal'
  BY <1>2, <1>4, <1>5 DEF FullIsFinal, SessionsWellFormed
<1>9. SharesFromFull' /\ KeyMatchesShare'
  BY <1>2, <1>3, <1>4, SharesStay, Zenon
<1>10. (KeyWithShare /\ OneSessionWithoutShare /\ DealersAreOthers)'
  BY <1>2, <1>3, <1>4 DEF shareVars, taskVars, KeyWithShare, OneSessionWithoutShare,
     DealersAreOthers
<1>11. (SessionRoles /\ SealedKeepsMaster)'
  BY <1>2, <1>3, <1>4, <1>5 DEF shareVars, SessionRoles, SealedKeepsMaster
<1>. QED
  BY <1>1, <1>7, <1>8, <1>9, <1>10, <1>11, Zenon

(* A task that leaves its session waits for none, other tasks are not disturbed. *)
LEMMA TaskEnds ==
    ASSUME IInv, NEW n \in Node, NEW s \in Session, NEW to, EndTask(n, s, to)
    PROVE  \A m \in Node : /\ pc'[m] # "session" => mine'[m] = None
                           /\ mine'[m] = mine[m] \/ (m = n /\ mine[m] = s)
<1>1. CASE mine[n] = s
  BY <1>1, Zenon DEF IInv, EndTask, TypeOK, OneSessionWithoutShare
<1>2. CASE mine[n] # s
  BY <1>2, Zenon DEF IInv, EndTask, OneSessionWithoutShare
<1>. QED
  BY <1>1, <1>2, Zenon

(* A member leaves its session without a new share. *)
LEMMA LeaveStep ==
    ASSUME IInv, NEW n \in Node, NEW s \in Session,
           DealerDecline(n, s) \/ TimeOut(n, s) \/ GuardAbort(n, s)
    PROVE  IInv'
<1>. USE DEF IInv
<1>1. TypeOK'
  BY TypeSession, Zenon DEF SessionStep
<1>2. part[s][n] \in {"invited", "running"}
  BY Zenon DEF DealerDecline, TimeOut, GuardAbort
<1>3. /\ UNCHANGED <<shareVars, session, snap>>
      /\ part' = [part EXCEPT ![s][n] = "left"]
  BY Zenon DEF DealerDecline, TimeOut, GuardAbort, taskVars
<1>4. /\ \A t \in Session, m \in Node : t # s \/ m # n => part'[t][m] = part[t][m]
      /\ part'[s][n] = "left"
  BY <1>3, Zenon DEF TypeOK
<1>5. \A m \in Node : /\ pc'[m] # "session" => mine'[m] = None
                      /\ mine'[m] = mine[m] \/ (m = n /\ mine[m] = s)
  <2>1. (UNCHANGED <<pc, mine>>) \/ EndTask(n, s, Resume(n))
    BY Zenon DEF DealerDecline, TimeOut, GuardAbort, taskVars
  <2>. QED
    BY <2>1, TaskEnds, Zenon DEF OneSessionWithoutShare
<1>6. (SessionsWellFormed /\ FullIsFinal)'
  BY <1>2, <1>3, <1>4 DEF SessionsWellFormed, FullIsFinal
<1>7. SharesFromFull' /\ KeyMatchesShare'
  BY <1>3, SharesStay, Zenon
<1>8. (DealersAreOthers /\ SessionRoles /\ SealedKeepsMaster)'
  BY <1>3, <1>4 DEF shareVars, DealersAreOthers, SessionRoles, SealedKeepsMaster, Active
<1>9. OneSessionWithoutShare'
  BY <1>3, <1>4, <1>5, Zenon DEF shareVars, OneSessionWithoutShare, Active
<1>10. KeyWithShare'
  <2>1. ASSUME NEW m \in Node, mine[m] \in Session, part[mine[m]][m] = "keyed"
        PROVE  mine'[m] = mine[m] /\ part'[mine[m]][m] = "keyed"
    <3>1. ~(m = n /\ mine[m] = s)
      BY <1>2, <2>1
    <3>. QED
      BY <1>4, <1>5, <2>1, <3>1, Zenon
  <2>. QED
    BY <1>3, <2>1, Zenon DEF shareVars, KeyWithShare
<1>. QED
  BY <1>1, <1>6, <1>7, <1>8, <1>9, <1>10, Zenon

(* The first half of store_share: the guard has compared the master. *)
LEMMA FinishStep ==
    ASSUME IInv, NEW n \in Node, NEW s \in Session, Finish(n, s)
    PROVE  IInv'
<1>. USE DEF IInv
<1>1. TypeOK'
  BY TypeSession, Zenon DEF SessionStep
<1>2. /\ UNCHANGED <<taskVars, shard, group_pubkey, session>>
      /\ part[s][n] = "running" /\ session[s].full
  BY Zenon DEF Finish
<1>3. /\ \A t \in Session, m \in Node : t # s \/ m # n => part'[t][m] = part[t][m]
      /\ part'[s][n] = "sealed"
  BY Zenon DEF Finish, TypeOK
<1>4. /\ \A m \in Node \ {n} : sealed'[m] = sealed[m]
      /\ \/ sealed'[n] = sealed[n]
         \/ sealed'[n].poly = s /\ sealed'[n].master = session[s].master
  BY DEF Finish, TypeOK
<1>5. (SessionsWellFormed /\ FullIsFinal)'
  BY <1>2, <1>3 DEF SessionsWellFormed, FullIsFinal
<1>6. (SharesFromFull /\ KeyMatchesShare)'
  BY <1>2, <1>4 DEF SharesFromFull, KeyMatchesShare
<1>7. (KeyWithShare /\ OneSessionWithoutShare /\ DealersAreOthers /\ SessionRoles)'
  <2>1. \A t \in Session, m \in Node :
           /\ part'[t][m] \in Active <=> part[t][m] \in Active
           /\ part'[t][m] = "invited" <=> part[t][m] = "invited"
           /\ part'[t][m] = "out" <=> part[t][m] = "out"
    BY <1>2, <1>3, Zenon DEF Active
  <2>2. KeyWithShare'
    BY <1>2, <1>3, Zenon DEF taskVars, KeyWithShare, TypeOK
  <2>3. OneSessionWithoutShare'
    BY <1>2, <2>1, Zenon DEF taskVars, OneSessionWithoutShare
  <2>4. DealersAreOthers'
    BY <1>2, <2>1, Zenon DEF taskVars, DealersAreOthers
  <2>5. SessionRoles'
    BY <1>2, <2>1, Zenon DEF SessionRoles
  <2>. QED
    BY <2>2, <2>3, <2>4, <2>5, Zenon
<1>8. SealedKeepsMaster'
  BY <1>2, <1>3 DEF Finish, KeepsMaster, SealedKeepsMaster, SessionRoles, KeyWithShare,
     OneSessionWithoutShare, Active
<1>. QED
  BY <1>1, <1>5, <1>6, <1>7, <1>8, Zenon

(* If several sessions of a node are inside store_share, they agree on the
   master: the node knew it before, or they are the same session. *)
LEMMA KeyedStep ==
    ASSUME IInv, NEW n \in Node, NEW s \in Session, StoreKey(n, s)
    PROVE  IInv'
<1>. USE DEF IInv
<1>1. TypeOK'
  BY TypeSession, Zenon DEF SessionStep
<1>2. /\ UNCHANGED <<taskVars, session, shard, sealed>>
      /\ part[s][n] = "sealed" /\ session[s].full /\ session[s].master \in Session
  BY Zenon DEF StoreKey, FullIsFinal, SessionsWellFormed
<1>3. /\ \A t \in Session, m \in Node : t # s \/ m # n => part'[t][m] = part[t][m]
      /\ part'[s][n] = "keyed"
  BY Zenon DEF StoreKey, TypeOK
<1>4. /\ \A m \in Node \ {n} : group_pubkey'[m] = group_pubkey[m]
      /\ group_pubkey'[n] = session[s].master /\ group_pubkey'[n] # None
      /\ group_pubkey[n] \in {None, session[s].master}
  BY <1>2, SentinelAssumption, Zenon DEF StoreKey, TypeOK, SealedKeepsMaster
<1>5. (SessionsWellFormed /\ FullIsFinal)'
  BY <1>2, <1>3 DEF SessionsWellFormed, FullIsFinal
<1>6. (SharesFromFull /\ KeyMatchesShare)'
  BY <1>2, <1>4 DEF SharesFromFull, KeyMatchesShare, KeyWithShare
<1>7. (OneSessionWithoutShare /\ DealersAreOthers /\ SessionRoles)'
  <2>1. \A t \in Session, m \in Node :
           /\ part'[t][m] \in Active <=> part[t][m] \in Active
           /\ part'[t][m] = "invited" <=> part[t][m] = "invited"
    BY <1>2, <1>3, Zenon DEF Active
  <2>2. OneSessionWithoutShare'
    BY <1>2, <2>1, Zenon DEF taskVars, OneSessionWithoutShare
  <2>3. DealersAreOthers'
    BY <1>2, Zenon DEF taskVars, DealersAreOthers
  <2>4. SessionRoles'
    BY <1>2, <2>1, Zenon DEF SessionRoles
  <2>. QED
    BY <2>2, <2>3, <2>4, Zenon
<1>8. KeyWithShare'
  <2>1. shard[n] = None => mine[n] = s
    BY <1>2, Zenon DEF OneSessionWithoutShare, Active
  <2>. QED
    BY <1>2, <1>3, <1>4, <2>1, Zenon DEF taskVars, KeyWithShare
<1>9. \A t \in Session \ {s} : part[t][n] \in Active => group_pubkey[n] # None
  BY <1>2, Zenon DEF OneSessionWithoutShare, KeyWithShare, Active
<1>10. SealedKeepsMaster'
  BY <1>2, <1>3, <1>4, <1>9 DEF SealedKeepsMaster, Active
<1>. QED
  BY <1>1, <1>5, <1>6, <1>7, <1>8, <1>10, Zenon

(* The share that store_share writes is of the key it has written before, and
   that key is still there. *)
LEMMA StoreStep ==
    ASSUME IInv, NEW n \in Node, NEW s \in Session, StoreShare(n, s)
    PROVE  IInv'
<1>. USE DEF IInv
<1>1. TypeOK'
  BY TypeSession, Zenon DEF SessionStep
<1>2. /\ UNCHANGED <<session, sealed, snap, group_pubkey>>
      /\ part[s][n] = "keyed" /\ session[s].full /\ session[s].master \in Session
      /\ group_pubkey[n] = session[s].master
  BY Zenon DEF StoreShare, FullIsFinal, SessionsWellFormed, SealedKeepsMaster
<1>3. /\ \A t \in Session, m \in Node : t # s \/ m # n => part'[t][m] = part[t][m]
      /\ part'[s][n] = "done"
  BY Zenon DEF StoreShare, TypeOK
<1>4. /\ \A m \in Node \ {n} : shard'[m] = shard[m]
      /\ shard'[n].poly = s /\ shard'[n] # None /\ group_pubkey[n] # None
  <2>1. shard' = [shard EXCEPT ![n] = [poly |-> s, epoch |-> session[s].epoch]]
    BY Zenon DEF StoreShare
  <2>2. [poly |-> s, epoch |-> session[s].epoch] \in Share
    BY Zenon DEF TypeOK, Sessions, Share
  <2>. QED
    BY <1>2, <2>1, <2>2, SentinelAssumption, Zenon DEF TypeOK
<1>5. \A m \in Node : /\ pc'[m] # "session" => mine'[m] = None
                      /\ mine'[m] = mine[m] \/ (m = n /\ mine[m] = s)
  BY TaskEnds, Zenon DEF StoreShare
<1>6. (SessionsWellFormed /\ FullIsFinal /\ DealersAreOthers)'
  BY <1>2, <1>3 DEF SessionsWellFormed, FullIsFinal, DealersAreOthers
<1>7. (SharesFromFull /\ KeyMatchesShare)'
  BY <1>2, <1>4 DEF SharesFromFull, KeyMatchesShare
<1>8. (OneSessionWithoutShare /\ KeyWithShare)'
  <2>1. OneSessionWithoutShare'
    BY <1>3, <1>4, <1>5 DEF OneSessionWithoutShare, Active
  <2>2. KeyWithShare'
    <3>1. ASSUME NEW m \in Node, m # n, mine[m] \in Session, part[mine[m]][m] = "keyed"
          PROVE  mine'[m] = mine[m] /\ part'[mine[m]][m] = "keyed"
      BY <1>3, <1>5, <3>1, Zenon
    <3>. QED
      BY <1>2, <1>4, <3>1, Zenon DEF KeyWithShare
  <2>. QED
    BY <2>1, <2>2, Zenon
<1>9. \A t \in Session \ {s} : part[t][n] \in Active => shard[n] # None
  BY <1>2, Zenon DEF OneSessionWithoutShare, Active
<1>10. SessionRoles'
  <2>1. SUFFICES ASSUME NEW t \in Session, NEW m \in Node
                 PROVE  /\ part'[t][m] \in Active
                           => /\ session[t].kind = "genesis" => shard'[m] = None
                              /\ m \in session[t].dealers => shard'[m] # None
                        /\ part'[t][m] = "invited" => session[t].kind # "genesis"
    BY <1>2, Zenon DEF SessionRoles
  <2>2. CASE t = s /\ m = n
    BY <1>3, <2>2, Zenon DEF Active
  <2>3. CASE t # s /\ m = n
    BY <1>3, <1>4, <1>9, <2>3 DEF SessionRoles
  <2>4. CASE m # n
    BY <1>3, <1>4, <2>4 DEF SessionRoles
  <2>. QED
    BY <2>2, <2>3, <2>4, Zenon
<1>11. SealedKeepsMaster'
  BY <1>2, <1>3 DEF SealedKeepsMaster
<1>. QED
  BY <1>1, <1>6, <1>7, <1>8, <1>10, <1>11, Zenon

(* A crash takes the node out of all its sessions. *)
LEMMA CrashStep ==
    ASSUME IInv, NEW n \in Node, Crash(n)
    PROVE  IInv'
<1>. USE DEF IInv
<1>1. TypeOK'
  BY TypeOther, Zenon
<1>2. /\ UNCHANGED session
      /\ \A m \in Node \ {n} :
            /\ shard'[m] = shard[m] /\ group_pubkey'[m] = group_pubkey[m]
            /\ sealed'[m] = sealed[m] /\ pc'[m] = pc[m] /\ mine'[m] = mine[m]
            /\ \A t \in Session : part'[t][m] = part[t][m]
  BY DEF Crash, TypeOK
<1>3. /\ shard'[n] = None /\ group_pubkey'[n] = None /\ mine'[n] = None
      /\ sealed'[n] \in {sealed[n], None}
  BY Zenon DEF Crash, TypeOK
<1>4. \A t \in Session : /\ part'[t][n] \notin Active \cup {"invited"}
                         /\ part'[t][n] = "out" <=> part[t][n] = "out"
                         /\ part'[t][n] = "done" => part[t][n] = "done"
  BY Zenon DEF Crash, TypeOK, Active
<1>5. DealersAreOthers'
  BY ResetSnap, Zenon DEF Crash
<1>6. (SessionsWellFormed /\ FullIsFinal)'
  BY <1>2, <1>4 DEF SessionsWellFormed, FullIsFinal, Active
<1>7. (SharesFromFull /\ KeyMatchesShare /\ KeyWithShare)'
  BY <1>2, <1>3 DEF SharesFromFull, KeyMatchesShare, KeyWithShare
<1>8. (OneSessionWithoutShare /\ SessionRoles /\ SealedKeepsMaster)'
  BY <1>2, <1>3, <1>4 DEF OneSessionWithoutShare, SessionRoles, SealedKeepsMaster, Active
<1>. QED
  BY <1>1, <1>5, <1>6, <1>7, <1>8, Zenon

(* IInv is inductive: one lemma above per group of actions. *)
THEOREM IInvNext == IInv /\ [Next]_vars => IInv'
<1>. SUFFICES ASSUME IInv, [Next]_vars PROVE IInv'
  BY Zenon
<1>1. CASE UNCHANGED vars
  <2>1. TypeOK' /\ DealersAreOthers' /\ UNCHANGED <<shareVars, sessionVars, mine>>
    BY <1>1, Zenon DEF IInv, vars, TypeOK, DealersAreOthers, shareVars, sessionVars
  <2>2. \A n \in Node : pc'[n] # "session" => mine[n] = None
    BY <1>1, Zenon DEF IInv, vars, OneSessionWithoutShare
  <2>. QED
    BY <2>1, <2>2, QuietStep, Zenon
<1>2. ASSUME NEW n \in Node, TaskStep(n)
      PROVE  IInv'
  BY <1>2, QuietTask, ReloadStep, GenesisStep, RecoveryStep, Zenon DEF TaskStep
<1>3. ASSUME NEW n \in Node, NEW s \in Session, SessionStep(n, s)
      PROVE  IInv'
  BY <1>3, JoinStep, LeaveStep, FinishStep, KeyedStep, StoreStep, Zenon DEF SessionStep
<1>4. ASSUME NEW n \in Node,
             \/ \E s \in Session : TriggerRefresh(n, s)
             \/ \E d \in Node : Gossip(n, d)
             \/ Crash(n) \/ Restart(n)
      PROVE  IInv'
  BY <1>4, RefreshStep, QuietOther, CrashStep, Zenon
<1>. QED
  BY <1>1, <1>2, <1>3, <1>4, Zenon DEF Next

(* The inductive invariant holds in every reachable state. *)
THEOREM IInvAlways == Spec => []IInv
BY IInvInit, IInvNext, PTL DEF Spec

(* Every reachable state is well typed: in particular no node ever reads a
   share, a key or a sealed record that was not produced by a session. *)
THEOREM TypeCorrect == Spec => []TypeOK
BY IInvAlways, PTL DEF IInv

(* store_share and try_reload_sealed always leave a node with the group pubkey
   of the polynomial its share is on, however its sessions interleave. *)
THEOREM KeyAlwaysMatches == Spec => []KeyMatchesShare
BY IInvAlways, PTL DEF IInv

(* A group pubkey is the master of a complete session that the node holds the
   share of, or is about to. *)
KeySourced ==
    \A n \in Node : group_pubkey[n] # None =>
       \E p \in Session :
          /\ session[p].full /\ session[p].master = group_pubkey[n]
          /\ (shard[n] # None /\ shard[n].poly = p) \/ part[p][n] = "keyed"

(* Every group pubkey comes from a session. *)
LEMMA KeySource == IInv => KeySourced
<1>. SUFFICES ASSUME IInv, NEW n \in Node, group_pubkey[n] # None
              PROVE  \E p \in Session :
                        /\ session[p].full /\ session[p].master = group_pubkey[n]
                        /\ (shard[n] # None /\ shard[n].poly = p) \/ part[p][n] = "keyed"
  BY Zenon DEF KeySourced
<1>1. CASE shard[n] # None
  BY <1>1, SharePoly, Zenon DEF IInv, SharesFromFull, KeyMatchesShare
<1>2. CASE shard[n] = None
  BY <1>2, Zenon DEF IInv, KeyWithShare, FullIsFinal, SealedKeepsMaster
<1>. QED
  BY <1>1, <1>2, Zenon

----------------------------------------------------------------------------
(* Action properties *)

(* Only try_reload_sealed, store_share and a crash write the group pubkey. *)
LEMMA KeyChanges ==
    ASSUME [Next]_vars
    PROVE  \/ UNCHANGED group_pubkey
           \/ \E n \in Node : \/ ReloadSealed(n) \/ Crash(n)
                              \/ \E s \in Session : StoreKey(n, s)
<1>1. ASSUME NEW n \in Node, TaskStep(n)
      PROVE  ReloadSealed(n) \/ UNCHANGED group_pubkey
  BY <1>1, Zenon DEF TaskStep, shareVars, SkipReload, Assemble, WatchCatchUp, WaitForAll,
     RunGenesis, StartRecovery, GiveUpRecovery, WatchInStep, WatchBehind
<1>2. ASSUME NEW n \in Node, NEW s \in Session, SessionStep(n, s)
      PROVE  StoreKey(n, s) \/ UNCHANGED group_pubkey
  BY <1>2, Zenon DEF SessionStep, shareVars, DealerJoin, DealerDecline, TimeOut, GuardAbort,
     Finish, StoreShare
<1>. QED
  BY <1>1, <1>2, Zenon DEF vars, Next, shareVars, TriggerRefresh, Gossip, Restart

(* No step replaces a known group pubkey by another one. *)
LEMMA KeyStep ==
    ASSUME IInv, [Next]_vars, NEW n \in Node,
           group_pubkey[n] # None, group_pubkey'[n] # None
    PROVE  group_pubkey'[n] = group_pubkey[n]
<1>1. ASSUME NEW m \in Node, ReloadSealed(m)
      PROVE  group_pubkey'[n] = group_pubkey[n]
  <2>1. mine[m] = None /\ shard[m] = None /\ mine[m] \notin Session
    BY <1>1, SentinelAssumption, Zenon DEF IInv, ReloadSealed, OneSessionWithoutShare
  <2>. QED
    BY <1>1, <2>1, Zenon DEF IInv, TypeOK, ReloadSealed, KeyWithShare
<1>2. ASSUME NEW m \in Node, Crash(m)
      PROVE  group_pubkey'[n] = group_pubkey[n]
  BY <1>2, Zenon DEF IInv, TypeOK, Crash
<1>3. ASSUME NEW m \in Node, NEW s \in Session, StoreKey(m, s)
      PROVE  group_pubkey'[n] = group_pubkey[n]
  BY <1>3, Zenon DEF IInv, TypeOK, StoreKey, SealedKeepsMaster
<1>. QED
  BY <1>1, <1>2, <1>3, KeyChanges, Zenon

(* The guards of run_reshare_recovery and run_reshare_dealer, checked before
   store_share, are enough: a live process never changes its group pubkey. *)
THEOREM MasterNeverChanges == Spec => MasterStable
<1>1. IInv /\ [Next]_vars =>
         [\A n \in Node : group_pubkey[n] # None /\ group_pubkey'[n] # None
                             => group_pubkey'[n] = group_pubkey[n]]_vars
  BY KeyStep, Zenon
<1>. QED
  BY <1>1, IInvAlways, PTL DEF Spec, MasterStable

(* Only joining or opening a session changes what it is about. *)
LEMMA SessionChanges ==
    ASSUME [Next]_vars
    PROVE  \/ UNCHANGED session
           \/ \E n \in Node, s \in Session :
                 \/ RunGenesis(n, s) \/ StartRecovery(n, s)
                 \/ TriggerRefresh(n, s) \/ DealerJoin(n, s)
<1>1. ASSUME NEW n \in Node, TaskStep(n)
      PROVE  \/ UNCHANGED session
             \/ \E s \in Session : RunGenesis(n, s) \/ StartRecovery(n, s)
  BY <1>1, Zenon DEF TaskStep, sessionVars, ReloadSealed, SkipReload, Assemble, WatchCatchUp,
     WaitForAll, GiveUpRecovery, WatchInStep, WatchBehind
<1>2. ASSUME NEW n \in Node, NEW s \in Session, SessionStep(n, s)
      PROVE  DealerJoin(n, s) \/ UNCHANGED session
  BY <1>2, Zenon DEF SessionStep, DealerDecline, TimeOut, GuardAbort, Finish, StoreKey,
     StoreShare
<1>. QED
  BY <1>1, <1>2, Zenon DEF vars, Next, sessionVars, Gossip, Crash, Restart

(* The step that completes a genesis finds no share and no key anywhere. *)
LEMMA GenesisOpens ==
    ASSUME IInv, [Next]_vars, NEW s \in Session,
           session'[s].kind = "genesis", session'[s].full, ~session[s].full
    PROVE  \A n \in Node : shard[n] = None /\ group_pubkey[n] = None
<1>1. ASSUME NEW n \in Node, NEW t \in Session, RunGenesis(n, t)
      PROVE  \A m \in Node : shard[m] = None /\ group_pubkey[m] = None
  <2>1. t = s
    BY <1>1, Zenon DEF RunGenesis, IInv, TypeOK
  <2>2. shard[n] = None /\ \A m \in Node \ {n} : part[s][m] = "running"
    BY <1>1, <2>1, Zenon DEF RunGenesis, GenesisComplete, IInv, TypeOK, Peers
  <2>3. Node = {n} \/ session[s].kind = "genesis"
    BY <1>1, <2>1, <2>2, Zenon DEF RunGenesis, OpenGenesis, IInv, SessionsWellFormed
  <2>4. \A m \in Node : shard[m] = None
    BY <2>2, <2>3, Zenon DEF IInv, SessionRoles, Active
  <2>5. mine[n] \notin Session /\ \A m \in Node \ {n} : mine[m] = s
    BY <1>1, <2>2, <2>4, SentinelAssumption, Zenon
       DEF RunGenesis, IInv, OneSessionWithoutShare, Active
  <2>. QED
    BY <2>2, <2>4, <2>5 DEF IInv, KeyWithShare
<1>2. ASSUME NEW n \in Node, NEW t \in Session,
             StartRecovery(n, t) \/ TriggerRefresh(n, t)
      PROVE  FALSE
  BY <1>2, SMTT(30) DEF StartRecovery, TriggerRefresh, IInv, TypeOK
<1>3. ASSUME NEW n \in Node, NEW t \in Session, DealerJoin(n, t)
      PROVE  FALSE
  BY <1>3 DEF DealerJoin, IInv, TypeOK, Sessions, SessionRoles
<1>. QED
  BY <1>1, <1>2, <1>3, SessionChanges, Zenon

(* join_cluster's probe can miss the holders, but a genesis needs every node,
   and no holder joins one: a new master never appears beside a held one. *)
THEOREM GenesisNeverOverHolders == Spec => NoGenesisOverHolders
<1>1. IInv /\ [Next]_vars =>
         [\A s \in Session :
             session'[s].kind = "genesis" /\ session'[s].full /\ ~session[s].full
                => \A n \in Node : shard[n] = None]_vars
  BY GenesisOpens, Zenon
<1>. QED
  BY <1>1, IInvAlways, PTL DEF Spec, NoGenesisOverHolders

----------------------------------------------------------------------------
(* Epochs *)

(* A step that opens or joins a session leaves the other sessions alone. *)
LEMMA OtherSessions ==
    ASSUME TypeOK, NEW n \in Node, NEW s \in Session, NEW t \in Session \ {s},
           \/ RunGenesis(n, s) \/ StartRecovery(n, s)
           \/ TriggerRefresh(n, s) \/ DealerJoin(n, s)
    PROVE  session'[t] = session[t] /\ part'[t] = part[t]
<1>1. /\ \E x : session' = [session EXCEPT ![s] = x]
      /\ \E x : part' = [part EXCEPT ![s] = x]
  BY Zenon DEF RunGenesis, StartRecovery, TriggerRefresh, DealerJoin
<1>2. session \in [Session -> Sessions] /\ part \in [Session -> [Node -> Parts]]
  BY Zenon DEF TypeOK
<1>. QED
  BY <1>1, <1>2

(* What a node's genesis, recovery and refresh open. *)
LEMMA GenesisRecord ==
    ASSUME TypeOK, NEW n \in Node, NEW s \in Session, RunGenesis(n, s)
    PROVE  session'[s].kind = "genesis" /\ session'[s].master = s
           /\ session'[s].epoch = GENESIS_EPOCH
BY DEF RunGenesis, TypeOK

LEMMA RecoveryRecord ==
    ASSUME TypeOK, NEW n \in Node, NEW s \in Session, StartRecovery(n, s)
    PROVE  /\ session'[s].kind = "recovery" /\ ~session'[s].full /\ session'[s].base = None
           /\ session'[s].dealers = snap[n].dealers
           /\ session'[s].members = snap[n].dealers \cup {n}
           /\ snap[n].dealers \subseteq Node
           /\ \A m \in Node \ {n} : part'[s][m] \in {"invited", "out"}
BY DEF StartRecovery, TypeOK

LEMMA RefreshRecord ==
    ASSUME TypeOK, NEW n \in Node, NEW s \in Session, TriggerRefresh(n, s)
    PROVE  /\ session'[s].kind = "refresh" /\ ~session'[s].full /\ session'[s].base = None
           /\ session'[s].dealers = Node /\ session'[s].members = Node
           /\ \A m \in Node : part'[s][m] = "invited"
BY DEF TriggerRefresh, TypeOK

(* A session that is full is never changed again. *)
LEMMA FullStays ==
    ASSUME IInv, [Next]_vars, NEW t \in Session, session[t].full
    PROVE  session'[t] = session[t]
<1>1. ASSUME NEW n \in Node, NEW s \in Session,
             \/ RunGenesis(n, s) \/ StartRecovery(n, s)
             \/ TriggerRefresh(n, s) \/ DealerJoin(n, s)
      PROVE  s # t /\ session'[t] = session[t]
  <2>1. s # t
    BY <1>1, Zenon DEF IInv, SessionsWellFormed, FullIsFinal, RunGenesis, OpenGenesis,
       StartRecovery, TriggerRefresh, DealerJoin
  <2>. QED
    BY <1>1, <2>1, OtherSessions, Zenon DEF IInv
<1>. QED
  BY <1>1, SessionChanges, Zenon

(* The steps that matter to the group-pubkey guard. *)
LEMMA GuardChanges ==
    ASSUME [Next]_vars
    PROVE  \/ UNCHANGED <<session, part, group_pubkey>>
           \/ \E n \in Node : ReloadSealed(n) \/ Crash(n)
           \/ \E n \in Node, s \in Session :
                 \/ SessionStep(n, s)
                 \/ RunGenesis(n, s) \/ StartRecovery(n, s) \/ TriggerRefresh(n, s)
<1>1. ASSUME NEW n \in Node, TaskStep(n)
      PROVE  \/ UNCHANGED <<session, part, group_pubkey>> \/ ReloadSealed(n)
             \/ \E s \in Session : RunGenesis(n, s) \/ StartRecovery(n, s)
  BY <1>1, Zenon DEF TaskStep, shareVars, sessionVars, SkipReload, Assemble, WatchCatchUp,
     WaitForAll, GiveUpRecovery, WatchInStep, WatchBehind
<1>2. ASSUME NEW n \in Node, Restart(n) \/ \E d \in Node : Gossip(n, d)
      PROVE  UNCHANGED <<session, part, group_pubkey>>
  BY <1>2, Zenon DEF shareVars, sessionVars, Gossip, Restart
<1>3. ASSUME UNCHANGED vars
      PROVE  UNCHANGED <<session, part, group_pubkey>>
  BY <1>3, Zenon DEF vars
<1>. QED
  BY <1>1, <1>2, <1>3, Zenon DEF Next

(* Every share, in memory or sealed, has the epoch of its session. *)
SharesTagged ==
    \A n \in Node :
       /\ shard[n] # None => shard[n].epoch = session[shard[n].poly].epoch
       /\ sealed[n] # None => sealed[n].epoch = session[sealed[n].poly].epoch

(* e is the epoch of a session that has completed. *)
Completed(e) == \E t \in Session : session[t].full /\ session[t].epoch = e

(* Gossip tells only of epochs whose sessions have completed. *)
TablesHonest ==
    \A n, m \in Node : peer_table[n][m] > 0 => Completed(peer_table[n][m])

(* A genesis has the first epoch.  A reshare has the one after an epoch that
   is complete, or the first one if its starter knew none; but that one cannot
   complete, as its dealers hold shares. *)
EpochsOfSessions ==
    \A s \in Session :
       /\ session[s].kind = "genesis" => session[s].epoch = GENESIS_EPOCH
       /\ session[s].kind \in Reshares =>
             \/ session[s].epoch = 1 /\ ~session[s].full
             \/ \E e \in Nat : e > 0 /\ Completed(e) /\ session[s].epoch = e + 1

EInv == IInv /\ SharesTagged /\ TablesHonest /\ EpochsOfSessions

(* The epoch of a complete session is positive, and so is that of every share. *)
LEMMA EpochsPositive ==
    ASSUME EInv
    PROVE  /\ \A s \in Session : session[s].full => session[s].epoch > 0
           /\ \A n \in Node : shard[n] # None =>
                 shard[n].epoch > 0 /\ Completed(shard[n].epoch)
<1>. USE DEF EInv, IInv
<1>1. ASSUME NEW s \in Session, session[s].full
      PROVE  session[s].epoch > 0
  <2>1. session[s].kind \in {"genesis"} \cup Reshares
    BY <1>1, Zenon DEF TypeOK, Sessions, Reshares, SessionsWellFormed
  <2>. QED
    BY <1>1, <2>1 DEF EpochsOfSessions, GENESIS_EPOCH
<1>2. ASSUME NEW n \in Node, shard[n] # None
      PROVE  shard[n].epoch > 0 /\ Completed(shard[n].epoch)
  <2>1. shard[n].poly \in Session /\ session[shard[n].poly].full
    BY <1>2, SharePoly, Zenon DEF SharesFromFull
  <2>. QED
    BY <1>1, <1>2, <2>1, Zenon DEF SharesTagged, Completed
<1>. QED
  BY <1>1, <1>2, Zenon

(* An epoch that is complete stays complete. *)
LEMMA CompletedStays ==
    ASSUME IInv, [Next]_vars
    PROVE  \A e : Completed(e) => \E t \in Session : session'[t].full /\ session'[t].epoch = e
BY FullStays, Zenon DEF Completed

(* Whatever epoch a node knows is 0 or complete. *)
LEMMA KnownCompleted ==
    ASSUME EInv, NEW n \in Node, NEW e \in KnownEpochs(n)
    PROVE  e \in Nat /\ (e > 0 => Completed(e))
<1>. USE DEF EInv, IInv
<1>1. e \in Nat
  BY KnownEpochsNat, Zenon
<1>2. CASE e = OwnEpoch(n)
  BY <1>1, <1>2, EpochsPositive DEF OwnEpoch
<1>3. ASSUME NEW m \in Peers(n), e = peer_table[n][m]
      PROVE  e > 0 => Completed(e)
  BY <1>3, Zenon DEF TablesHonest, Peers
<1>. QED
  BY <1>1, <1>2, <1>3, Zenon DEF KnownEpochs

(* The steps that write a share. *)
LEMMA ShareChanges ==
    ASSUME [Next]_vars
    PROVE  \/ UNCHANGED <<shard, sealed>>
           \/ \E n \in Node : ReloadSealed(n) \/ Crash(n)
           \/ \E n \in Node, s \in Session : Finish(n, s) \/ StoreShare(n, s)
<1>1. ASSUME NEW n \in Node, TaskStep(n)
      PROVE  ReloadSealed(n) \/ UNCHANGED <<shard, sealed>>
  BY <1>1, Zenon DEF TaskStep, shareVars, SkipReload, Assemble, WatchCatchUp, WaitForAll,
     RunGenesis, StartRecovery, GiveUpRecovery, WatchInStep, WatchBehind
<1>2. ASSUME NEW n \in Node, NEW s \in Session, SessionStep(n, s)
      PROVE  Finish(n, s) \/ StoreShare(n, s) \/ UNCHANGED <<shard, sealed>>
  BY <1>2, Zenon DEF SessionStep, shareVars, DealerJoin, DealerDecline, TimeOut, GuardAbort,
     StoreKey
<1>. QED
  BY <1>1, <1>2, Zenon DEF vars, Next, shareVars, TriggerRefresh, Gossip, Restart

(* A share that is new in memory or on disk is one that was on disk, or one of
   the session being stored. *)
LEMMA SharesWritten ==
    ASSUME IInv, [Next]_vars, NEW n \in Node
    PROVE  /\ shard'[n] # None =>
                 \/ shard'[n] = shard[n]
                 \/ /\ sealed[n] # None
                    /\ shard'[n] = [poly |-> sealed[n].poly, epoch |-> sealed[n].epoch]
                 \/ \E s \in Session :
                       /\ part'[s][n] = "done" /\ session[s].full
                       /\ shard'[n] = [poly |-> s, epoch |-> session[s].epoch]
           /\ sealed'[n] # None =>
                 \/ sealed'[n] = sealed[n]
                 \/ \E s \in Session :
                       /\ part'[s][n] = "sealed" /\ session[s].full
                       /\ sealed'[n] = [poly |-> s, epoch |-> session[s].epoch,
                                        master |-> session[s].master]
<1>. USE DEF IInv
<1>1. ASSUME NEW m \in Node, ReloadSealed(m)
      PROVE  /\ sealed' = sealed
             /\ shard'[n] # None =>
                 \/ shard'[n] = shard[n]
                 \/ /\ sealed[n] # None
                    /\ shard'[n] = [poly |-> sealed[n].poly, epoch |-> sealed[n].epoch]
  BY <1>1, Zenon DEF ReloadSealed, TypeOK
<1>2. ASSUME NEW m \in Node, Crash(m)
      PROVE  shard'[n] \in {shard[n], None} /\ sealed'[n] \in {sealed[n], None}
  BY <1>2, Zenon DEF Crash, TypeOK
<1>3. ASSUME NEW m \in Node, NEW s \in Session, Finish(m, s)
      PROVE  /\ shard' = shard
             /\ \/ sealed'[n] = sealed[n]
                \/ /\ part'[s][n] = "sealed" /\ session[s].full
                   /\ sealed'[n] = [poly |-> s, epoch |-> session[s].epoch,
                                    master |-> session[s].master]
  BY <1>3, Zenon DEF Finish, TypeOK
<1>4. ASSUME NEW m \in Node, NEW s \in Session, StoreShare(m, s)
      PROVE  /\ sealed' = sealed
             /\ \/ shard'[n] = shard[n]
                \/ /\ part'[s][n] = "done" /\ session[s].full
                   /\ shard'[n] = [poly |-> s, epoch |-> session[s].epoch]
  BY <1>4, Zenon DEF StoreShare, TypeOK, FullIsFinal
<1>. QED
  BY <1>1, <1>2, <1>3, <1>4, ShareChanges, Zenon

(* Shares keep the epoch of their session. *)
LEMMA TagStep ==
    ASSUME EInv, [Next]_vars
    PROVE  SharesTagged'
<1>. USE DEF EInv
<1>1. \A s \in Session : session[s].full => session'[s].epoch = session[s].epoch
  BY FullStays, Zenon
<1>2. ASSUME NEW n \in Node, sealed[n] # None
      PROVE  /\ sealed[n].poly \in Session
             /\ sealed[n].epoch = session'[sealed[n].poly].epoch
  BY <1>1, <1>2, SharePoly, Zenon DEF IInv, SharesFromFull, SharesTagged
<1>3. ASSUME NEW n \in Node, shard'[n] # None
      PROVE  shard'[n].epoch = session'[shard'[n].poly].epoch
  <2>1. CASE shard'[n] = shard[n]
    BY <1>1, <1>3, <2>1, SharePoly DEF IInv, SharesFromFull, SharesTagged
  <2>2. CASE /\ sealed[n] # None
             /\ shard'[n] = [poly |-> sealed[n].poly, epoch |-> sealed[n].epoch]
    BY <1>2, <2>2
  <2>3. ASSUME NEW s \in Session, session[s].full,
               shard'[n] = [poly |-> s, epoch |-> session[s].epoch]
        PROVE  shard'[n].epoch = session'[shard'[n].poly].epoch
    BY <1>1, <2>3
  <2>. QED
    BY <1>3, <2>1, <2>2, <2>3, SharesWritten, Zenon
<1>4. ASSUME NEW n \in Node, sealed'[n] # None
      PROVE  sealed'[n].epoch = session'[sealed'[n].poly].epoch
  <2>1. ASSUME NEW s \in Session, session[s].full,
               sealed'[n] = [poly |-> s, epoch |-> session[s].epoch,
                             master |-> session[s].master]
        PROVE  sealed'[n].epoch = session'[sealed'[n].poly].epoch
    BY <1>1, <2>1
  <2>2. CASE sealed'[n] = sealed[n]
    BY <1>2, <1>4, <2>2, Zenon
  <2>. QED
    BY <1>4, <2>1, <2>2, SharesWritten, Zenon
<1>. QED
  BY <1>3, <1>4, Zenon DEF SharesTagged

(* Only gossip and crashes write the tables. *)
LEMMA TableChanges ==
    ASSUME [Next]_vars
    PROVE  \/ UNCHANGED peer_table
           \/ \E n \in Node : Crash(n) \/ \E d \in Node : Gossip(n, d)
<1>1. ASSUME NEW n \in Node, TaskStep(n)
      PROVE  UNCHANGED peer_table
  BY <1>1, Zenon DEF TaskStep, ReloadSealed, SkipReload, Assemble, WatchCatchUp, WaitForAll,
     RunGenesis, StartRecovery, GiveUpRecovery, WatchInStep, WatchBehind
<1>2. ASSUME NEW n \in Node, NEW s \in Session, SessionStep(n, s)
      PROVE  UNCHANGED peer_table
  BY <1>2, Zenon DEF SessionStep, DealerJoin, DealerDecline, TimeOut, GuardAbort, Finish,
     StoreKey, StoreShare
<1>. QED
  BY <1>1, <1>2, Zenon DEF vars, Next, TriggerRefresh, Restart

(* A push tells the epoch of a share, an answer what others were told. *)
LEMMA TableStep ==
    ASSUME EInv, [Next]_vars
    PROVE  TablesHonest'
<1>. USE DEF EInv
<1>. DEFINE Later(e) == \E t \in Session : session'[t].full /\ session'[t].epoch = e
<1>0. TypeOK /\ \A e : Completed(e) => Later(e)
  BY CompletedStays, Zenon DEF IInv
<1>. HIDE DEF Later
<1>1. \A n, m \in Node : /\ peer_table[n][m] \in Nat \cup {Undiscovered}
                         /\ peer_table[n][m] > 0 => Later(peer_table[n][m])
  BY <1>0 DEF TablesHonest, TypeOK, Table
<1>2. \A n \in Node : /\ OwnEpoch(n) \in Nat
                      /\ OwnEpoch(n) > 0 => Later(OwnEpoch(n))
  BY <1>0, KnownEpochsNat, EpochsPositive DEF OwnEpoch
<1>3. ASSUME NEW c \in Node, NEW d \in Node, Gossip(c, d), NEW n \in Node, NEW m \in Node
      PROVE  \/ peer_table'[n][m] = peer_table[n][m]
             \/ peer_table'[n][m] = peer_table[d][m]
             \/ peer_table'[n][m] = OwnEpoch(c)
  <2>1. c # d /\ \/ peer_table' = [peer_table EXCEPT ![d][c] = OwnEpoch(c), ![c] = Merge(c, d)]
                 \/ peer_table' = [peer_table EXCEPT ![d][c] = OwnEpoch(c)]
    BY <1>3, Zenon DEF Gossip
  <2>2. Merge(c, d)[m] \in {peer_table[c][m], peer_table[d][m]}
    BY Zenon DEF Merge
  <2>3. peer_table'[n] \in {peer_table[n], [peer_table[d] EXCEPT ![c] = OwnEpoch(c)], Merge(c, d)}
        /\ (n # c => peer_table'[n] \in {peer_table[n], [peer_table[d] EXCEPT ![c] = OwnEpoch(c)]})
    BY <1>0, <2>1, Zenon DEF TypeOK
  <2>. QED
    BY <1>0, <2>1, <2>2, <2>3, Zenon DEF TypeOK, Table
<1>4. ASSUME NEW c \in Node, Crash(c), NEW n \in Node, NEW m \in Node
      PROVE  peer_table'[n][m] \in {peer_table[n][m], Undiscovered}
  BY <1>0, <1>4, Zenon DEF Crash, TypeOK
<1>5. \A n, m \in Node : peer_table'[n][m] > 0 => Later(peer_table'[n][m])
  <2>1. ASSUME NEW c \in Node, NEW d \in Node, Gossip(c, d), NEW n \in Node, NEW m \in Node,
               peer_table'[n][m] > 0
        PROVE  Later(peer_table'[n][m])
    BY <1>1, <1>2, <1>3, <2>1
  <2>2. ASSUME NEW c \in Node, Crash(c), NEW n \in Node, NEW m \in Node,
               peer_table'[n][m] > 0
        PROVE  Later(peer_table'[n][m])
    BY <1>1, <1>4, <2>2 DEF Undiscovered
  <2>. QED
    BY <1>1, <2>1, <2>2, TableChanges, Zenon
<1>. QED
  BY <1>5, Zenon DEF TablesHonest, Completed, Later

(* A reshare is opened for the epoch after one that is complete or none, and
   completed by dealers that hold shares of an earlier epoch. *)
LEMMA EpochStep ==
    ASSUME EInv, [Next]_vars
    PROVE  EpochsOfSessions'
<1>. USE DEF EInv
<1>0. TypeOK /\ \A e : Completed(e) => Completed(e)'
  BY CompletedStays, Zenon DEF IInv, Completed
<1>1. ASSUME NEW t \in Session, session'[t] = session[t]
      PROVE  /\ session'[t].kind = "genesis" => session'[t].epoch = GENESIS_EPOCH
             /\ session'[t].kind \in Reshares =>
                   \/ session'[t].epoch = 1 /\ ~session'[t].full
                   \/ \E e \in Nat : e > 0 /\ Completed(e)' /\ session'[t].epoch = e + 1
  BY <1>0, <1>1, Zenon DEF EpochsOfSessions
<1>2. ASSUME NEW n \in Node, NEW s \in Session, RunGenesis(n, s)
      PROVE  /\ \A t \in Session \ {s} : session'[t] = session[t]
             /\ session'[s].kind = "genesis" /\ session'[s].epoch = GENESIS_EPOCH
  BY <1>0, <1>2, Zenon DEF RunGenesis, TypeOK
<1>3. ASSUME NEW n \in Node, NEW s \in Session, StartRecovery(n, s) \/ TriggerRefresh(n, s)
      PROVE  /\ \A t \in Session \ {s} : session'[t] = session[t]
             /\ session'[s].kind \in Reshares /\ ~session'[s].full
             /\ \E e \in Nat : (e > 0 => Completed(e)') /\ session'[s].epoch = e + 1
  <2>1. /\ \A t \in Session \ {s} : session'[t] = session[t]
        /\ session'[s].kind \in Reshares /\ ~session'[s].full
        /\ \E e \in KnownEpochs(n) : session'[s].epoch = e + 1
    BY <1>0, <1>3 DEF StartRecovery, TriggerRefresh, KnownEpochs, TypeOK, Reshares
  <2>2. \A e \in KnownEpochs(n) : e \in Nat /\ (e > 0 => Completed(e)')
    BY <1>0, KnownCompleted, Zenon
  <2>. QED
    BY <2>1, <2>2, Zenon
<1>4. ASSUME NEW n \in Node, NEW s \in Session, DealerJoin(n, s)
      PROVE  /\ \A t \in Session \ {s} : session'[t] = session[t]
             /\ session'[s].kind = session[s].kind /\ session'[s].epoch = session[s].epoch
             /\ session[s].epoch > 1
  <2>1. /\ \A t \in Session \ {s} : session'[t] = session[t]
        /\ session'[s].kind = session[s].kind /\ session'[s].epoch = session[s].epoch
    BY <1>0, <1>4 DEF DealerJoin, TypeOK, Sessions
  <2>2. shard[n] # None /\ session[s].epoch > shard[n].epoch
    BY <1>4, Zenon DEF DealerJoin, CanDeal
  <2>3. shard[n].epoch \in Nat /\ session[s].epoch \in Nat /\ shard[n].epoch > 0
    BY <1>0, <2>2, EpochsPositive, Zenon DEF TypeOK, Share, Sessions
  <2>. QED
    BY <2>1, <2>2, <2>3
<1>5. ASSUME NEW n \in Node, NEW s \in Session, StartRecovery(n, s) \/ TriggerRefresh(n, s)
      PROVE  \/ session'[s].epoch = 1 /\ ~session'[s].full
             \/ \E e \in Nat : e > 0 /\ Completed(e)' /\ session'[s].epoch = e + 1
  <2>1. PICK e \in Nat : (e > 0 => Completed(e)') /\ session'[s].epoch = e + 1
    BY <1>3, <1>5, Zenon
  <2>. QED
    BY <1>3, <1>5, <2>1
<1>6. ASSUME NEW n \in Node, NEW s \in Session, DealerJoin(n, s), session[s].kind \in Reshares
      PROVE  \E e \in Nat : e > 0 /\ Completed(e)' /\ session'[s].epoch = e + 1
  BY <1>0, <1>4, <1>6 DEF EpochsOfSessions
<1>. QED
  BY <1>1, <1>2, <1>3, <1>4, <1>5, <1>6, SessionChanges DEF EpochsOfSessions, Reshares

(* known_epoch is told by rumours that outlive crashes, and two sessions can
   run at once, yet no epoch is ever skipped. *)
THEOREM EpochsNeverSkipped == Spec => []EpochsUnbroken
<1>1. Init => EInv
  <2>. SUFFICES ASSUME Init PROVE EInv
    BY Zenon
  <2>1. SharesTagged /\ TablesHonest /\ EpochsOfSessions
    BY DEF Init, Fresh, Blank, Undiscovered, SharesTagged, TablesHonest, EpochsOfSessions,
       Reshares
  <2>. QED
    BY <2>1, IInvInit, Zenon DEF EInv
<1>2. EInv /\ [Next]_vars => EInv'
  BY IInvNext, TagStep, TableStep, EpochStep, Zenon DEF EInv
<1>3. EInv => EpochsUnbroken
  <2>. SUFFICES ASSUME EInv, NEW s \in Session, session[s].full
                PROVE  \/ session[s].kind = "genesis" /\ session[s].epoch = GENESIS_EPOCH
                       \/ \E t \in Session : session[t].full /\ session[t].epoch + 1 = session[s].epoch
    BY Zenon DEF EpochsUnbroken
  <2>1. session[s].kind \in {"genesis"} \cup Reshares
    BY Zenon DEF EInv, IInv, TypeOK, Sessions, Reshares, SessionsWellFormed
  <2>. QED
    BY <2>1, Zenon DEF EInv, EpochsOfSessions, Completed
<1>. QED
  BY <1>1, <1>2, <1>3, PTL DEF Spec

----------------------------------------------------------------------------
(* When epochs are monotonic *)

(* The session a node is in is for a later epoch than that of its share. *)
AheadOfShare ==
    \A n \in Node, s \in Session :
       part[s][n] \in Active /\ shard[n] # None => session[s].epoch > shard[n].epoch

(* A node that is in one session only cannot be overtaken by another one of its
   own, so the check that was made before the session still holds after it. *)
LEMMA AheadStep ==
    ASSUME IInv, AheadOfShare, OneSessionEach, [Next]_vars
    PROVE  AheadOfShare'
<1>. USE DEF IInv
<1>0. TypeOK
  BY Zenon
<1>1. CASE UNCHANGED <<session, part, shard>>
  BY <1>1, Zenon DEF AheadOfShare
<1>2. ASSUME NEW m \in Node, ReloadSealed(m)
      PROVE  AheadOfShare'
  <2>1. /\ UNCHANGED <<session, part>> /\ shard[m] = None /\ mine[m] = None
        /\ \A n \in Node \ {m} : shard'[n] = shard[n]
    BY <1>0, <1>2, Zenon DEF ReloadSealed, sessionVars, OneSessionWithoutShare, TypeOK
  <2>2. \A s \in Session : part[s][m] \notin Active
    BY <2>1, SentinelAssumption, Zenon DEF OneSessionWithoutShare
  <2>. QED
    BY <2>1, <2>2, Zenon DEF AheadOfShare
<1>3. ASSUME NEW m \in Node, Crash(m)
      PROVE  AheadOfShare'
  <2>1. /\ UNCHANGED session /\ shard'[m] = None
        /\ \A n \in Node \ {m} : /\ shard'[n] = shard[n]
                                 /\ \A s \in Session : part'[s][n] = part[s][n]
    BY <1>0, <1>3, Zenon DEF Crash, TypeOK
  <2>. QED
    BY <2>1, Zenon DEF AheadOfShare
<1>4. ASSUME NEW m \in Node, NEW t \in Session,
             \/ RunGenesis(m, t) \/ StartRecovery(m, t)
             \/ TriggerRefresh(m, t) \/ DealerJoin(m, t)
      PROVE  AheadOfShare'
  <2>0. shard' = shard
    BY <1>4, Zenon DEF RunGenesis, StartRecovery, TriggerRefresh, DealerJoin, shareVars
  <2>1. \A s \in Session \ {t} : session'[s] = session[s] /\ part'[s] = part[s]
    BY <1>0, <1>4, OtherSessions, Zenon
  <2>2. ASSUME NEW n \in Node, n # m, part'[t][n] \in Active, shard[n] # None
        PROVE  session'[t].epoch > shard[n].epoch
    <3>1. ~RunGenesis(m, t)
      <4>1. ASSUME RunGenesis(m, t) PROVE part[t][n] \in Active /\ session[t].kind = "genesis"
        BY <1>0, <2>2, <4>1, Zenon DEF RunGenesis, OpenGenesis, TypeOK, SessionsWellFormed,
           Active
      <4>. QED
        BY <2>2, <4>1, Zenon DEF SessionRoles
    <3>2. ~StartRecovery(m, t) /\ ~TriggerRefresh(m, t)
      BY <1>0, <2>2, RecoveryRecord, RefreshRecord, Zenon DEF Active
    <3>3. part[t][n] = part'[t][n] /\ session'[t].epoch = session[t].epoch
      <4>1. DealerJoin(m, t)
        BY <1>4, <3>1, <3>2, Zenon
      <4>. QED
        BY <1>0, <2>2, <4>1, SMTT(30) DEF DealerJoin, TypeOK, Sessions
    <3>. QED
      BY <2>2, <3>3, Zenon DEF AheadOfShare
  <2>3. ASSUME part'[t][m] \in Active, shard[m] # None
        PROVE  session'[t].epoch > shard[m].epoch
    <3>1. CASE StartRecovery(m, t)
      <4>1. PICK e \in KnownEpochs(m) : IsKnownEpoch(m, e) /\ session'[t].epoch = e + 1
        BY <1>0, <3>1 DEF StartRecovery, TypeOK
      <4>2. e \in Nat /\ OwnEpoch(m) \in Nat /\ OwnEpoch(m) <= e /\ OwnEpoch(m) = shard[m].epoch
        BY <2>3, <4>1, KnownEpochsNat, Zenon DEF IsKnownEpoch, KnownEpochs, OwnEpoch
      <4>. QED
        BY <4>1, <4>2
    <3>2. CASE DealerJoin(m, t)
      <4>1. session'[t].epoch = session[t].epoch
        BY <1>0, <3>2, SMTT(30) DEF DealerJoin, TypeOK, Sessions
      <4>. QED
        BY <3>2, <4>1 DEF DealerJoin, CanDeal
    <3>3. ~RunGenesis(m, t) /\ ~TriggerRefresh(m, t)
      BY <1>0, <2>3 DEF RunGenesis, TriggerRefresh, TypeOK, Active
    <3>. QED
      BY <1>4, <3>1, <3>2, <3>3, Zenon
  <2>. QED
    BY <2>0, <2>1, <2>2, <2>3, Zenon DEF AheadOfShare
<1>5. ASSUME NEW m \in Node, NEW t \in Session,
             \/ DealerDecline(m, t) \/ TimeOut(m, t) \/ GuardAbort(m, t)
             \/ Finish(m, t) \/ StoreKey(m, t)
      PROVE  AheadOfShare'
  <2>1. UNCHANGED <<shard, session>>
    BY <1>5, Zenon DEF DealerDecline, TimeOut, GuardAbort, Finish, StoreKey, shareVars
  <2>2. \E x : /\ part' = [part EXCEPT ![t][m] = x]
               /\ x = "left" \/ part[t][m] \in Active
    BY <1>5, Zenon DEF DealerDecline, TimeOut, GuardAbort, Finish, StoreKey, Active
  <2>3. \A n \in Node, s \in Session :
           part'[s][n] \in {part[s][n], "left"} \/ part[s][n] \in Active
    <3>1. PICK x : /\ part' = [part EXCEPT ![t][m] = x]
                   /\ x = "left" \/ part[t][m] \in Active
      BY <2>2, Zenon
    <3>2. /\ \A n \in Node, s \in Session : s # t \/ n # m => part'[s][n] = part[s][n]
          /\ part'[t][m] = x
      BY <1>0, <3>1, Zenon DEF TypeOK
    <3>. QED
      BY <3>1, <3>2, Zenon
  <2>. QED
    BY <2>1, <2>3, Zenon DEF AheadOfShare, Active
<1>6. ASSUME NEW m \in Node, NEW t \in Session, StoreShare(m, t)
      PROVE  AheadOfShare'
  <2>1. /\ UNCHANGED session /\ part[t][m] = "keyed" /\ part'[t][m] = "done"
        /\ \A n \in Node, s \in Session : n # m \/ s # t => part'[s][n] = part[s][n]
        /\ \A n \in Node \ {m} : shard'[n] = shard[n]
    BY <1>0, <1>6, Zenon DEF StoreShare, TypeOK
  <2>2. \A s \in Session : part'[s][m] \notin Active
    BY <2>1 DEF OneSessionEach, Active
  <2>. QED
    BY <2>1, <2>2, Zenon DEF AheadOfShare, Active
<1>7. \/ UNCHANGED <<session, part, shard>>
      \/ \E n \in Node : ReloadSealed(n) \/ Crash(n)
      \/ \E n \in Node, s \in Session :
            \/ SessionStep(n, s)
            \/ RunGenesis(n, s) \/ StartRecovery(n, s) \/ TriggerRefresh(n, s)
  BY GuardChanges, ShareChanges, Zenon DEF SessionStep
<1>. QED
  BY <1>1, <1>2, <1>3, <1>4, <1>5, <1>6, <1>7, Zenon DEF SessionStep

(* Only store_share replaces a share by another one. *)
LEMMA ReplacedByStore ==
    ASSUME IInv, [Next]_vars, NEW n \in Node, shard[n] # None, shard'[n] # None
    PROVE  \/ shard'[n] = shard[n]
           \/ \E s \in Session :
                 part[s][n] \in Active /\ shard'[n].epoch = session[s].epoch
<1>. USE DEF IInv
<1>1. ASSUME NEW m \in Node, ReloadSealed(m) \/ Crash(m)
      PROVE  shard'[n] = shard[n]
  BY <1>1, Zenon DEF ReloadSealed, Crash, TypeOK
<1>2. ASSUME NEW m \in Node, NEW s \in Session, Finish(m, s)
      PROVE  shard'[n] = shard[n]
  BY <1>2, Zenon DEF Finish
<1>3. ASSUME NEW m \in Node, NEW s \in Session, StoreShare(m, s)
      PROVE  \/ shard'[n] = shard[n]
             \/ part[s][n] \in Active /\ shard'[n].epoch = session[s].epoch
  BY <1>3, Zenon DEF StoreShare, TypeOK, Active
<1>. QED
  BY <1>1, <1>2, <1>3, ShareChanges, Zenon

(* "Never reshare backwards" fails only for a node that is in two sessions at
   once: the check of run_reshare_dealer, and known_epoch at the start of a
   recovery, are enough for a node whose sessions do not overlap, whatever the
   other nodes, crashes and rumours do. *)
THEOREM MonotonicOneByOne == Spec /\ []OneSessionEach => EpochMonotonic
<1>1. Init => AheadOfShare
  BY Zenon DEF Init, Fresh, AheadOfShare
<1>2. IInv /\ AheadOfShare /\ OneSessionEach /\ [Next]_vars => AheadOfShare'
  BY AheadStep, Zenon
<1>3. IInv /\ AheadOfShare /\ [Next]_vars =>
         [\A n \in Node : shard[n] # None /\ shard'[n] # None
                             => shard'[n].epoch >= shard[n].epoch]_vars
  <2>. SUFFICES ASSUME IInv, AheadOfShare, [Next]_vars, NEW n \in Node,
                       shard[n] # None, shard'[n] # None
                PROVE  shard'[n].epoch >= shard[n].epoch
    BY Zenon
  <2>1. shard[n].epoch \in Nat /\ \A s \in Session : session[s].epoch \in Nat
    BY Zenon DEF IInv, TypeOK, Share, Sessions
  <2>. QED
    BY <2>1, ReplacedByStore DEF AheadOfShare
<1>. QED
  BY <1>1, <1>2, <1>3, IInvAlways, PTL DEF Spec, EpochMonotonic
=============================================================================
