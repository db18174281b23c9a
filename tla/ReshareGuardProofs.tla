------------------------ MODULE ReshareGuardProofs ------------------------
(***************************************************************************)
(* Proofs about what keeps reshares from splitting the committee: the      *)
(* group-pubkey guard, which no dealer of a session over several           *)
(* polynomials passes (GInv); the majority rule, which makes any two       *)
(* reshares share a member (QInv); the refinement of MasterLedger (LInv);  *)
(* and what it takes to have two masters (UInv).                           *)
(***************************************************************************)
EXTENDS ReshareProofs, FiniteSetTheorems

(* A master is named after a session that is full. *)
MasterOrigin ==
    /\ \A n \in Node : group_pubkey[n] # None => session[group_pubkey[n]].full
    /\ \A s \in Session : session[s].full => session[session[s].master].full

(* Once the dealers are on several polynomials, the session gets a master of
   its own, which no dealer still in it knows. *)
GarbageIsForeign ==
    \A s \in Session :
       session[s].base = Mixed =>
          /\ session[s].master = s
          /\ session[s].kind \in Reshares
          /\ \A d \in session[s].dealers :
                part[s][d] \in Active => group_pubkey[d] # s

GInv == IInv /\ MasterOrigin /\ GarbageIsForeign /\ DealersRejectGarbage

(* The intercept of a reshare is the master of the dealers' polynomial, which
   is named after a full session, or it is new. *)
LEMMA JoinMaster ==
    ASSUME IInv, MasterOrigin, NEW n \in Node, NEW s \in Session, DealerJoin(n, s)
    PROVE  /\ session'[s].kind = session[s].kind /\ session[s].kind \in Reshares
           /\ ~session[s].full /\ session'[s].dealers = session[s].dealers
           /\ session'[s].full =>
                 session'[s].master = s \/ session[session'[s].master].full
           /\ session'[s].base = Mixed => session'[s].master = s
<1>. DEFINE b == Combine(session[s].base, shard[n].poly)
            f == \A m \in session[s].members \ {n} : part[s][m] = "running"
<1>1. shard[n] # None /\ part[s][n] = "invited"
  BY Zenon DEF DealerJoin, CanDeal
<1>2. ~session[s].full /\ session[s].kind \in Reshares /\ session[s] \in Sessions
  BY <1>1, Zenon DEF IInv, TypeOK, Sessions, Reshares, FullIsFinal, SessionsWellFormed,
     SessionRoles
<1>3. session' = [session EXCEPT ![s] = [session[s] EXCEPT !.base = b, !.full = f,
                     !.master = IF f THEN Intercept(s, b) ELSE s]]
  BY Zenon DEF DealerJoin
<1>4. b = Mixed \/ b = shard[n].poly
  BY Zenon DEF Combine
<1>5. shard[n].poly \in Session /\ session[shard[n].poly].full
  BY <1>1, SharePoly, Zenon DEF IInv, SharesFromFull
<1>6. /\ Intercept(s, b) = s \/ session[Intercept(s, b)].full
      /\ b = Mixed => Intercept(s, b) = s
  BY <1>4, <1>5, Zenon DEF Intercept, MasterOrigin
<1>. HIDE DEF b, f
<1>7. /\ session'[s].kind = session[s].kind /\ session'[s].dealers = session[s].dealers
      /\ session'[s].base = b /\ session'[s].full = f
      /\ session'[s].master = IF f THEN Intercept(s, b) ELSE s
  BY <1>2, <1>3, Zenon DEF IInv, TypeOK, Sessions
<1>. QED
  BY <1>2, <1>6, <1>7, Zenon

(* Every master is named after a full session, and stays so. *)
LEMMA OriginStep ==
    ASSUME IInv, MasterOrigin, [Next]_vars
    PROVE  MasterOrigin'
<1>1. \A t \in Session : session[t].full => session'[t] = session[t]
  BY FullStays, Zenon
<1>2. \A t \in Session : session'[t].full => session'[session'[t].master].full
  <2>1. ASSUME NEW n \in Node, NEW s \in Session, RunGenesis(n, s)
        PROVE  /\ \A t \in Session \ {s} : session'[t] = session[t]
               /\ session'[s].master = s
    BY <2>1, Zenon DEF IInv, TypeOK, RunGenesis
  <2>2. ASSUME NEW n \in Node, NEW s \in Session,
               StartRecovery(n, s) \/ TriggerRefresh(n, s)
        PROVE  /\ \A t \in Session \ {s} : session'[t] = session[t]
               /\ session'[s].master = s
    BY <2>2 DEF IInv, TypeOK, StartRecovery, TriggerRefresh
  <2>3. ASSUME NEW n \in Node, NEW s \in Session, DealerJoin(n, s)
        PROVE  /\ \A t \in Session \ {s} : session'[t] = session[t]
               /\ session'[s].full => session'[s].master = s
                                      \/ session[session'[s].master].full
    BY <2>3, JoinMaster, Zenon DEF IInv, TypeOK, DealerJoin
  <2>4. IInv'
    BY IInvNext, Zenon
  <2>5. \A t \in Session : /\ session[t].full => session[t].master \in Session
                           /\ session'[t].full => session'[t].master \in Session
    BY <2>4, Zenon DEF IInv, SessionsWellFormed
  <2>. QED
    BY <1>1, <2>1, <2>2, <2>3, <2>5, SessionChanges DEF MasterOrigin
<1>3. ASSUME NEW n \in Node, group_pubkey'[n] # None
      PROVE  session'[group_pubkey'[n]].full
  <2>1. IInv'
    BY IInvNext, Zenon
  <2>2. KeySourced'
    BY <2>1, KeySource, PTL
  <2>3. PICK p \in Session : session'[p].full /\ session'[p].master = group_pubkey'[n]
    BY <1>3, <2>2, Zenon DEF KeySourced
  <2>. QED
    BY <1>2, <2>3, Zenon
<1>. QED
  BY <1>2, <1>3, Zenon DEF MasterOrigin

(* A dealer still in a session knows a master, and keeps it. *)
LEMMA DealerKeepsKey ==
    ASSUME IInv, [Next]_vars, NEW s \in Session, NEW d \in Node,
           part[s][d] \in Active, d \in session[s].dealers, group_pubkey'[d] # None
    PROVE  group_pubkey'[d] = group_pubkey[d] /\ group_pubkey[d] # None
BY KeyStep, Zenon DEF IInv, SessionRoles, KeyWithShare

(* What GarbageIsForeign and DealersRejectGarbage say of one session. *)
Safe(s) ==
    session[s].base = Mixed =>
       /\ session[s].master = s
       /\ session[s].kind \in Reshares
       /\ \A d \in session[s].dealers :
             /\ part[s][d] \in Active => group_pubkey[d] # s
             /\ part[s][d] \notin {"sealed", "keyed", "done"}

(* A session that stays as it is, and that nobody enters or finishes, stays safe. *)
LEMMA SafeStays ==
    ASSUME GInv, [Next]_vars, NEW s \in Session, Safe(s), session'[s] = session[s],
           \A d \in session[s].dealers :
              /\ part'[s][d] \in Active => part[s][d] \in Active
              /\ part'[s][d] \in {"sealed", "keyed", "done"} =>
                    part[s][d] \in {"sealed", "keyed", "done"}
    PROVE  Safe(s)'
<1>1. session[s].dealers \subseteq Node
  BY Zenon DEF GInv, IInv, TypeOK, Sessions
<1>2. \A d \in session[s].dealers : part'[s][d] \in Active /\ part[s][d] \in Active =>
         group_pubkey'[d] \in {None, group_pubkey[d]}
  BY <1>1, DealerKeepsKey, Zenon DEF GInv
<1>. QED
  BY <1>1, <1>2, SentinelAssumption, Zenon DEF Safe

(* No step lets a dealer finish a session over several polynomials. *)
LEMMA SafeStep ==
    ASSUME GInv, [Next]_vars, NEW s \in Session, Safe(s)
    PROVE  Safe(s)'
<1>. SUFFICES ASSUME session'[s].base = Mixed PROVE Safe(s)'
  BY Zenon DEF Safe
<1>. USE DEF GInv
<1>0. TypeOK /\ session[s].dealers \subseteq Node
  BY Zenon DEF IInv, TypeOK, Sessions
<1>1. CASE UNCHANGED <<session, part, group_pubkey>>
  BY <1>1, SafeStays, Zenon
<1>2. ASSUME NEW n \in Node, ReloadSealed(n) \/ Crash(n)
      PROVE  Safe(s)'
  <2>1. /\ session' = session
        /\ \A d \in Node : part'[s][d] \in {part[s][d], "gone", "left"}
    BY <1>0, <1>2 DEF ReloadSealed, Crash, sessionVars, TypeOK
  <2>. QED
    BY <1>0, <2>1, SafeStays, Zenon DEF Active
<1>3. ASSUME NEW n \in Node, NEW t \in Session,
             RunGenesis(n, t) \/ StartRecovery(n, t) \/ TriggerRefresh(n, t)
      PROVE  Safe(s)'
  <2>1. session' [t].base = None
    BY <1>0, <1>3 DEF TypeOK, RunGenesis, StartRecovery, TriggerRefresh
  <2>2. s # t
    BY <2>1, SentinelAssumption, Zenon
  <2>3. session'[s] = session[s] /\ part'[s] = part[s]
    BY <1>0, <1>3, <2>2, OtherSessions, Zenon
  <2>. QED
    BY <2>3, SafeStays, Zenon
<1>4. ASSUME NEW n \in Node, DealerJoin(n, s)
      PROVE  Safe(s)'
  <2>1. /\ session'[s].kind \in Reshares /\ session'[s].master = s
        /\ session'[s].dealers = session[s].dealers /\ ~session[s].full
    BY <1>4, JoinMaster, Zenon
  <2>2. UNCHANGED group_pubkey
    BY <1>4, Zenon DEF DealerJoin, shareVars
  <2>3. \A d \in Node : group_pubkey[d] # s
    BY <2>1, SentinelAssumption, Zenon DEF MasterOrigin
  <2>4. \A d \in Node : part'[s][d] \notin {"sealed", "keyed", "done"}
    BY <1>0, <1>4, <2>1, Zenon DEF DealerJoin, TypeOK, IInv, FullIsFinal
  <2>. QED
    BY <1>0, <2>1, <2>2, <2>3, <2>4, Zenon DEF Safe
<1>5. ASSUME NEW n \in Node, NEW t \in Session, t # s, DealerJoin(n, t)
      PROVE  Safe(s)'
  <2>1. session'[s] = session[s] /\ part'[s] = part[s]
    BY <1>0, <1>5, Zenon DEF TypeOK, DealerJoin
  <2>. QED
    BY <2>1, SafeStays, Zenon
<1>6. ASSUME NEW n \in Node, NEW t \in Session,
             DealerDecline(n, t) \/ TimeOut(n, t) \/ GuardAbort(n, t)
      PROVE  Safe(s)'
  <2>1. session' = session /\ \A d \in Node : part'[s][d] \in {part[s][d], "left"}
    BY <1>0, <1>6 DEF TypeOK, DealerDecline, TimeOut, GuardAbort
  <2>. QED
    BY <1>0, <2>1, SafeStays, Zenon DEF Active
<1>7. ASSUME NEW n \in Node, NEW t \in Session,
             Finish(n, t) \/ StoreKey(n, t) \/ StoreShare(n, t)
      PROVE  Safe(s)'
  <2>1. session' = session /\ session[s].base = Mixed
    BY <1>7, Zenon DEF Finish, StoreKey, StoreShare
  <2>2. \A d \in Node : part'[s][d] = part[s][d] \/ (d = n /\ t = s)
    BY <1>0, <1>7 DEF TypeOK, Finish, StoreKey, StoreShare
  <2>3. ASSUME n \in session[s].dealers, t = s
        PROVE  FALSE
    <3>1. part[s][n] = "running" /\ KeepsMaster(n, s)
      BY <1>7, <2>1, <2>3, Zenon DEF Safe, Finish, StoreKey, StoreShare
    <3>2. group_pubkey[n] # None /\ group_pubkey[n] # s
      BY <1>0, <2>1, <2>3, <3>1, Zenon DEF Safe, IInv, SessionRoles, KeyWithShare, Active
    <3>. QED
      BY <2>1, <3>1, <3>2, Zenon DEF Safe, KeepsMaster, Reshares
  <2>. QED
    BY <1>0, <2>1, <2>2, <2>3, SafeStays, Zenon
<1>. QED
  BY <1>1, <1>2, <1>3, <1>4, <1>5, <1>6, <1>7, GuardChanges, Zenon DEF SessionStep

(* Safe is the two invariants, session by session. *)
LEMMA SafeIff ==
    /\ (GarbageIsForeign /\ DealersRejectGarbage) <=> \A s \in Session : Safe(s)
    /\ (GarbageIsForeign /\ DealersRejectGarbage)' <=> \A s \in Session : Safe(s)'
BY Zenon DEF Safe, GarbageIsForeign, DealersRejectGarbage

(* GInv is inductive. *)
THEOREM GInvNext == GInv /\ [Next]_vars => GInv'
<1>. SUFFICES ASSUME GInv, [Next]_vars PROVE GInv'
  BY Zenon
<1>1. IInv' /\ MasterOrigin'
  BY IInvNext, OriginStep, Zenon DEF GInv
<1>2. \A s \in Session : Safe(s)'
  BY SafeIff, SafeStep, Zenon DEF GInv
<1>. QED
  BY <1>1, <1>2, SafeIff, Zenon DEF GInv

(* GInv holds in the state of a fresh committee. *)
THEOREM GInvInit == Init => GInv
<1>. SUFFICES ASSUME Init PROVE GInv
  BY Zenon
<1>1. MasterOrigin /\ GarbageIsForeign /\ DealersRejectGarbage
  BY SentinelAssumption, Zenon
     DEF Init, Fresh, Blank, MasterOrigin, GarbageIsForeign, DealersRejectGarbage
<1>. QED
  BY <1>1, IInvInit, Zenon DEF GInv

(* The guard of run_reshare_dealer is enough to keep every share-holder of a
   session over several polynomials from storing its outcome. *)
THEOREM GarbageNeverStored == Spec => []DealersRejectGarbage
<1>1. GInv => DealersRejectGarbage
  BY Zenon DEF GInv
<1>. QED
  BY <1>1, GInvInit, GInvNext, PTL DEF Spec

----------------------------------------------------------------------------
(* An assembled membership has enough dealers or none. *)
SnapDealersEnough ==
    \A n \in Node : snap[n].dealers = {} \/ EnoughDealers(snap[n].dealers)

(* More than half of the committee takes part in every reshare. *)
MajorityMembers ==
    \A s \in Session :
       session[s].kind \in Reshares => Cardinality(session[s].members) >= majority

QInv == IInv /\ SnapDealersEnough /\ MajorityMembers

(* Two majorities are more than the whole committee, and one is not. *)
LEMMA NodeCount ==
    /\ IsFiniteSet(Node) /\ Cardinality(Node) \in Nat
    /\ majority \in Nat /\ 2 * majority > Cardinality(Node)
    /\ majority <= Cardinality(Node)
<1>1. IsFiniteSet(Node) /\ Cardinality(Node) \in Nat
  BY ThresholdAssumption, FS_CardinalityType, Zenon
<1>2. Cardinality(Node) >= 1
  BY <1>1, ThresholdAssumption
<1>. QED
  BY <1>1, <1>2 DEF majority

(* Every membership kept for a recovery passed the dealer count. *)
LEMMA SnapEnoughStep ==
    ASSUME IInv, SnapDealersEnough, [Next]_vars
    PROVE  SnapDealersEnough'
<1>1. \/ UNCHANGED snap
      \/ \E n \in Node : snap' = [snap EXCEPT ![n] = NoMembership]
      \/ \E n \in Node : \E live \in SUBSET Discovered(n) :
            snap' = [snap EXCEPT ![n] = Membership(n, live)]
  <2>1. ASSUME NEW n \in Node, TaskStep(n)
        PROVE  \/ UNCHANGED snap
               \/ snap' = [snap EXCEPT ![n] = NoMembership]
               \/ \E live \in SUBSET Discovered(n) :
                     snap' = [snap EXCEPT ![n] = Membership(n, live)]
    BY <2>1, Zenon DEF TaskStep, ReloadSealed, SkipReload, Assemble, WatchCatchUp, WaitForAll,
       RunGenesis, StartRecovery, GiveUpRecovery, WatchInStep, WatchBehind
  <2>2. ASSUME NEW n \in Node, NEW s \in Session, SessionStep(n, s) \/ TriggerRefresh(n, s)
        PROVE  UNCHANGED snap
    BY <2>2, Zenon DEF SessionStep, taskVars, DealerJoin, DealerDecline, TimeOut, GuardAbort,
       Finish, StoreKey, StoreShare, TriggerRefresh
  <2>3. ASSUME NEW n \in Node, Crash(n) \/ Restart(n) \/ \E d \in Node : Gossip(n, d)
        PROVE  UNCHANGED snap \/ snap' = [snap EXCEPT ![n] = NoMembership]
    BY <2>3, Zenon DEF Crash, Restart, Gossip, taskVars
  <2>. QED
    BY <2>1, <2>2, <2>3, Zenon DEF Next, vars
<1>2. CASE UNCHANGED snap
  BY <1>2, Zenon DEF SnapDealersEnough, EnoughDealers, majority
<1>3. ASSUME NEW n \in Node, snap' = [snap EXCEPT ![n] = NoMembership]
      PROVE  SnapDealersEnough'
  BY <1>3, Zenon DEF IInv, TypeOK, SnapDealersEnough, NoMembership, EnoughDealers, majority
<1>4. ASSUME NEW n \in Node, NEW live \in SUBSET Discovered(n),
             snap' = [snap EXCEPT ![n] = Membership(n, live)]
      PROVE  SnapDealersEnough'
  <2>1. \/ Membership(n, live).dealers = {}
        \/ EnoughDealers(Membership(n, live).dealers)
    BY MembershipType, Zenon
  <2>2. snap'[n] = Membership(n, live) /\ \A m \in Node \ {n} : snap'[m] = snap[m]
    BY <1>4, Zenon DEF IInv, TypeOK
  <2>. QED
    BY <2>1, <2>2, Zenon DEF SnapDealersEnough, EnoughDealers, majority
<1>. QED
  BY <1>1, <1>2, <1>3, <1>4, Zenon

(* Every session opened by a reshare has a majority of the committee. *)
LEMMA MajorityStep ==
    ASSUME QInv, [Next]_vars
    PROVE  MajorityMembers'
<1>. USE DEF QInv
<1>0. TypeOK
  BY Zenon DEF IInv
<1>1. ASSUME NEW n \in Node, NEW t \in Session, RunGenesis(n, t)
      PROVE  /\ session'[t].kind \notin Reshares
             /\ \A s \in Session \ {t} : session'[s] = session[s]
  BY <1>0, <1>1, Zenon DEF RunGenesis, TypeOK, Reshares
<1>2. ASSUME NEW n \in Node, NEW t \in Session, StartRecovery(n, t)
      PROVE  /\ Cardinality(session'[t].members) >= majority
             /\ \A s \in Session \ {t} : session'[s] = session[s]
  <2>1. /\ session'[t].members = snap[n].dealers \cup {n}
        /\ \A s \in Session \ {t} : session'[s] = session[s]
        /\ snap[n].dealers # {} /\ snap[n].dealers \subseteq Node
    BY <1>0, <1>2 DEF StartRecovery, TypeOK
  <2>2. IsFiniteSet(snap[n].dealers)
    BY <2>1, NodeCount, FS_Subset, Zenon
  <2>3. n \notin snap[n].dealers
    BY Zenon DEF IInv, DealersAreOthers
  <2>4. Cardinality(snap[n].dealers \cup {n}) = Cardinality(snap[n].dealers) + 1
    BY <2>2, <2>3, FS_AddElement, Zenon
  <2>5. Cardinality(snap[n].dealers) + 1 >= majority
    BY <2>1, Zenon DEF SnapDealersEnough, EnoughDealers
  <2>. QED
    BY <2>1, <2>4, <2>5, Zenon
<1>3. ASSUME NEW n \in Node, NEW t \in Session, TriggerRefresh(n, t)
      PROVE  /\ Cardinality(session'[t].members) >= majority
             /\ \A s \in Session \ {t} : session'[s] = session[s]
  BY <1>0, <1>3, NodeCount, Zenon DEF TriggerRefresh, TypeOK
<1>4. ASSUME NEW n \in Node, NEW t \in Session, DealerJoin(n, t)
      PROVE  /\ session'[t].members = session[t].members
             /\ session'[t].kind = session[t].kind
             /\ \A s \in Session \ {t} : session'[s] = session[s]
  BY <1>0, <1>4 DEF DealerJoin, TypeOK, Sessions
<1>5. majority' = majority
  BY Zenon DEF majority
<1>. QED
  BY <1>1, <1>2, <1>3, <1>4, <1>5, SessionChanges, Zenon DEF MajorityMembers

(* Two majorities of the committee have a member in common. *)
LEMMA MajoritiesMeet ==
    ASSUME NEW A \in SUBSET Node, NEW B \in SUBSET Node,
           Cardinality(A) >= majority, Cardinality(B) >= majority
    PROVE  A \cap B # {}
<1>. SUFFICES ASSUME A \cap B = {} PROVE FALSE
  BY Zenon
<1>1. IsFiniteSet(A) /\ IsFiniteSet(B)
  BY NodeCount, FS_Subset, Zenon
<1>2. Cardinality(A \cup B) = Cardinality(A) + Cardinality(B) - Cardinality({})
  BY <1>1, FS_Union, Zenon
<1>3. A \cup B \subseteq Node
  BY Zenon
<1>4. Cardinality(A \cup B) <= Cardinality(Node)
  BY <1>3, NodeCount, FS_Subset, Zenon
<1>5. Cardinality(A) \in Nat /\ Cardinality(B) \in Nat /\ Cardinality({}) = 0
  BY <1>1, FS_CardinalityType, FS_EmptySet, Zenon
<1>. QED
  BY <1>2, <1>4, <1>5, NodeCount

(* The majority check of run_reshare_recovery and the all-live check of
   trigger_refresh make every two reshares share a member. *)
THEOREM ReshareQuorums == Spec => []QuorumsOverlap
<1>1. Init => QInv
  <2>. SUFFICES ASSUME Init PROVE QInv
    BY Zenon
  <2>1. SnapDealersEnough /\ MajorityMembers
    BY Zenon DEF Init, Fresh, Blank, NoMembership, SnapDealersEnough, MajorityMembers, Reshares
  <2>. QED
    BY <2>1, IInvInit, Zenon DEF QInv
<1>2. QInv /\ [Next]_vars => QInv'
  BY IInvNext, SnapEnoughStep, MajorityStep, Zenon DEF QInv
<1>3. QInv => QuorumsOverlap
  <2>. SUFFICES ASSUME QInv, NEW s \in Session, NEW t \in Session,
                       {session[s].kind, session[t].kind} \subseteq Reshares
                PROVE  session[s].members \cap session[t].members # {}
    BY Zenon DEF QuorumsOverlap, Reshares
  <2>1. session[s].members \in SUBSET Node /\ session[t].members \in SUBSET Node
    BY Zenon DEF QInv, IInv, TypeOK, Sessions
  <2>2. /\ Cardinality(session[s].members) >= majority
        /\ Cardinality(session[t].members) >= majority
    BY Zenon DEF QInv, MajorityMembers
  <2>. QED
    BY <2>1, <2>2, MajoritiesMeet, Zenon
<1>. QED
  BY <1>1, <1>2, <1>3, PTL DEF Spec

----------------------------------------------------------------------------
(* The gauge of a node that needs a recovery counts its dealers. *)
LEMMA HoldersAreDealers ==
    ASSUME TypeOK, NEW n \in Node, NEW live \in SUBSET Discovered(n),
           n \notin LeadingHolders(n, live)
    PROVE  LeadingHolders(n, live) = LeadingDealers(n, live)
<1>1. OwnEpoch(n) \in Nat /\ n \notin live
  BY Zenon DEF TypeOK, OwnEpoch, Share, Discovered, Peers
<1>2. \A p \in live : peer_table[n][p] \in Nat /\ EpochSeen(n, p) = peer_table[n][p]
  BY <1>1 DEF TypeOK, Table, Discovered, EpochSeen, Peers
<1>3. EpochSeen(n, n) = OwnEpoch(n)
  BY Zenon DEF EpochSeen
<1>4. LeadingHolders(n, live) \subseteq LeadingDealers(n, live)
  BY <1>2, Zenon DEF LeadingHolders, LeadingDealers
<1>5. ASSUME NEW p \in LeadingDealers(n, live) PROVE p \in LeadingHolders(n, live)
  <2>1. /\ p \in live /\ peer_table[n][p] > 0
        /\ \A q \in live : peer_table[n][q] <= peer_table[n][p]
    BY Zenon DEF LeadingDealers
  <2>2. OwnEpoch(n) <= peer_table[n][p]
    <3>1. CASE OwnEpoch(n) = 0
      BY <1>2, <2>1, <3>1
    <3>2. CASE OwnEpoch(n) > 0
      <4>1. PICK q \in live \cup {n} : ~(EpochSeen(n, q) <= EpochSeen(n, n))
        BY <1>3, <3>2, Zenon DEF LeadingHolders
      <4>2. q \in live /\ EpochSeen(n, q) > OwnEpoch(n)
        BY <1>1, <1>2, <1>3, <4>1
      <4> QED
        BY <1>1, <1>2, <2>1, <4>2
    <3> QED
      BY <1>1, <3>1, <3>2
  <2> QED
    BY <1>2, <1>3, <2>1, <2>2, Zenon DEF LeadingHolders
<1> QED
  BY <1>4, <1>5, Zenon

(* The alert on kms_leading_holders tells, in every committee, whether a
   recovery would be refused. *)
THEOREM AlertAlwaysMeansStuck == Spec => []AlertMeansStuck
<1>1. ASSUME TypeOK PROVE AlertMeansStuck
  <2> SUFFICES ASSUME NEW n \in Node, NEW live \in SUBSET Discovered(n),
                      n \notin LeadingHolders(n, live)
               PROVE  Cardinality(LeadingHolders(n, live)) < RecoveryThreshold
                         <=> ~EnoughDealers(LeadingDealers(n, live))
    BY Zenon DEF AlertMeansStuck
  <2>1. LeadingHolders(n, live) = LeadingDealers(n, live)
    BY <1>1, HoldersAreDealers, Zenon
  <2>2. Cardinality(LeadingDealers(n, live)) \in Nat
    <3>1. LeadingDealers(n, live) \subseteq Node
      BY Zenon DEF LeadingDealers, Discovered, Peers
    <3> QED
      BY <3>1, NodeCount, FS_Subset, FS_CardinalityType, Zenon
  <2>3. Cardinality(Node) \div 2 \in Nat /\ Threshold \in Nat
    BY NodeCount, ThresholdAssumption
  <2> QED
    BY <2>1, <2>2, <2>3 DEF EnoughDealers, RecoveryThreshold, majority
<1> QED
  BY <1>1, TypeCorrect, PTL

----------------------------------------------------------------------------
(* Garbage does not spread *)

(* The share of a session over several polynomials is held and sealed by no
   dealer of that session. *)
GarbageStays ==
    \A n \in Node :
       /\ shard[n] # None /\ session[shard[n].poly].base = Mixed =>
             n \in session[shard[n].poly].members \ session[shard[n].poly].dealers
       /\ sealed[n] # None /\ session[sealed[n].poly].base = Mixed =>
             n \in session[sealed[n].poly].members \ session[sealed[n].poly].dealers

(* A reshare has at least two dealers and at most one member more. *)
ReshareShape ==
    \A s \in Session :
       session[s].kind \in Reshares =>
          /\ session[s].dealers \subseteq session[s].members
          /\ \E c, d \in session[s].dealers : c # d
          /\ \A m, n \in session[s].members \ session[s].dealers : m = n

(* d could hold a share of p: not the garbage of a session it was a dealer of. *)
MayHold(d, p) ==
    session[p].base = Mixed => d \in session[p].members \ session[p].dealers

(* The base of a session is what its dealers held when they joined. *)
BaseIsDealt ==
    \A s \in Session :
       session[s].kind \in Reshares =>
          /\ session[s].base \in Session => session[session[s].base].full
          /\ \A d \in session[s].dealers :
                session[s].full \/ part[s][d] = "running" =>
                   /\ session[s].base # None
                   /\ session[s].base \in Session => MayHold(d, session[s].base)

(* The master of a complete session was made by a genesis, or the session is
   over several polynomials and its master is its own. *)
MasterMadeOrGarbage ==
    \A s \in Session :
       session[s].full => \/ session[s].master \in Minted
                          \/ session[s].base = Mixed /\ session[s].master = s

LInv == GInv /\ SnapDealersEnough /\ GarbageStays /\ ReshareShape /\ BaseIsDealt
             /\ MasterMadeOrGarbage

(* A set of two or more has two different elements. *)
LEMMA TwoElements ==
    ASSUME NEW S, IsFiniteSet(S), Cardinality(S) >= 2
    PROVE  \E c, d \in S : c # d
<1>1. PICK c : c \in S
  BY FS_EmptySet
<1>2. CASE S = {c}
  BY <1>2, FS_Singleton
<1>. QED
  BY <1>1, <1>2, Zenon

(* run_reshare_recovery starts with at least two dealers if recovery_threshold
   is at least two, and so does a refresh. *)
LEMMA TwoDealers ==
    ASSUME RecoveryThreshold >= 2
    PROVE  /\ \A D \in SUBSET Node : EnoughDealers(D) => \E c, d \in D : c # d
           /\ \E c, d \in Node : c # d
<1>0. Threshold \in Nat /\ Threshold <= Cardinality(Node)
  BY ThresholdAssumption, NodeCount
<1>1. ASSUME NEW D \in SUBSET Node, EnoughDealers(D)
      PROVE  \E c, d \in D : c # d
  <2>1. IsFiniteSet(D) /\ Cardinality(D) \in Nat
    BY NodeCount, FS_Subset, FS_CardinalityType, Zenon
  <2>2. Cardinality(D) >= 2
    BY <1>0, <1>1, <2>1, NodeCount DEF EnoughDealers, RecoveryThreshold, majority
  <2>. QED
    BY <2>1, <2>2, TwoElements
<1>2. Cardinality(Node) >= 2
  BY <1>0, NodeCount DEF RecoveryThreshold
<1>. QED
  BY <1>1, <1>2, NodeCount, TwoElements

(* What a session becomes when a dealer joins it. *)
LEMMA JoinRecord ==
    ASSUME IInv, NEW n \in Node, NEW s \in Session, DealerJoin(n, s)
    PROVE  /\ session[s].kind \in Reshares /\ ~session[s].full
           /\ part[s][n] = "invited"
           /\ \A t \in Session \ {s} : session'[t] = session[t] /\ part'[t] = part[t]
           /\ \A m \in Node \ {n} : part'[s][m] = part[s][m]
           /\ session'[s].kind = session[s].kind
           /\ session'[s].dealers = session[s].dealers
           /\ session'[s].members = session[s].members
           /\ shard[n] # None /\ shard[n].poly \in Session /\ session[shard[n].poly].full
           /\ \/ session'[s].base = Mixed
              \/ session'[s].base = shard[n].poly /\ session[s].base \in {None, shard[n].poly}
           /\ session'[s].full =>
                 /\ \A m \in session[s].members \ {n} : part[s][m] = "running"
                 /\ IF session'[s].base = Mixed THEN session'[s].master = s
                    ELSE session'[s].master = session[session'[s].base].master
<1>. DEFINE b == Combine(session[s].base, shard[n].poly)
            f == \A m \in session[s].members \ {n} : part[s][m] = "running"
<1>0. TypeOK /\ session[s] \in Sessions
  BY Zenon DEF IInv, TypeOK
<1>1. shard[n] # None /\ part[s][n] = "invited"
  BY Zenon DEF DealerJoin, CanDeal
<1>2. ~session[s].full /\ session[s].kind \in Reshares
  BY <1>0, <1>1, Zenon DEF IInv, Sessions, Reshares, FullIsFinal, SessionsWellFormed,
     SessionRoles
<1>3. session' = [session EXCEPT ![s] = [session[s] EXCEPT !.base = b, !.full = f,
                     !.master = IF f THEN Intercept(s, b) ELSE s]]
  BY Zenon DEF DealerJoin
<1>4. shard[n].poly \in Session /\ session[shard[n].poly].full
  BY <1>1, SharePoly, Zenon DEF IInv, SharesFromFull
<1>5. b = Mixed \/ (b = shard[n].poly /\ session[s].base \in {None, shard[n].poly})
  BY Zenon DEF Combine
<1>6. Intercept(s, b) = IF b = Mixed THEN s ELSE session[b].master
  BY Zenon DEF Intercept
<1>7. /\ \A t \in Session \ {s} : part'[t] = part[t]
      /\ \A m \in Node \ {n} : part'[s][m] = part[s][m]
  BY <1>0, Zenon DEF DealerJoin, TypeOK
<1>. HIDE DEF b, f
<1>8. /\ \A t \in Session \ {s} : session'[t] = session[t]
      /\ session'[s].kind = session[s].kind /\ session'[s].dealers = session[s].dealers
      /\ session'[s].members = session[s].members
      /\ session'[s].base = b /\ session'[s].full = f
      /\ session'[s].master = IF f THEN Intercept(s, b) ELSE s
  BY <1>0, <1>3, Zenon DEF TypeOK, Sessions
<1>9. f => \A m \in session[s].members \ {n} : part[s][m] = "running"
  BY Zenon DEF f
<1>. QED
  BY <1>1, <1>2, <1>4, <1>5, <1>6, <1>7, <1>8, <1>9, SMTT(30)

(* A node that starts to run has joined the session itself. *)
LEMMA PartRuns ==
    ASSUME IInv, [Next]_vars, NEW d \in Node, NEW s \in Session,
           part'[s][d] = "running", part[s][d] # "running"
    PROVE  RunGenesis(d, s) \/ StartRecovery(d, s) \/ DealerJoin(d, s)
<1>0. TypeOK
  BY Zenon DEF IInv
<1>1. ASSUME NEW n \in Node, ReloadSealed(n) \/ Crash(n)
      PROVE  FALSE
  <2>1. part' = part \/ part' = [t \in Session |-> [part[t] EXCEPT ![n] =
           IF @ \in {"invited", "running"} THEN "gone"
           ELSE IF @ \in {"sealed", "keyed"} THEN "left" ELSE @]]
    BY <1>1, Zenon DEF ReloadSealed, Crash, sessionVars
  <2>2. part[s] \in [Node -> Parts]
    BY <1>0, Zenon DEF TypeOK
  <2>3. part'[s] = part[s] \/ part'[s] = [part[s] EXCEPT ![n] =
           IF @ \in {"invited", "running"} THEN "gone"
           ELSE IF @ \in {"sealed", "keyed"} THEN "left" ELSE @]
    BY <2>1, Zenon
  <2>. QED
    BY <2>2, <2>3, Zenon
<1>2. ASSUME NEW n \in Node, NEW t \in Session,
             \/ DealerDecline(n, t) \/ TimeOut(n, t) \/ GuardAbort(n, t)
             \/ Finish(n, t) \/ StoreKey(n, t) \/ StoreShare(n, t)
      PROVE  FALSE
  <2>1. \E x \in {"left", "sealed", "keyed", "done"} : part' = [part EXCEPT ![t][n] = x]
    BY <1>2, Zenon DEF DealerDecline, TimeOut, GuardAbort, Finish, StoreKey, StoreShare
  <2>. QED
    BY <1>0, <2>1 DEF TypeOK
<1>3. ASSUME NEW n \in Node, NEW t \in Session, TriggerRefresh(n, t)
      PROVE  FALSE
  <2>1. part' = [part EXCEPT ![t] = [m \in Node |-> "invited"]]
    BY <1>3, Zenon DEF TriggerRefresh
  <2>2. part'[s] = part[s] \/ part'[s] = [m \in Node |-> "invited"]
    BY <1>0, <2>1 DEF TypeOK
  <2>. QED
    BY <2>2, Zenon
<1>4. ASSUME NEW n \in Node, NEW t \in Session,
             RunGenesis(n, t) \/ StartRecovery(n, t) \/ DealerJoin(n, t)
      PROVE  n = d /\ t = s
  BY <1>0, <1>4, SMTT(30) DEF RunGenesis, StartRecovery, DealerJoin, TypeOK
<1>. QED
  BY <1>1, <1>2, <1>3, <1>4, GuardChanges, Zenon DEF SessionStep

(* Reshares are opened with two dealers or more and with no other member than
   the node to recover, and keep them. *)
LEMMA ShapeStep ==
    ASSUME RecoveryThreshold >= 2, IInv, SnapDealersEnough, ReshareShape, [Next]_vars
    PROVE  ReshareShape'
<1>. DEFINE Shape(r) == /\ r.dealers \subseteq r.members
                        /\ \E c, d \in r.dealers : c # d
                        /\ \A m, n \in r.members \ r.dealers : m = n
<1>0. TypeOK
  BY Zenon DEF IInv
<1>1. SUFFICES ASSUME NEW s \in Session, session'[s].kind \in Reshares
               PROVE  Shape(session'[s])
  BY Zenon DEF ReshareShape
<1>2. CASE session'[s] = session[s]
  BY <1>1, <1>2 DEF ReshareShape
<1>3. ASSUME NEW n \in Node, StartRecovery(n, s)
      PROVE  Shape(session'[s])
  <2>1. /\ session'[s].dealers = snap[n].dealers
        /\ session'[s].members = snap[n].dealers \cup {n}
    BY <1>0, <1>3, RecoveryRecord, Zenon
  <2>2. EnoughDealers(snap[n].dealers) /\ snap[n].dealers \in SUBSET Node
    BY <1>0, <1>3, Zenon DEF StartRecovery, SnapDealersEnough, TypeOK
  <2>. QED
    BY <2>1, <2>2, TwoDealers, Zenon
<1>4. ASSUME NEW n \in Node, TriggerRefresh(n, s)
      PROVE  Shape(session'[s])
  <2>1. session'[s].dealers = Node /\ session'[s].members = Node
    BY <1>0, <1>4, RefreshRecord, Zenon
  <2>. QED
    BY <2>1, TwoDealers, Zenon
<1>5. ASSUME NEW n \in Node, DealerJoin(n, s)
      PROVE  Shape(session'[s])
  <2>1. /\ session[s].kind \in Reshares
        /\ session'[s].dealers = session[s].dealers
        /\ session'[s].members = session[s].members
    BY <1>5, JoinRecord, Zenon
  <2>. QED
    BY <2>1 DEF ReshareShape
<1>6. ASSUME NEW n \in Node, RunGenesis(n, s)
      PROVE  FALSE
  <2>1. session'[s].kind = "genesis"
    BY <1>0, <1>6, GenesisRecord, Zenon
  <2>. QED
    BY <1>1, <2>1, Zenon DEF Reshares
<1>7. ASSUME NEW n \in Node, NEW t \in Session, t # s,
             \/ RunGenesis(n, t) \/ StartRecovery(n, t)
             \/ TriggerRefresh(n, t) \/ DealerJoin(n, t)
      PROVE  session'[s] = session[s]
  BY <1>0, <1>7, OtherSessions, Zenon
<1>. QED
  BY <1>2, <1>3, <1>4, <1>5, <1>6, <1>7, SessionChanges, Zenon

(* The sessions a share comes from, and the node's part in them, are safe. *)
LEMMA GarbageStep ==
    ASSUME GInv, GInv', GarbageStays, [Next]_vars
    PROVE  GarbageStays'
<1>. DEFINE Fine(n, p) == session'[p].base = Mixed =>
                             n \in session'[p].members \ session'[p].dealers
<1>0. TypeOK /\ IInv /\ IInv'
  BY Zenon DEF GInv, IInv
<1>1. ASSUME NEW n \in Node, NEW s \in Session, part'[s][n] \in {"sealed", "keyed", "done"}
      PROVE  Fine(n, s)
  BY <1>0, <1>1, Zenon DEF GInv, IInv, DealersRejectGarbage, SessionsWellFormed
<1>2. ASSUME NEW n \in Node, shard[n] # None
      PROVE  Fine(n, shard[n].poly)
  BY <1>0, <1>2, FullStays, SharePoly, Zenon DEF IInv, SharesFromFull, GarbageStays
<1>3. ASSUME NEW n \in Node, sealed[n] # None
      PROVE  Fine(n, sealed[n].poly)
  BY <1>0, <1>3, FullStays, SharePoly, Zenon DEF IInv, SharesFromFull, GarbageStays
<1>. HIDE DEF Fine
<1>4. ASSUME NEW n \in Node, shard'[n] # None
      PROVE  Fine(n, shard'[n].poly)
  <2>1. CASE shard'[n] = shard[n]
    BY <1>2, <1>4, <2>1, Zenon
  <2>2. CASE /\ sealed[n] # None
             /\ shard'[n] = [poly |-> sealed[n].poly, epoch |-> sealed[n].epoch]
    BY <1>3, <2>2
  <2>3. ASSUME NEW s \in Session, part'[s][n] = "done",
               shard'[n] = [poly |-> s, epoch |-> session[s].epoch]
        PROVE  Fine(n, shard'[n].poly)
    BY <1>1, <2>3
  <2>. QED
    BY <1>0, <1>4, <2>1, <2>2, <2>3, SharesWritten, Zenon
<1>5. ASSUME NEW n \in Node, sealed'[n] # None
      PROVE  Fine(n, sealed'[n].poly)
  <2>1. CASE sealed'[n] = sealed[n]
    BY <1>3, <1>5, <2>1, Zenon
  <2>2. ASSUME NEW s \in Session, part'[s][n] = "sealed",
               sealed'[n] = [poly |-> s, epoch |-> session[s].epoch,
                             master |-> session[s].master]
        PROVE  Fine(n, sealed'[n].poly)
    BY <1>1, <2>2
  <2>. QED
    BY <1>0, <1>5, <2>1, <2>2, SharesWritten, Zenon
<1>. QED
  BY <1>4, <1>5, Zenon DEF GarbageStays, Fine

(* What a node could hold of a complete session it can still hold. *)
LEMMA MayHoldStays ==
    ASSUME IInv, [Next]_vars, NEW d \in Node, NEW p \in Session, session[p].full, MayHold(d, p)
    PROVE  session'[p].full /\ session'[p].base = session[p].base
           /\ (session'[p].base = Mixed => d \in session'[p].members \ session'[p].dealers)
BY FullStays, Zenon DEF MayHold

(* The base of a session follows the shares of the dealers that join it. *)
LEMMA BaseStep ==
    ASSUME GInv, GarbageStays, ReshareShape, BaseIsDealt, [Next]_vars
    PROVE  BaseIsDealt'
<1>0. IInv /\ TypeOK
  BY Zenon DEF GInv, IInv
<1>. DEFINE Could(d, p) == session'[p].base = Mixed =>
                              d \in session'[p].members \ session'[p].dealers
            Dealt(s) ==
               /\ session'[s].base \in Session => session'[session'[s].base].full
               /\ \A d \in session'[s].dealers :
                     session'[s].full \/ part'[s][d] = "running" =>
                        /\ session'[s].base # None
                        /\ session'[s].base \in Session => Could(d, session'[s].base)
<1>1. SUFFICES ASSUME NEW s \in Session, session'[s].kind \in Reshares
               PROVE  Dealt(s)
  BY Zenon DEF BaseIsDealt, MayHold
<1>2. ASSUME NEW d \in Node, NEW p \in Session, session[p].full, MayHold(d, p)
      PROVE  Could(d, p)
  BY <1>0, <1>2, MayHoldStays
<1>3. ASSUME NEW p \in Session, session[p].full
      PROVE  session'[p].full
  BY <1>0, <1>3, FullStays, Zenon
<1>4. session[s].dealers \subseteq Node /\ session[s].base \in Session \cup {None, Mixed}
  BY <1>0 DEF TypeOK, Sessions
<1>. HIDE DEF Could
<1>5. ASSUME session'[s] = session[s],
             \A d \in session[s].dealers : part'[s][d] = "running" => part[s][d] = "running"
      PROVE  Dealt(s)
  <2>1. /\ session[s].base \in Session => session[session[s].base].full
        /\ \A d \in session[s].dealers :
              session[s].full \/ part[s][d] = "running" =>
                 /\ session[s].base # None
                 /\ session[s].base \in Session => MayHold(d, session[s].base)
    BY <1>1, <1>5, Zenon DEF BaseIsDealt
  <2>. QED
    BY <1>2, <1>3, <1>4, <1>5, <2>1, Zenon
<1>6. ASSUME NEW n \in Node, StartRecovery(n, s)
      PROVE  Dealt(s)
  <2>1. /\ session'[s].dealers = snap[n].dealers /\ ~session'[s].full
        /\ session'[s].base = None /\ snap[n].dealers \subseteq Node
    BY <1>0, <1>6, RecoveryRecord, Zenon
  <2>2. \A d \in snap[n].dealers : part'[s][d] = "invited"
    BY <1>0, <1>6, <2>1, Zenon DEF StartRecovery, TypeOK, IInv, DealersAreOthers
  <2>. QED
    BY <2>1, <2>2, SentinelAssumption, Zenon
<1>7. ASSUME NEW n \in Node, TriggerRefresh(n, s)
      PROVE  Dealt(s)
  <2>1. session'[s].dealers = Node /\ ~session'[s].full /\ session'[s].base = None
    BY <1>0, <1>7, RefreshRecord, Zenon
  <2>2. \A d \in Node : part'[s][d] = "invited"
    BY <1>0, <1>7, RefreshRecord, Zenon
  <2>. QED
    BY <2>1, <2>2, SentinelAssumption
<1>8. ASSUME NEW n \in Node, RunGenesis(n, s)
      PROVE  FALSE
  <2>1. session'[s].kind = "genesis"
    BY <1>0, <1>8, GenesisRecord, Zenon
  <2>. QED
    BY <1>1, <2>1, Zenon DEF Reshares
<1>9. ASSUME NEW n \in Node, DealerJoin(n, s)
      PROVE  Dealt(s)
  <2>. DEFINE p == shard[n].poly
  <2>1. /\ session[s].kind \in Reshares /\ p \in Session /\ session[p].full /\ shard[n] # None
        /\ session'[s].dealers = session[s].dealers
        /\ session'[s].base \in {Mixed, p}
        /\ session'[s].base = Mixed \/ session[s].base \in {None, p}
        /\ session'[s].full =>
              \A m \in session[s].members \ {n} : part[s][m] = "running"
        /\ \A m \in Node \ {n} : part'[s][m] = part[s][m]
        /\ ~session[s].full
    BY <1>0, <1>9, JoinRecord
  <2>2. MayHold(n, p)
    BY <2>1, Zenon DEF GarbageStays, MayHold
  <2>. HIDE DEF p
  <2>3. ASSUME NEW d \in session[s].dealers, session'[s].full \/ part'[s][d] = "running",
               session'[s].base = p
        PROVE  MayHold(d, p)
    <3>1. CASE d = n
      BY <2>2, <3>1, Zenon
    <3>2. CASE d # n
      <4>1. part[s][d] = "running"
        BY <1>4, <2>1, <2>3, <3>2, Zenon DEF ReshareShape
      <4>2. session[s].base # None
        BY <2>1, <4>1, Zenon DEF BaseIsDealt
      <4>3. session[s].base = p
        BY <2>1, <2>3, <4>2, SentinelAssumption, Zenon
      <4>. QED
        BY <2>1, <4>1, <4>3 DEF BaseIsDealt
    <3>. QED
      BY <3>1, <3>2, Zenon
  <2>. QED
    BY <1>2, <1>3, <1>4, <2>1, <2>3, SentinelAssumption, Zenon
<1>10. CASE \A n \in Node : ~StartRecovery(n, s) /\ ~TriggerRefresh(n, s) /\ ~DealerJoin(n, s)
                             /\ ~RunGenesis(n, s)
  <2>1. ASSUME NEW n \in Node, NEW t \in Session, t # s,
               \/ RunGenesis(n, t) \/ StartRecovery(n, t)
               \/ TriggerRefresh(n, t) \/ DealerJoin(n, t)
        PROVE  session'[s] = session[s]
    BY <1>0, <2>1, OtherSessions, Zenon
  <2>2. session'[s] = session[s]
    BY <1>10, <2>1, SessionChanges, Zenon
  <2>3. \A d \in session[s].dealers : part'[s][d] = "running" => part[s][d] = "running"
    BY <1>0, <1>4, <1>10, PartRuns
  <2>. QED
    BY <1>5, <2>2, <2>3
<1>. QED
  BY <1>6, <1>7, <1>8, <1>9, <1>10, Zenon

(* Two dealers cannot both hold the garbage of one session. *)
BaseIsSound ==
    \A s \in Session :
       session[s].full /\ session[s].kind \in Reshares /\ session[s].base \in Session =>
          session[session[s].base].base # Mixed

(* BaseIsDealt leaves garbage to the one node that is no dealer, and a
   complete reshare has two dealers. *)
LEMMA BaseSound == GInv /\ ReshareShape /\ BaseIsDealt => BaseIsSound
<1>. SUFFICES ASSUME GInv, ReshareShape, BaseIsDealt, NEW s \in Session, session[s].full,
                     session[s].kind \in Reshares, session[s].base \in Session,
                     session[session[s].base].base = Mixed
              PROVE  FALSE
  BY Zenon DEF BaseIsSound
<1>1. PICK c, d \in session[s].dealers : c # d
  BY Zenon DEF ReshareShape
<1>2. MayHold(c, session[s].base) /\ MayHold(d, session[s].base)
  BY <1>1, Zenon DEF BaseIsDealt
<1>3. session[session[s].base].kind \in Reshares
  BY Zenon DEF GInv, GarbageIsForeign
<1>. QED
  BY <1>1, <1>2, <1>3, Zenon DEF MayHold, ReshareShape

(* No genesis that has completed is forgotten. *)
LEMMA MintedStays ==
    ASSUME IInv, [Next]_vars
    PROVE  Minted \subseteq Minted'
BY FullStays DEF Minted

(* A session that completes takes over a master that a genesis has made, or
   makes garbage. *)
LEMMA MasterStep ==
    ASSUME GInv, MasterMadeOrGarbage, BaseIsSound', [Next]_vars
    PROVE  MasterMadeOrGarbage'
<1>0. IInv /\ TypeOK
  BY Zenon DEF GInv, IInv
<1>1. SUFFICES ASSUME NEW s \in Session, session'[s].full
               PROVE  \/ session'[s].master \in Minted'
                      \/ session'[s].base = Mixed /\ session'[s].master = s
  BY Zenon DEF MasterMadeOrGarbage
<1>2. CASE session[s].full
  <2>1. session'[s] = session[s]
    BY <1>0, <1>2, FullStays, Zenon
  <2>2. \/ session[s].master \in Minted
        \/ session[s].base = Mixed /\ session[s].master = s
    BY <1>2, Zenon DEF MasterMadeOrGarbage
  <2>. QED
    BY <1>0, <2>1, <2>2, MintedStays, Zenon
<1>3. ASSUME NEW n \in Node, RunGenesis(n, s)
      PROVE  session'[s].master \in Minted'
  <2>1. session'[s].kind = "genesis" /\ session'[s].master = s
    BY <1>0, <1>3, GenesisRecord, Zenon
  <2>. QED
    BY <1>1, <2>1, Zenon DEF Minted
<1>4. ASSUME NEW n \in Node, DealerJoin(n, s), session'[s].base # Mixed
      PROVE  session'[s].master \in Minted'
  <2>. DEFINE p == shard[n].poly
  <2>1. /\ p \in Session /\ session[p].full /\ session'[s].base = p
        /\ session'[s].kind \in Reshares /\ session'[s].master = session[p].master
    BY <1>0, <1>1, <1>4, JoinRecord
  <2>. HIDE DEF p
  <2>2. session'[p] = session[p]
    BY <1>0, <2>1, FullStays, Zenon
  <2>3. session[p].base # Mixed
    BY <1>1, <2>1, <2>2, Zenon DEF BaseIsSound
  <2>4. session[p].master \in Minted
    BY <2>1, <2>3 DEF MasterMadeOrGarbage
  <2>. QED
    BY <1>0, <2>1, <2>4, MintedStays, Zenon
<1>5. ASSUME NEW n \in Node, DealerJoin(n, s), session'[s].base = Mixed
      PROVE  session'[s].master = s
  BY <1>0, <1>1, <1>5, JoinRecord, Zenon
<1>6. ASSUME NEW n \in Node, StartRecovery(n, s) \/ TriggerRefresh(n, s)
      PROVE  FALSE
  BY <1>0, <1>1, <1>6, RecoveryRecord, RefreshRecord, Zenon
<1>7. ASSUME NEW n \in Node, NEW t \in Session, t # s,
             \/ RunGenesis(n, t) \/ StartRecovery(n, t)
             \/ TriggerRefresh(n, t) \/ DealerJoin(n, t)
      PROVE  session'[s] = session[s]
  BY <1>0, <1>7, OtherSessions, Zenon
<1>. QED
  BY <1>1, <1>2, <1>3, <1>4, <1>5, <1>6, <1>7, SessionChanges, Zenon

(* LInv is inductive in a committee where no single dealer suffices. *)
THEOREM LInvNext ==
    ASSUME RecoveryThreshold >= 2
    PROVE  LInv /\ [Next]_vars => LInv'
<1>. SUFFICES ASSUME LInv, [Next]_vars PROVE LInv'
  BY Zenon
<1>1. GInv /\ IInv /\ GInv'
  BY GInvNext, Zenon DEF LInv, GInv
<1>2. SnapDealersEnough' /\ ReshareShape'
  BY <1>1, SnapEnoughStep, ShapeStep, Zenon DEF LInv
<1>3. GarbageStays' /\ BaseIsDealt'
  BY <1>1, GarbageStep, BaseStep DEF LInv
<1>4. BaseIsSound'
  BY <1>1, <1>2, <1>3, BaseSound, PTL
<1>5. MasterMadeOrGarbage'
  BY <1>1, <1>4, MasterStep DEF LInv
<1>. QED
  BY <1>1, <1>2, <1>3, <1>5, Zenon DEF LInv

(* Init => LInv: no session exists. *)
LEMMA LInvInit == Init => LInv
<1>. SUFFICES ASSUME Init PROVE LInv
  BY Zenon
<1>1. GInv
  BY GInvInit, Zenon
<1>2. \A s \in Session : session[s] = Blank
  BY Zenon DEF Init, Fresh
<1>3. \A s \in Session : session[s].kind = "unused" /\ ~session[s].full
  BY <1>2 DEF Blank
<1>4. SnapDealersEnough /\ GarbageStays
  BY Zenon DEF Init, Fresh, SnapDealersEnough, NoMembership, GarbageStays
<1>5. ReshareShape /\ BaseIsDealt /\ MasterMadeOrGarbage
  BY <1>3, Zenon DEF ReshareShape, BaseIsDealt, MasterMadeOrGarbage, Reshares
<1>. QED
  BY <1>1, <1>4, <1>5, Zenon DEF LInv

(* The empty committee is one of the ledger. *)
LEMMA LedgerInit == Init => Ledger!Init
<1>. SUFFICES ASSUME Init PROVE Ledger!Init
  BY Zenon
<1>1. \A s \in Session : session[s] = Blank
  BY Zenon DEF Init, Fresh
<1>2. Minted \in SUBSET Session
  BY Zenon DEF Minted
<1>3. group_pubkey = [n \in Node |-> None]
  BY Zenon DEF Init, Fresh
<1>. QED
  BY <1>2, <1>3, Zenon DEF Ledger!Init

(* A node without a group pubkey that gets the one of a complete session p is
   given a master of the ledger, or a stray one. *)
LEMMA LedgerReceives ==
    ASSUME LInv, NEW n \in Node, NEW p \in Session, session[p].full, MayHold(n, p),
           group_pubkey[n] = None, UNCHANGED session,
           group_pubkey' = [group_pubkey EXCEPT ![n] = session[p].master]
    PROVE  Ledger!Next
<1>. DEFINE g == session[p].master
<1>0. IInv /\ TypeOK
  BY Zenon DEF LInv, GInv, IInv
<1>1. g \in Session
  BY <1>0, Zenon DEF IInv, SessionsWellFormed
<1>2. Minted' = Minted
  BY Zenon DEF Minted
<1>3. CASE g \in Minted
  BY <1>1, <1>2, <1>3, Zenon DEF Ledger!Next, Ledger!Receive
<1>4. CASE g \notin Minted
  <2>1. session[p].base = Mixed /\ g = p
    BY <1>4, Zenon DEF LInv, MasterMadeOrGarbage
  <2>2. session[p].kind \in Reshares /\ n \in session[p].members \ session[p].dealers
    BY <2>1, Zenon DEF LInv, GInv, GarbageIsForeign, MayHold
  <2>3. ASSUME NEW m \in Node, group_pubkey[m] = g
        PROVE  FALSE
    <3>1. group_pubkey[m] # None /\ KeySourced
      BY <1>0, <1>1, <2>3, KeySource, SentinelAssumption, Zenon
    <3>2. PICK q \in Session :
             /\ session[q].full /\ session[q].master = p
             /\ (shard[m] # None /\ shard[m].poly = q) \/ part[q][m] = "keyed"
      BY <2>1, <2>3, <3>1, Zenon DEF KeySourced
    <3>3. q = p
      BY <1>4, <2>1, <3>2 DEF LInv, MasterMadeOrGarbage
    <3>4. m \in session[p].members \ session[p].dealers
      <4>1. CASE shard[m] # None /\ shard[m].poly = p
        BY <2>1, <4>1, Zenon DEF LInv, GarbageStays
      <4>2. CASE part[p][m] = "keyed"
        BY <1>0, <2>1, <4>2 DEF LInv, GInv, DealersRejectGarbage, IInv, SessionsWellFormed
      <4>. QED
        BY <3>2, <3>3, <4>1, <4>2, Zenon
    <3>5. m = n
      BY <2>2, <3>4, Zenon DEF LInv, ReshareShape
    <3>. QED
      BY <1>1, <2>3, <3>5, SentinelAssumption, Zenon
  <2>. QED
    BY <1>1, <1>2, <1>4, <2>3, Zenon DEF Ledger!Next, Ledger!Stray
<1>. QED
  BY <1>3, <1>4, Zenon

(* Steps of sessions that give nobody a share: a genesis that completes mints,
   the others do nothing to the ledger. *)
LEMMA LedgerMints ==
    ASSUME LInv, [Next]_vars, UNCHANGED group_pubkey
    PROVE  [Ledger!Next]_<<Minted, group_pubkey>>
<1>0. IInv /\ TypeOK
  BY Zenon DEF LInv, GInv, IInv
<1>1. Minted \subseteq Minted'
  BY <1>0, MintedStays, Zenon
<1>2. CASE Minted' = Minted
  BY <1>2, Zenon
<1>3. CASE Minted' # Minted
  <2>1. PICK s \in Session : s \in Minted' /\ s \notin Minted
    BY <1>1, <1>3, Zenon DEF Minted
  <2>2. session'[s].kind = "genesis" /\ session'[s].full
    BY <2>1, Zenon DEF Minted
  <2>3. ~session[s].full
    BY <1>0, <2>1, <2>2, FullStays DEF Minted
  <2>4. \A n \in Node : group_pubkey[n] = None
    BY <1>0, <2>2, <2>3, GenesisOpens, Zenon
  <2>5. \A t \in Session \ {s} : session'[t] = session[t]
    <3>1. ASSUME NEW n \in Node, NEW t \in Session,
                 \/ RunGenesis(n, t) \/ StartRecovery(n, t)
                 \/ TriggerRefresh(n, t) \/ DealerJoin(n, t)
          PROVE  \A u \in Session \ {t} : session'[u] = session[u]
      BY <1>0, <3>1, OtherSessions, Zenon
    <3>. QED
      BY <2>2, <2>3, <3>1, SessionChanges
  <2>6. Minted' = Minted \cup {s}
    BY <1>1, <2>1, <2>5, Zenon DEF Minted
  <2>. QED
    BY <2>4, <2>6, Zenon DEF Ledger!Next, Ledger!Mint
<1>. QED
  BY <1>2, <1>3, Zenon

(* Every step of the committee is one of the ledger or leaves it alone. *)
LEMMA LedgerStep ==
    LInv /\ [Next]_vars => [Ledger!Next]_<<Minted, group_pubkey>>
<1>. SUFFICES ASSUME LInv, [Next]_vars PROVE [Ledger!Next]_<<Minted, group_pubkey>>
  BY Zenon
<1>0. IInv /\ TypeOK
  BY Zenon DEF LInv, GInv, IInv
<1>1. CASE UNCHANGED group_pubkey
  BY <1>1, LedgerMints, Zenon
<1>2. ASSUME NEW n \in Node, ReloadSealed(n)
      PROVE  Ledger!Next
  <2>1. /\ UNCHANGED session /\ shard[n] = None /\ sealed[n] # None
        /\ group_pubkey' = [group_pubkey EXCEPT ![n] = sealed[n].master]
    BY <1>2, Zenon DEF ReloadSealed, sessionVars
  <2>. DEFINE p == sealed[n].poly
  <2>2. p \in Session /\ session[p].full /\ sealed[n].master = session[p].master
    BY <1>0, <2>1, SharePoly, Zenon DEF IInv, SharesFromFull, KeyMatchesShare
  <2>3. MayHold(n, p) /\ group_pubkey[n] = None
    <3>1. mine[n] \notin Session
      BY <1>0, <1>2, SentinelAssumption, Zenon DEF ReloadSealed, IInv, OneSessionWithoutShare
    <3>. QED
      BY <1>0, <2>1, <3>1, Zenon DEF LInv, GarbageStays, MayHold, IInv, KeyWithShare
  <2>. HIDE DEF p
  <2>4. group_pubkey' = [group_pubkey EXCEPT ![n] = session[p].master]
    BY <2>1, <2>2, Zenon
  <2>. QED
    BY <2>1, <2>2, <2>3, <2>4, LedgerReceives, Zenon
<1>3. ASSUME NEW n \in Node, Crash(n)
      PROVE  Ledger!Next
  <2>1. UNCHANGED session /\ group_pubkey' = [group_pubkey EXCEPT ![n] = None]
    BY <1>3, Zenon DEF Crash
  <2>2. Minted' = Minted
    BY <2>1, Zenon DEF Minted
  <2>. QED
    BY <2>1, <2>2, Zenon DEF Ledger!Next, Ledger!Drop
<1>4. ASSUME NEW n \in Node, NEW s \in Session, StoreKey(n, s)
      PROVE  Ledger!Next \/ UNCHANGED <<Minted, group_pubkey>>
  <2>1. /\ UNCHANGED session /\ part[s][n] = "sealed"
        /\ group_pubkey' = [group_pubkey EXCEPT ![n] = session[s].master]
    BY <1>4, Zenon DEF StoreKey
  <2>2. session[s].full /\ n \in session[s].members
    BY <1>0, <2>1, Zenon DEF IInv, FullIsFinal, SessionsWellFormed
  <2>3. MayHold(n, s)
    BY <2>1, <2>2 DEF LInv, GInv, DealersRejectGarbage, MayHold
  <2>4. CASE group_pubkey[n] = None
    BY <2>1, <2>2, <2>3, <2>4, LedgerReceives, Zenon
  <2>5. CASE group_pubkey[n] # None
    <3>1. group_pubkey[n] = session[s].master
      BY <1>0, <2>1, <2>5, Zenon DEF IInv, SealedKeepsMaster
    <3>2. UNCHANGED group_pubkey
      BY <1>0, <2>1, <3>1, Zenon DEF TypeOK
    <3>. QED
      BY <2>1, <3>2 DEF Minted
  <2>. QED
    BY <2>4, <2>5, Zenon
<1>. QED
  BY <1>1, <1>2, <1>3, <1>4, KeyChanges, Zenon

(* "Every epoch shares the same master", as far as store_share and the guards
   see to it.  If recovery_threshold is at least two, for every committee and
   any number of crashes, losses and sessions: a genesis makes a master only
   while nobody holds one, no process exchanges its master for another, and a
   recovery that went wrong leaves one node alone with a master which no later
   session takes over. *)
THEOREM MasterLedgerKept ==
    ASSUME RecoveryThreshold >= 2
    PROVE  Spec => KeepsLedger
<1>1. LInv /\ [Next]_vars => LInv'
  BY LInvNext, Zenon
<1>. QED
  BY <1>1, LInvInit, LedgerInit, LedgerStep, PTL DEF Spec, KeepsLedger, Ledger!Spec
------------------------------------------------------------------------------
(* When there is one master.  The garbage of a reshare over several polynomials
   is the only master that no genesis made: without such a reshare every full
   session ends with the master of a genesis. *)
NoneMixed == \A s \in Session : session[s].full => session[s].base # Mixed

MastersMinted == NoneMixed => \A s \in Session : session[s].full => session[s].master \in Minted

UInv == IInv /\ MastersMinted

(* A session that completes makes a master of its own, as a genesis, or takes
   over the one of the polynomial its dealers deal from. *)
LEMMA MintedMasterStep ==
    ASSUME UInv, [Next]_vars
    PROVE  MastersMinted'
<1>0. IInv /\ TypeOK
  BY Zenon DEF UInv, IInv
<1>1. SUFFICES ASSUME NoneMixed', NEW s \in Session, session'[s].full
               PROVE  session'[s].master \in Minted'
  BY Zenon DEF MastersMinted
<1>2. \A t \in Session : session[t].full => session'[t] = session[t]
  BY <1>0, FullStays, Zenon
<1>3. NoneMixed
  BY <1>1, <1>2, Zenon DEF NoneMixed
<1>4. \A t \in Session : session[t].full => session[t].master \in Minted'
  BY <1>0, <1>3, MintedStays, Zenon DEF UInv, MastersMinted
<1>5. CASE session[s].full
  BY <1>2, <1>4, <1>5, Zenon
<1>6. CASE ~session[s].full
  <2>1. session'[s] # session[s]
    BY <1>1, <1>6, Zenon
  <2>2. PICK n \in Node, t \in Session : \/ RunGenesis(n, t) \/ StartRecovery(n, t)
                                         \/ TriggerRefresh(n, t) \/ DealerJoin(n, t)
    BY <2>1, SessionChanges, Zenon
  <2>3. t = s
    BY <1>0, <2>1, <2>2, OtherSessions
  <2>4. CASE RunGenesis(n, s)
    BY <1>0, <1>1, <2>4, GenesisRecord, Zenon DEF Minted
  <2>5. CASE StartRecovery(n, s)
    BY <1>0, <1>1, <2>5, RecoveryRecord, Zenon
  <2>6. CASE TriggerRefresh(n, s)
    BY <1>0, <1>1, <2>6, RefreshRecord, Zenon
  <2>7. CASE DealerJoin(n, s)
    <3>1. session'[s].base # Mixed
      BY <1>1, Zenon DEF NoneMixed
    <3>2. /\ shard[n].poly \in Session /\ session[shard[n].poly].full
          /\ session'[s].master = session[shard[n].poly].master
      BY <1>0, <1>1, <2>7, <3>1, JoinRecord
    <3>. QED
      BY <1>4, <3>2, Zenon
  <2>. QED
    BY <2>2, <2>3, <2>4, <2>5, <2>6, <2>7, Zenon
<1>. QED
  BY <1>5, <1>6, Zenon

(* Holders of one genesis's master agree: a share's polynomial is full and its
   master is the group pubkey of the process. *)
LEMMA MintedMeansOne == UInv => OneMasterUnlessMixed
<1>. SUFFICES ASSUME UInv, NoneMixed, \A s, t \in Minted : s = t,
                     NEW n \in Node, NEW m \in Node, shard[n] # None, shard[m] # None
              PROVE  group_pubkey[n] = group_pubkey[m]
  BY Zenon DEF OneMasterUnlessMixed, OneMaster, NoneMixed
<1>1. ASSUME NEW i \in Node, shard[i] # None
      PROVE  group_pubkey[i] \in Minted
  <2>1. shard[i].poly \in Session
    BY <1>1, SharePoly, Zenon DEF UInv, IInv
  <2>2. session[shard[i].poly].full /\ group_pubkey[i] = session[shard[i].poly].master
    BY <1>1, Zenon DEF UInv, IInv, SharesFromFull, KeyMatchesShare
  <2>. QED
    BY <2>1, <2>2, Zenon DEF UInv, MastersMinted
<1>. QED
  BY <1>1, Zenon

(* The master secret is one as long as no reshare over several polynomials and
   no second genesis completes, whatever the threshold, the crashes, the
   restarts and the gossip: these two are all that can part the holders. *)
THEOREM OnlyMixingSplits == Spec => []OneMasterUnlessMixed
<1>1. Init => UInv
  <2>. SUFFICES ASSUME Init PROVE UInv
    BY Zenon
  <2>1. IInv
    BY IInvInit, Zenon
  <2>2. \A s \in Session : session[s] = Blank
    BY Zenon DEF Init, Fresh
  <2>3. \A s \in Session : ~session[s].full
    BY <2>2 DEF Blank
  <2>. QED
    BY <2>1, <2>3, Zenon DEF UInv, MastersMinted
<1>2. UInv /\ [Next]_vars => UInv'
  BY IInvNext, MintedMasterStep, Zenon DEF UInv
<1>. QED
  BY <1>1, <1>2, MintedMeansOne, PTL DEF Spec
=============================================================================
