--------------------------- MODULE NodeListProofs ---------------------------
(***************************************************************************)
(* Proofs about NodeListCache for any number of callers and any durations: *)
(* how old the list may be on which a signer is let through or refused,    *)
(* and how often a missing signer costs an RPC.                            *)
(***************************************************************************)
EXTENDS NodeListCache, TLAPS

(* The ages of the chain's present state. *)
AgesNow == IF listed THEN listedAge = 0 ELSE absentAge = 0

(* The app's miss lock is held exactly by the call that forces a refresh. *)
MissLock ==
    /\ miss # None => pc[miss] = "forced"
    /\ \A c \in Caller : pc[c] = "forced" => miss = c

(* A call that has got a list finds an entry in the cache. *)
HasEntry == \A c \in Caller : pc[c] \in {"got", "missing", "forced"} => cache # None

(* What an RPC has read was true while it ran. *)
RepliesBacked ==
    \A c \in Caller : pc[c] \in Rpc /\ reply[c] # None =>
        IF reply[c] THEN listedAge <= took[c] ELSE absentAge <= took[c]

(* What the cache holds was true at most one RPC before fetched_at. *)
ListBacked ==
    cache # None => IF cache.addrs THEN listedAge <= cache.fetched_at + MaxRpc
                                   ELSE absentAge <= cache.fetched_at + MaxRpc

(* A call looks for the signer in a list that is new enough. *)
GotBacked ==
    \A c \in Caller : pc[c] = "got" /\ addrs[c] /\ ~stale[c] => listedAge < TTL + MaxRpc

(* A list that appeared, with the signer, after a call missed it is recent
   when that call gets to see it. *)
AppearsLate ==
    /\ cache # None /\ cache.addrs /\ miss # None => cache.fetched_at <= took[miss]
    /\ \A c \in Caller :
          /\ cache # None /\ cache.addrs
          /\ \/ pc[c] = "got" /\ ~addrs[c]
             \/ pc[c] = "missing" /\ miss = None
          => cache.fetched_at <= MaxRpc

(* A forced attempt left a refreshed list or was followed by a failure. *)
MissStamp ==
    cache # None /\ cache.miss_refresh_at < Forever =>
        cache.fetched_at <= cache.miss_refresh_at \/ failedAge <= cache.miss_refresh_at

(* A forced attempt that was not dropped is remembered, by its own stamp or by
   a newer list. *)
ForcedRemembered ==
    forcedAge < MissMin /\ ~dropped =>
        /\ cache # None
        /\ cache.fetched_at <= forcedAge \/ cache.miss_refresh_at <= forcedAge

NInv ==
    /\ TypeOK /\ AgesNow /\ MissLock /\ HasEntry /\ RepliesBacked /\ ListBacked
    /\ GotBacked /\ AppearsLate /\ MissStamp /\ ForcedRemembered

----------------------------------------------------------------------------
LEMMA NInvInit == Init => NInv
<1>. SUFFICES ASSUME Init
              PROVE  NInv
  OBVIOUS
<1>1. TypeOK
  <2>1. {listedAge, absentAge} \subseteq Age /\ {failedAge, forcedAge} \subseteq 0..MissMin
    BY TimeAssumption DEF Init, Age, Forever
  <2>2. took \in [Caller -> 0..MaxRpc]
    BY TimeAssumption DEF Init
  <2>. QED
    BY <2>1, <2>2, Zenon DEF Init, TypeOK, Steps
<1>2. AgesNow /\ MissLock /\ HasEntry /\ RepliesBacked
  BY TimeAssumption DEF Init, AgesNow, MissLock, HasEntry, RepliesBacked, Rpc
<1>3. ListBacked /\ GotBacked /\ AppearsLate /\ MissStamp /\ ForcedRemembered
  BY TimeAssumption DEF Init, ListBacked, GotBacked, AppearsLate, MissStamp, ForcedRemembered
<1>. QED
  BY <1>1, <1>2, <1>3 DEF NInv

LEMMA ForeverNat == Forever \in Nat /\ TTL + MaxRpc < Forever /\ MissMin < Forever
BY TimeAssumption DEF Forever

(* Every entry written by a refresh is one. *)
LEMMA EntryType ==
    ASSUME NEW list \in BOOLEAN, NEW missAge \in Age
    PROVE  /\ Entry(list, missAge) \in NodeListEntry
           /\ Entry(list, missAge) # None
           /\ Entry(list, missAge).addrs = list
           /\ Entry(list, missAge).fetched_at = 0
           /\ Entry(list, missAge).miss_refresh_at = missAge
BY ForeverNat, EntryAssumption DEF Entry, NodeListEntry, Age

(* What a call that has no RPC running keeps of the last one. *)
LEMMA ClearRpcType ==
    ASSUME TypeOK, NEW c \in Caller, ClearRpc(c)
    PROVE  took' \in [Caller -> 0..MaxRpc] /\ reply' \in [Caller -> BOOLEAN \cup {None}]
BY TimeAssumption DEF TypeOK, ClearRpc

(* Steps keep the state well typed. *)
LEMMA NTypeNext ==
    ASSUME NInv, [Next]_vars
    PROVE  TypeOK'
<1>. USE TimeAssumption, ForeverNat DEF NInv, TypeOK, Steps, Rpc, Over
<1>0. cache # None => cache.addrs \in BOOLEAN
  BY DEF NodeListEntry
<1>1. 0 \in Age /\ Forever \in Age /\ 0 \in 0..MissMin
  BY DEF Age
<1>2. ASSUME NEW c \in Caller, Ask(c)
      PROVE  TypeOK'
  <2>1. pc' \in [Caller -> Steps] /\ addrs' \in [Caller -> BOOLEAN] /\ stale' \in [Caller -> BOOLEAN]
    BY <1>0, <1>2, ZenonT(30) DEF Ask, Get, Fresh
  <2>. QED
    BY <1>2, <2>1 DEF Ask, ages
<1>3. ASSUME NEW c \in Caller, LockRefresh(c)
      PROVE  TypeOK'
  <2>1. CASE Fresh
    BY <1>0, <1>3, <2>1, ZenonT(30) DEF LockRefresh, Get, Fresh, ages
  <2>2. CASE ~Fresh
    BY <1>3, <2>2 DEF LockRefresh, Start, ClearRpc, ages
  <2>. QED
    BY <2>1, <2>2
<1>4. ASSUME NEW c \in Caller, Read(c)
      PROVE  TypeOK'
  BY <1>4 DEF Read, ages
<1>5. ASSUME NEW c \in Caller, RefreshOk(c)
      PROVE  TypeOK'
  <2>1. cache' \in NodeListEntry /\ reply[c] \in BOOLEAN
    BY <1>1, <1>5, EntryType DEF RefreshOk
  <2>. QED
    BY <1>5, <2>1, ClearRpcType DEF RefreshOk, Get, ages
<1>6. ASSUME NEW c \in Caller, RefreshFails(c)
      PROVE  TypeOK'
  BY <1>0, <1>1, <1>6, ClearRpcType, ZenonT(30) DEF RefreshFails, Get
<1>7. ASSUME NEW c \in Caller, Look(c)
      PROVE  TypeOK'
  BY <1>7 DEF Look, ages
<1>8. ASSUME NEW c \in Caller, LockMiss(c)
      PROVE  TypeOK'
  <2>1. CASE cache # None /\ (cache.addrs \/ TooRecent)
    BY <1>0, <1>8, <2>1, ZenonT(30) DEF LockMiss, ages
  <2>2. CASE ~(cache # None /\ (cache.addrs \/ TooRecent))
    BY <1>8, <2>2 DEF LockMiss, Start, ClearRpc, ages
  <2>. QED
    BY <2>1, <2>2
<1>9. ASSUME NEW c \in Caller, ForcedOk(c)
      PROVE  TypeOK'
  <2>1. cache' \in NodeListEntry /\ reply[c] \in BOOLEAN
    BY <1>1, <1>9, EntryType DEF ForcedOk
  <2>. QED
    BY <1>1, <1>9, <2>1, ClearRpcType DEF ForcedOk
<1>10. ASSUME NEW c \in Caller, ForcedFails(c)
       PROVE  TypeOK'
  <2>1. cache # None
    BY <1>10 DEF ForcedFails, HasEntry
  <2>2. cache' \in NodeListEntry
    BY <1>1, <1>10, <2>1 DEF ForcedFails, NodeListEntry
  <2>. QED
    BY <1>1, <1>10, <2>2, ClearRpcType DEF ForcedFails
<1>11. ASSUME NEW c \in Caller, Cancel(c)
       PROVE  TypeOK'
  BY <1>1, <1>11, ClearRpcType DEF Cancel
<1>12. CASE ChainChanges
  BY <1>1, <1>12 DEF ChainChanges, taskVars
<1>13. CASE Tick
  <2>1. /\ \A a \in Age : Older(a, Forever) \in Age
        /\ \A a \in 0..MissMin : Older(a, MissMin) \in 0..MissMin
    BY DEF Older, Age
  <2>2. cache' \in NodeListEntry \cup {None}
    <3>1. CASE cache \in NodeListEntry
      <4>1. cache' = [cache EXCEPT !.fetched_at = Older(@, Forever), !.miss_refresh_at = Older(@, Forever)]
        BY <1>13, <3>1, EntryAssumption DEF Tick
      <4>2. Older(cache.fetched_at, Forever) \in Age /\ Older(cache.miss_refresh_at, Forever) \in Age
        BY <2>1, <3>1 DEF NodeListEntry
      <4>. QED
        BY <3>1, <4>1, <4>2, Zenon DEF NodeListEntry
    <3>. QED
      BY <1>13, <3>1 DEF Tick
  <2>3. took' \in [Caller -> 0..MaxRpc]
    BY <1>13 DEF Tick, Waiting
  <2>4. {listedAge, absentAge}' \subseteq Age /\ {failedAge, forcedAge}' \subseteq 0..MissMin
    BY <1>1, <1>13, <2>1 DEF Tick
  <2>. QED
    BY <1>13, <2>2, <2>3, <2>4 DEF Tick
<1>14. CASE UNCHANGED vars
  BY <1>14 DEF vars, taskVars, ages
<1>. QED
  BY <1>2, <1>3, <1>4, <1>5, <1>6, <1>7, <1>8, <1>9, <1>10, <1>11, <1>12, <1>13, <1>14
     DEF Next, Step

----------------------------------------------------------------------------
(* Each step keeps the invariant.  Chain and caches hold still in most. *)

(* A call takes a list from the cache, fresh or as a fallback; or it starts a
   plain refresh. *)
LEMMA PlainStep ==
    ASSUME NInv, NEW c \in Caller, Ask(c) \/ LockRefresh(c) \/ RefreshFails(c)
    PROVE  NInv'
<1>. USE DEF NInv
<1>1. TypeOK'
  BY NTypeNext DEF Next, Step
<1>2. /\ UNCHANGED <<listed, cache, miss, listedAge, absentAge, forcedAge, dropped>>
      /\ failedAge' \in {0, failedAge}
      /\ pc[c] \in {"idle", "expired", "fetch"}
      /\ \A d \in Caller \ {c} : /\ pc'[d] = pc[d] /\ addrs'[d] = addrs[d] /\ reply'[d] = reply[d]
                                 /\ took'[d] = took[d] /\ stale'[d] = stale[d]
  BY DEF Ask, LockRefresh, RefreshFails, Get, Start, ClearRpc, TypeOK, ages
<1>3. \/ pc'[c] \in {"expired", "failed"}
      \/ pc'[c] = "fetch" /\ reply'[c] = None
      \/ /\ pc'[c] = "got" /\ cache # None /\ addrs'[c] = cache.addrs
         /\ stale'[c] \/ cache.fetched_at < TTL
  BY DEF Ask, LockRefresh, RefreshFails, Get, Start, ClearRpc, TypeOK, Fresh
<1>4. cache # None => /\ cache.addrs \in BOOLEAN /\ cache.fetched_at \in Nat
                      /\ cache.miss_refresh_at \in Nat
  BY DEF TypeOK, NodeListEntry, Age
<1>5. failedAge \in Nat /\ listedAge \in Nat
  BY TimeAssumption DEF TypeOK, Age
<1>6. (AgesNow /\ ListBacked /\ ForcedRemembered)'
  BY <1>2 DEF AgesNow, ListBacked, ForcedRemembered
<1>7. MissStamp'
  BY <1>2, <1>4, <1>5 DEF MissStamp
<1>8. (MissLock /\ HasEntry)'
  BY <1>2, <1>3, TimeAssumption DEF MissLock, HasEntry, TypeOK
<1>9. RepliesBacked'
  BY <1>2, <1>3 DEF RepliesBacked, Rpc
<1>10. GotBacked'
  BY <1>2, <1>3, <1>4, <1>5, TimeAssumption DEF GotBacked, ListBacked
<1>11. AppearsLate'
  BY <1>2, <1>3 DEF AppearsLate, MissLock, TypeOK
<1>. QED
  BY <1>1, <1>6, <1>7, <1>8, <1>9, <1>10, <1>11

(* The chain reads its list for an RPC; or it changes. *)
LEMMA ReadStep ==
    ASSUME NInv, NEW c \in Caller, Read(c)
    PROVE  NInv'
<1>. USE DEF NInv
<1>1. TypeOK'
  BY NTypeNext DEF Next, Step
<1>2. /\ UNCHANGED <<listed, cache, refresh, miss, pc, addrs, took, stale, ages, dropped>>
      /\ \A d \in Caller \ {c} : reply'[d] = reply[d]
      /\ reply'[c] = listed
  BY DEF Read, TypeOK
<1>3. took[c] \in Nat /\ took[c] >= 0
  BY TimeAssumption DEF TypeOK
<1>4. RepliesBacked'
  BY <1>2, <1>3 DEF RepliesBacked, AgesNow, TypeOK, ages
<1>5. (AgesNow /\ MissLock /\ HasEntry /\ ListBacked)'
  BY <1>2 DEF AgesNow, MissLock, HasEntry, ListBacked, ages
<1>6. (GotBacked /\ AppearsLate /\ MissStamp /\ ForcedRemembered)'
  BY <1>2 DEF GotBacked, AppearsLate, MissStamp, ForcedRemembered, ages
<1>. QED
  BY <1>1, <1>4, <1>5, <1>6

LEMMA ChainStep ==
    ASSUME NInv, ChainChanges
    PROVE  NInv'
<1>. USE DEF NInv
<1>1. TypeOK'
  BY NTypeNext DEF Next
<1>2. /\ listed' = ~listed /\ listedAge' = 0 /\ absentAge' = 0
      /\ UNCHANGED <<cache, refresh, miss, pc, addrs, reply, took, stale, failedAge, forcedAge, dropped>>
  BY DEF ChainChanges, taskVars
<1>3. \A c \in Caller : took[c] \in Nat
  BY TimeAssumption DEF TypeOK
<1>4. (AgesNow /\ RepliesBacked)'
  BY <1>2, <1>3 DEF AgesNow, RepliesBacked
<1>5. ListBacked'
  BY <1>2, TimeAssumption DEF ListBacked, TypeOK, NodeListEntry, Age
<1>6. GotBacked'
  BY <1>2, TimeAssumption DEF GotBacked
<1>7. (MissLock /\ HasEntry /\ AppearsLate /\ MissStamp /\ ForcedRemembered)'
  BY <1>2 DEF MissLock, HasEntry, AppearsLate, MissStamp, ForcedRemembered
<1>. QED
  BY <1>1, <1>4, <1>5, <1>6, <1>7

(* A plain refresh writes what its RPC read, over whatever is there. *)
LEMMA RefreshOkStep ==
    ASSUME NInv, NEW c \in Caller, RefreshOk(c)
    PROVE  NInv'
<1>. USE DEF NInv
<1>1. TypeOK'
  BY NTypeNext DEF Next, Step
<1>2. /\ UNCHANGED <<listed, miss, listedAge, absentAge, failedAge, forcedAge, dropped>>
      /\ pc[c] = "fetch" /\ reply[c] \in BOOLEAN
      /\ pc'[c] = "got" /\ addrs'[c] = reply[c]
      /\ \A d \in Caller \ {c} : /\ pc'[d] = pc[d] /\ addrs'[d] = addrs[d] /\ reply'[d] = reply[d]
                                 /\ took'[d] = took[d] /\ stale'[d] = stale[d]
  BY DEF RefreshOk, Get, ClearRpc, TypeOK, ages
<1>3. /\ cache' # None /\ cache'.addrs = reply[c]
      /\ cache'.fetched_at = 0 /\ cache'.miss_refresh_at = Forever
  BY <1>2, EntryType, ForeverNat DEF RefreshOk, Age
<1>4. /\ took[c] <= MaxRpc /\ \A d \in Caller : took[d] \in Nat
      /\ listedAge \in Nat /\ absentAge \in Nat /\ forcedAge \in Nat
  BY TimeAssumption DEF TypeOK, Age
<1>5. IF reply[c] THEN listedAge <= MaxRpc ELSE absentAge <= MaxRpc
  BY <1>2, <1>4, TimeAssumption DEF RepliesBacked, Rpc, TypeOK
<1>6. (AgesNow /\ ListBacked /\ MissStamp /\ ForcedRemembered)'
  BY <1>2, <1>3, <1>4, <1>5, TimeAssumption, ForeverNat
     DEF AgesNow, ListBacked, MissStamp, ForcedRemembered
<1>7. (MissLock /\ HasEntry)'
  BY <1>2, <1>3, TimeAssumption DEF MissLock, HasEntry, TypeOK
<1>8. RepliesBacked'
  BY <1>2 DEF RepliesBacked, Rpc
<1>9. GotBacked'
  BY <1>2, <1>4, <1>5, TimeAssumption DEF GotBacked
<1>10. AppearsLate'
  BY <1>1, <1>2, <1>3, <1>4, TimeAssumption DEF AppearsLate, TypeOK
<1>. QED
  BY <1>1, <1>6, <1>7, <1>8, <1>9, <1>10

LEMMA LookStep ==
    ASSUME NInv, NEW c \in Caller, Look(c)
    PROVE  NInv'
<1>. USE DEF NInv
<1>1. TypeOK'
  BY NTypeNext DEF Next, Step
<1>2. /\ UNCHANGED <<listed, cache, refresh, miss, addrs, reply, took, stale, ages, dropped>>
      /\ \A d \in Caller \ {c} : pc'[d] = pc[d]
      /\ pc[c] = "got" /\ pc'[c] = (IF addrs[c] THEN "allowed" ELSE "missing")
  BY DEF Look, TypeOK
<1>3. (AgesNow /\ ListBacked /\ MissStamp /\ ForcedRemembered)'
  BY <1>2 DEF AgesNow, ListBacked, MissStamp, ForcedRemembered, ages
<1>4. (MissLock /\ HasEntry /\ RepliesBacked /\ GotBacked)'
  BY <1>2, TimeAssumption DEF MissLock, HasEntry, RepliesBacked, GotBacked, Rpc, TypeOK, ages
<1>5. AppearsLate'
  BY <1>2 DEF AppearsLate
<1>. QED
  BY <1>1, <1>3, <1>4, <1>5

(* The call that forces a refresh saw no signer in the cache. *)
LEMMA LockMissStep ==
    ASSUME NInv, NEW c \in Caller, LockMiss(c)
    PROVE  NInv'
<1>. USE DEF NInv
<1>1. TypeOK'
  BY NTypeNext DEF Next, Step
<1>2. /\ UNCHANGED <<listed, cache, refresh, ages, dropped>>
      /\ pc[c] = "missing" /\ miss = None /\ cache # None
      /\ \A d \in Caller \ {c} : /\ pc'[d] = pc[d] /\ addrs'[d] = addrs[d] /\ reply'[d] = reply[d]
                                 /\ took'[d] = took[d] /\ stale'[d] = stale[d]
  BY DEF LockMiss, Start, ClearRpc, TypeOK, HasEntry
<1>3. \/ pc'[c] \in {"allowed", "refused"} /\ UNCHANGED <<miss, took>>
      \/ pc'[c] = "forced" /\ miss' = c /\ reply'[c] = None /\ ~cache.addrs
  BY <1>2 DEF LockMiss, Start, ClearRpc, TypeOK
<1>4. (AgesNow /\ ListBacked /\ MissStamp /\ ForcedRemembered)'
  BY <1>2 DEF AgesNow, ListBacked, MissStamp, ForcedRemembered, ages
<1>5. (MissLock /\ HasEntry)'
  BY <1>2, <1>3, TimeAssumption DEF MissLock, HasEntry
<1>6. (RepliesBacked /\ GotBacked)'
  BY <1>2, <1>3 DEF RepliesBacked, GotBacked, Rpc, ages
<1>7. AppearsLate'
  BY <1>2, <1>3 DEF AppearsLate
<1>. QED
  BY <1>1, <1>4, <1>5, <1>6, <1>7

(* A forced refresh writes what its RPC read and stamps the attempt. *)
LEMMA ForcedOkStep ==
    ASSUME NInv, NEW c \in Caller, ForcedOk(c)
    PROVE  NInv'
<1>. USE DEF NInv
<1>1. TypeOK'
  BY NTypeNext DEF Next, Step
<1>2. /\ UNCHANGED <<listed, listedAge, absentAge, failedAge>>
      /\ miss' = None /\ forcedAge' = 0
      /\ pc[c] = "forced" /\ reply[c] \in BOOLEAN /\ pc'[c] \in {"allowed", "refused"}
      /\ \A d \in Caller \ {c} : /\ pc'[d] = pc[d] /\ addrs'[d] = addrs[d] /\ reply'[d] = reply[d]
                                 /\ took'[d] = took[d] /\ stale'[d] = stale[d]
  BY DEF ForcedOk, ClearRpc, TypeOK
<1>3. /\ cache' # None /\ cache'.addrs = reply[c]
      /\ cache'.fetched_at = 0 /\ cache'.miss_refresh_at = 0
  BY <1>2, EntryType, ForeverNat DEF ForcedOk, Age
<1>4. took[c] <= MaxRpc /\ took[c] \in Nat /\ listedAge \in Nat /\ absentAge \in Nat
  BY TimeAssumption DEF TypeOK, Age
<1>5. IF reply[c] THEN listedAge <= MaxRpc ELSE absentAge <= MaxRpc
  BY <1>2, <1>4, TimeAssumption DEF RepliesBacked, Rpc, TypeOK
<1>6. (AgesNow /\ ListBacked /\ MissStamp /\ ForcedRemembered)'
  BY <1>2, <1>3, <1>4, <1>5, TimeAssumption DEF AgesNow, ListBacked, MissStamp, ForcedRemembered
<1>7. (MissLock /\ HasEntry)'
  BY <1>2, <1>3, TimeAssumption DEF MissLock, HasEntry
<1>8. (RepliesBacked /\ GotBacked)'
  BY <1>2 DEF RepliesBacked, GotBacked, Rpc
<1>9. AppearsLate'
  BY <1>2, <1>3, TimeAssumption DEF AppearsLate
<1>. QED
  BY <1>1, <1>6, <1>7, <1>8, <1>9

(* A forced refresh that fails or is dropped frees the miss lock; a list that
   appeared meanwhile is no older than its RPC. *)
LEMMA ForcedEndsStep ==
    ASSUME NInv, NEW c \in Caller, ForcedFails(c) \/ Cancel(c)
    PROVE  NInv'
<1>. USE DEF NInv
<1>1. TypeOK'
  BY NTypeNext DEF Next, Step
<1>2. /\ UNCHANGED <<listed, addrs, stale, listedAge, absentAge>>
      /\ pc[c] \in {"expired", "missing", "fetch", "forced"} /\ pc'[c] \in {"refused", "gone"}
      /\ \A d \in Caller \ {c} : pc'[d] = pc[d] /\ reply'[d] = reply[d] /\ took'[d] = took[d]
      /\ miss' = (IF miss = c THEN None ELSE miss)
  BY DEF ForcedFails, Cancel, ClearRpc, TypeOK, MissLock, Rpc
<1>3. \/ UNCHANGED <<cache, failedAge, forcedAge, dropped>>
      \/ UNCHANGED <<cache, failedAge>> /\ dropped' = TRUE
      \/ /\ cache # None /\ cache' = [cache EXCEPT !.miss_refresh_at = 0]
         /\ failedAge' = 0 /\ forcedAge' = 0
  BY DEF ForcedFails, Cancel, HasEntry, TypeOK
<1>4. cache # None => /\ cache \in NodeListEntry /\ cache.fetched_at \in Nat
                      /\ cache' # None /\ cache'.fetched_at = cache.fetched_at
                      /\ cache'.addrs = cache.addrs
  <2>1. cache # None => cache \in NodeListEntry /\ cache.fetched_at \in Nat
    BY DEF TypeOK, NodeListEntry, Age
  <2>2. CASE cache' = cache
    BY <2>1, <2>2
  <2>3. CASE cache # None /\ cache' = [cache EXCEPT !.miss_refresh_at = 0]
    <3>1. 0 \in Age
      BY ForeverNat DEF Age
    <3>2. cache' \in NodeListEntry
      BY <2>1, <2>3, <3>1, Zenon DEF NodeListEntry
    <3>. QED
      BY <2>1, <2>3, <3>2, EntryAssumption DEF NodeListEntry
  <2>. QED
    BY <1>3, <2>2, <2>3
<1>5. cache = None => cache' = None
  BY <1>3
<1>6. (AgesNow /\ ListBacked)'
  BY <1>2, <1>4, <1>5 DEF AgesNow, ListBacked
<1>7. (MissStamp /\ ForcedRemembered)'
  <2>1. CASE UNCHANGED <<cache, failedAge, forcedAge, dropped>>
    BY <2>1 DEF MissStamp, ForcedRemembered
  <2>3. CASE UNCHANGED <<cache, failedAge>> /\ dropped' = TRUE
    BY <2>3 DEF MissStamp, ForcedRemembered
  <2>2. CASE /\ cache # None /\ cache' = [cache EXCEPT !.miss_refresh_at = 0]
             /\ failedAge' = 0 /\ forcedAge' = 0
    <3>1. cache'.miss_refresh_at = 0 /\ cache' # None
      BY <1>4, <2>2 DEF NodeListEntry
    <3>. QED
      BY <2>2, <3>1 DEF MissStamp, ForcedRemembered
  <2>. QED
    BY <1>3, <2>1, <2>2, <2>3
<1>8. (MissLock /\ HasEntry)'
  BY <1>2, <1>4, TimeAssumption DEF MissLock, HasEntry, TypeOK
<1>9. (RepliesBacked /\ GotBacked)'
  BY <1>2 DEF RepliesBacked, GotBacked, Rpc
<1>10. AppearsLate'
  <2>1. took[c] \in Nat /\ took[c] <= MaxRpc
    BY TimeAssumption DEF TypeOK
  <2>. QED
    BY <1>2, <1>4, <1>5, <2>1, TimeAssumption DEF AppearsLate, TypeOK
<1>. QED
  BY <1>1, <1>6, <1>7, <1>8, <1>9, <1>10

(* Ages grow together, up to Forever. *)
LEMMA OlderGrows ==
    ASSUME NEW a \in Age, NEW b \in Age, NEW k \in Nat
    PROVE  /\ a <= b + k => Older(a, Forever) <= Older(b, Forever) + k
           /\ a <= k => Older(a, Forever) <= k + 1
           /\ Older(b, Forever) < Forever => Older(b, Forever) = b + 1 /\ b < Forever
BY ForeverNat DEF Age, Older

(* An age that stops at MissMin keeps up with one that goes on to Forever. *)
LEMMA OlderCapped ==
    ASSUME NEW a \in 0..MissMin, NEW b \in Age
    PROVE  /\ a <= b => Older(a, MissMin) <= Older(b, Forever)
           /\ Older(a, MissMin) < MissMin => Older(a, MissMin) = a + 1 /\ a < MissMin
           /\ b <= a /\ a < MissMin => Older(b, Forever) <= Older(a, MissMin)
BY ForeverNat, TimeAssumption DEF Age, Older

(* Time passes only when no call is between getting a list and acting on it,
   and no lock that is waited for is free. *)
LEMMA NTickStep ==
    ASSUME NInv, Tick
    PROVE  NInv'
<1>. USE DEF NInv
<1>1. TypeOK'
  BY NTypeNext DEF Next
<1>2. /\ UNCHANGED <<listed, refresh, miss, dropped>>
      /\ \A c \in Caller :
            /\ pc'[c] = (IF pc[c] \in Over THEN "idle" ELSE pc[c])
            /\ pc[c] \in Rpc => took'[c] = took[c] + 1 /\ reply'[c] = reply[c]
            /\ pc[c] # "got" /\ (pc[c] = "missing" => miss # None)
      /\ listedAge' = (IF listed THEN 0 ELSE Older(listedAge, Forever))
      /\ absentAge' = (IF listed THEN Older(absentAge, Forever) ELSE 0)
      /\ failedAge' = Older(failedAge, MissMin) /\ forcedAge' = Older(forcedAge, MissMin)
  BY DEF Tick, Waiting, Over, Rpc
<1>3. /\ {listedAge, absentAge} \subseteq Age /\ {failedAge, forcedAge} \subseteq 0..MissMin
      /\ listedAge' \in Nat /\ absentAge' \in Nat
      /\ \A c \in Caller : took[c] \in Nat
  BY <1>1, TimeAssumption DEF TypeOK, Age
<1>4. /\ listedAge' <= Older(listedAge, Forever) /\ absentAge' <= Older(absentAge, Forever)
      /\ Older(listedAge, Forever) \in Nat /\ Older(absentAge, Forever) \in Nat
  BY <1>2, <1>3, ForeverNat DEF Older, Age
<1>5. cache = None => cache' = None
  BY DEF Tick
<1>6. cache # None =>
         /\ cache.fetched_at \in Age /\ cache.miss_refresh_at \in Age
         /\ cache' # None /\ cache'.addrs = cache.addrs
         /\ cache'.fetched_at = Older(cache.fetched_at, Forever)
         /\ cache'.miss_refresh_at = Older(cache.miss_refresh_at, Forever)
  <2>. SUFFICES ASSUME cache # None
                PROVE  /\ cache.fetched_at \in Age /\ cache.miss_refresh_at \in Age
                       /\ cache' # None /\ cache'.addrs = cache.addrs
                       /\ cache'.fetched_at = Older(cache.fetched_at, Forever)
                       /\ cache'.miss_refresh_at = Older(cache.miss_refresh_at, Forever)
    OBVIOUS
  <2>1. /\ cache \in NodeListEntry
        /\ cache' = [cache EXCEPT !.fetched_at = Older(@, Forever), !.miss_refresh_at = Older(@, Forever)]
    BY DEF TypeOK, Tick
  <2>2. Older(cache.fetched_at, Forever) \in Age /\ Older(cache.miss_refresh_at, Forever) \in Age
    BY <2>1, ForeverNat DEF NodeListEntry, Older, Age
  <2>3. cache' \in NodeListEntry
    BY <2>1, <2>2, Zenon DEF NodeListEntry
  <2>. QED
    BY <2>1, <2>3, EntryAssumption, ZenonT(30) DEF NodeListEntry
<1>7. AgesNow'
  BY <1>2 DEF AgesNow
<1>8. (MissLock /\ HasEntry)'
  BY <1>2, <1>6 DEF MissLock, HasEntry, Over, TypeOK
<1>9. RepliesBacked'
  <2>. SUFFICES ASSUME NEW c \in Caller, pc'[c] \in Rpc, reply'[c] # None
                PROVE  IF reply'[c] THEN listedAge' <= took'[c] ELSE absentAge' <= took'[c]
    BY DEF RepliesBacked
  <2>1. pc[c] \in Rpc /\ reply'[c] = reply[c] /\ took'[c] = took[c] + 1
    BY <1>2 DEF Rpc, Over
  <2>2. /\ reply[c] => Older(listedAge, Forever) <= took[c] + 1
        /\ ~reply[c] => Older(absentAge, Forever) <= took[c] + 1
    BY <1>3, <2>1, OlderGrows DEF RepliesBacked
  <2>. QED
    BY <1>3, <1>4, <2>1, <2>2
<1>10. ListBacked'
  <2>. SUFFICES ASSUME cache # None
                PROVE  ListBacked'
    BY <1>5 DEF ListBacked
  <2>1. Older(cache.fetched_at, Forever) \in Nat
    BY <1>6, ForeverNat DEF Older, Age
  <2>2. /\ cache.addrs => Older(listedAge, Forever) <= Older(cache.fetched_at, Forever) + MaxRpc
        /\ ~cache.addrs => Older(absentAge, Forever) <= Older(cache.fetched_at, Forever) + MaxRpc
    BY <1>3, <1>6, OlderGrows, TimeAssumption DEF ListBacked
  <2>. QED
    BY <1>3, <1>4, <1>6, <2>1, <2>2, TimeAssumption DEF ListBacked
<1>11. GotBacked'
  BY <1>2 DEF GotBacked, Over
<1>12. AppearsLate'
  <2>1. /\ cache # None => cache.fetched_at \in Age /\ cache'.addrs = cache.addrs
        /\ cache # None => cache'.fetched_at = Older(cache.fetched_at, Forever)
    BY <1>6
  <2>2. miss # None => miss \in Caller /\ took'[miss] = took[miss] + 1
    BY <1>2 DEF MissLock, TypeOK, Rpc
  <2>3. cache' # None /\ cache'.addrs /\ miss' # None => cache'.fetched_at <= took'[miss']
    BY <1>2, <1>3, <1>5, <2>1, <2>2, OlderGrows, ZenonT(30) DEF AppearsLate
  <2>4. \A c \in Caller : pc'[c] # "got" /\ (pc'[c] = "missing" => miss' # None)
    BY <1>2
  <2>. QED
    BY <2>3, <2>4 DEF AppearsLate
<1>13. MissStamp'
  BY <1>2, <1>3, <1>5, <1>6, OlderGrows, OlderCapped, ForeverNat DEF MissStamp, Age, Older
<1>14. ForcedRemembered'
  BY <1>2, <1>3, <1>5, <1>6, OlderCapped, ForeverNat DEF ForcedRemembered
<1>. QED
  BY <1>1, <1>7, <1>8, <1>9, <1>10, <1>11, <1>12, <1>13, <1>14

----------------------------------------------------------------------------
(* The invariant is inductive ... *)
THEOREM NInvNext == NInv /\ [Next]_vars => NInv'
<1>. SUFFICES ASSUME NInv, [Next]_vars
              PROVE  NInv'
  OBVIOUS
<1>1. CASE UNCHANGED vars
  BY <1>1 DEF vars, taskVars, ages, NInv, TypeOK, AgesNow, MissLock, HasEntry, RepliesBacked,
     ListBacked, GotBacked, AppearsLate, MissStamp, ForcedRemembered
<1>. QED
  BY <1>1, PlainStep, ReadStep, ChainStep, RefreshOkStep, LookStep, LockMissStep, ForcedOkStep,
     ForcedEndsStep, NTickStep DEF Next, Step

(* ... so every reachable state satisfies it. *)
THEOREM NInvAlways == Spec => []NInv
BY NInvInit, NInvNext, PTL DEF Spec

(* Which steps end a call one way or the other, or start a forced refresh. *)
LEMMA Outcomes ==
    ASSUME NInv, [Next]_vars, NEW c \in Caller,
           NEW end \in {"allowed", "refused", "forced"}, Becomes(c, end)
    PROVE  \/ Look(c) /\ end = "allowed"
           \/ LockMiss(c)
           \/ ForcedOk(c) /\ end # "forced"
           \/ ForcedFails(c) /\ end = "refused"
<1>. USE DEF NInv, TypeOK, Becomes
<1>1. ASSUME NEW d \in Caller, Ask(d) \/ LockRefresh(d) \/ RefreshFails(d) \/ RefreshOk(d)
      PROVE  FALSE
  BY <1>1 DEF Ask, LockRefresh, RefreshFails, RefreshOk, Get, Start
<1>2. ASSUME NEW d \in Caller, Read(d) \/ Cancel(d)
      PROVE  FALSE
  BY <1>2 DEF Read, Cancel
<1>3. ASSUME NEW d \in Caller, Look(d)
      PROVE  d = c /\ end = "allowed"
  BY <1>3 DEF Look
<1>4. ASSUME NEW d \in Caller, LockMiss(d)
      PROVE  d = c
  BY <1>4 DEF LockMiss, Start
<1>5. ASSUME NEW d \in Caller, ForcedOk(d)
      PROVE  d = c /\ end # "forced"
  BY <1>5 DEF ForcedOk
<1>6. ASSUME NEW d \in Caller, ForcedFails(d)
      PROVE  d = c /\ end = "refused"
  BY <1>6 DEF ForcedFails
<1>7. CASE ChainChanges \/ Tick \/ UNCHANGED vars
  BY <1>7 DEF ChainChanges, Tick, vars, taskVars
<1>. QED
  BY <1>1, <1>2, <1>3, <1>4, <1>5, <1>6, <1>7 DEF Next, Step

(* The types of the numbers compared below. *)
LEMMA NumberTypes ==
    ASSUME NInv
    PROVE  /\ listedAge \in Nat /\ absentAge \in Nat /\ failedAge \in Nat /\ forcedAge \in Nat
           /\ \A c \in Caller : took[c] \in Nat /\ took[c] <= MaxRpc
           /\ cache # None => cache.fetched_at \in Nat /\ cache.miss_refresh_at \in Nat
BY TimeAssumption DEF NInv, TypeOK, Age, NodeListEntry

(* A removed node is let through for at most the TTL and one RPC more, or for
   two RPCs where one outlasts the TTL, for any number of callers whose
   refreshes overlap and however long an RPC takes. *)
THEOREM RemovalAlwaysEnforced == Spec => RemovalEnforced
<1>1. ASSUME NInv, [Next]_vars, NEW c \in Caller, Becomes(c, "allowed"), ~stale'[c]
      PROVE  listedAge < TTL + MaxRpc \/ listedAge <= 2 * MaxRpc
  <2>. USE <1>1, NumberTypes, TimeAssumption
  <2>1. CASE Look(c)
    BY <2>1 DEF Look, Becomes, NInv, TypeOK, GotBacked
  <2>2. CASE LockMiss(c)
    <3>1. cache # None /\ cache.addrs /\ pc[c] = "missing" /\ miss = None
      BY <2>2 DEF LockMiss, Start, Becomes, NInv, TypeOK, HasEntry
    <3>2. cache.fetched_at <= MaxRpc /\ listedAge <= cache.fetched_at + MaxRpc
      BY <3>1 DEF NInv, AppearsLate, ListBacked
    <3>. QED
      BY <3>1, <3>2
  <2>3. CASE ForcedOk(c)
    <3>1. reply[c] /\ reply[c] # None /\ pc[c] = "forced"
      BY <2>3 DEF ForcedOk, Becomes, NInv, TypeOK
    <3>2. listedAge <= took[c]
      BY <3>1, ZenonT(30) DEF NInv, RepliesBacked, Rpc
    <3>. QED
      BY <3>2
  <2>. QED
    BY <2>1, <2>2, <2>3, Outcomes
<1>2. NInv /\ [Next]_vars =>
        [\A c \in Caller : Becomes(c, "allowed") /\ ~stale'[c]
            => listedAge < TTL + MaxRpc \/ listedAge <= 2 * MaxRpc]_vars
  BY <1>1
<1>. QED
  BY <1>2, NInvAlways, PTL DEF Spec, RemovalEnforced

(* A signer that has re-registered is refused for at most MISS_REFRESH_MIN and
   one RPC, unless the RPC fails. *)
THEOREM ReRegisteredAdmitted == Spec => ReRegistered
<1>1. ASSUME NInv, [Next]_vars, NEW c \in Caller, Becomes(c, "refused")
      PROVE  absentAge < MissMin + MaxRpc \/ failedAge' < MissMin
  <2>. USE <1>1, NumberTypes, TimeAssumption, ForeverNat
  <2>1. CASE LockMiss(c)
    <3>1. cache # None /\ ~cache.addrs /\ TooRecent /\ failedAge' = failedAge
      BY <2>1 DEF LockMiss, Start, Becomes, NInv, TypeOK, HasEntry, ages
    <3>2. absentAge <= cache.fetched_at + MaxRpc
      BY <3>1 DEF NInv, ListBacked
    <3>3. cache.miss_refresh_at < MissMin =>
             cache.fetched_at <= cache.miss_refresh_at \/ failedAge <= cache.miss_refresh_at
      BY <3>1 DEF NInv, MissStamp
    <3>. QED
      BY <3>1, <3>2, <3>3 DEF TooRecent
  <2>2. CASE ForcedOk(c)
    <3>1. ~reply[c] /\ reply[c] # None /\ pc[c] = "forced"
      BY <2>2 DEF ForcedOk, Becomes, NInv, TypeOK
    <3>2. absentAge <= took[c]
      BY <3>1 DEF NInv, RepliesBacked, Rpc
    <3>. QED
      BY <3>2
  <2>3. CASE ForcedFails(c)
    BY <2>3 DEF ForcedFails
  <2>. QED
    BY <2>1, <2>2, <2>3, Outcomes
<1>2. NInv /\ [Next]_vars =>
        [\A c \in Caller : Becomes(c, "refused")
            => absentAge < MissMin + MaxRpc \/ failedAge' < MissMin]_vars
  BY <1>1
<1>. QED
  BY <1>2, NInvAlways, PTL DEF Spec, ReRegistered

(* A stream of requests from missing signers forces a refresh less than
   MISS_REFRESH_MIN after the last only when that one was dropped. *)
THEOREM ForcedRefreshesRare == Spec => ForcedRarely
<1>1. ASSUME NInv, [Next]_vars, NEW c \in Caller, Becomes(c, "forced")
      PROVE  forcedAge >= MissMin \/ dropped
  <2>. USE <1>1, NumberTypes, TimeAssumption, ForeverNat
  <2>1. LockMiss(c)
    BY Outcomes
  <2>2. cache # None /\ ~TooRecent
    BY <2>1 DEF LockMiss, Becomes, NInv, TypeOK, HasEntry
  <2>. QED
    BY <2>2 DEF TooRecent, NInv, ForcedRemembered
<1>2. NInv /\ [Next]_vars =>
        [\A c \in Caller : Becomes(c, "forced") => forcedAge >= MissMin \/ dropped]_vars
  BY <1>1
<1>. QED
  BY <1>2, NInvAlways, PTL DEF Spec, ForcedRarely
=============================================================================
