--------------------------- MODULE NodeListCache ---------------------------
(***************************************************************************)
(* The nodeList cache of src/chain.rs, seen from one app and one signer:   *)
(* a list is modelled by whether it contains the signer.  A plain refresh  *)
(* (get_signer_addresses) and a refresh forced by a missing signer         *)
(* (get_signer_addresses_for) run under different locks, so their RPCs     *)
(* overlap and the older list may be written last.                         *)
(*                                                                         *)
(* Time is counted in ticks and instants are kept as ages that stop at     *)
(* Forever, or at MissMin where nothing older is told apart; a tick passes *)
(* only when every task waits for a lock or for the chain.  The chain is   *)
(* external: the list changes at any time, an RPC reads it once and then   *)
(* replies or fails within MaxRpc ticks.                                   *)
(***************************************************************************)
EXTENDS Naturals

CONSTANTS
    Caller,   \* concurrent calls of get_signer_addresses_for
    None,
    TTL,      \* NODE_LIST_TTL
    MissMin,  \* MISS_REFRESH_MIN
    MaxRpc    \* bound: the longest a getNodeList call takes

ASSUME TimeAssumption ==
    /\ TTL \in Nat \ {0} /\ MissMin \in Nat \ {0} /\ MaxRpc \in Nat
    /\ None \notin Caller \cup BOOLEAN

VARIABLES
    listed,     \* the registry lists the signer now
    cache,      \* the NodeListEntry, None if there is none
    refresh,    \* who holds refresh_lock
    miss,       \* who holds the app's lock of miss_locks
    pc,         \* where each call is
    addrs,      \* whether the list it got contains the signer
    reply,      \* what its RPC read, None before the read
    took,       \* how long its RPC has been running
    stale,      \* history: its list is a fallback after a failed RPC
    listedAge,  \* history: ticks since the signer was last listed,
    absentAge,  \*   since it was last absent,
    failedAge,  \*   since an RPC last failed,
    forcedAge,  \*   since a forced refresh last ended, however it ended
    dropped     \* history: the last forced refresh went with its caller

taskVars == <<pc, addrs, reply, took, stale>>
ages     == <<listedAge, absentAge, failedAge, forcedAge>>
vars     == <<listed, cache, refresh, miss, taskVars, ages, dropped>>

Forever == TTL + MissMin + 2 * MaxRpc + 1
Age     == 0..Forever
Rpc     == {"fetch", "forced"}
Over    == {"allowed", "refused", "failed", "gone"}
Steps   == {"idle", "expired", "got", "missing"} \cup Rpc \cup Over

(* A miss_refresh_at of None counts as Forever ago. *)
NodeListEntry == [addrs : BOOLEAN, fetched_at : Age, miss_refresh_at : Age]

ASSUME EntryAssumption == None \notin NodeListEntry

TypeOK ==
    /\ listed \in BOOLEAN
    /\ cache \in NodeListEntry \cup {None}
    /\ {refresh, miss} \subseteq Caller \cup {None}
    /\ pc \in [Caller -> Steps]
    /\ addrs \in [Caller -> BOOLEAN] /\ stale \in [Caller -> BOOLEAN]
    /\ reply \in [Caller -> BOOLEAN \cup {None}]
    /\ took \in [Caller -> 0..MaxRpc]
    /\ {listedAge, absentAge} \subseteq Age
    /\ {failedAge, forcedAge} \subseteq 0..MissMin
    /\ dropped \in BOOLEAN

Init ==
    /\ listed \in BOOLEAN
    /\ cache = None /\ refresh = None /\ miss = None
    /\ pc = [c \in Caller |-> "idle"]
    /\ addrs = [c \in Caller |-> FALSE] /\ stale = [c \in Caller |-> FALSE]
    /\ reply = [c \in Caller |-> None]
    /\ took = [c \in Caller |-> 0]
    /\ listedAge = (IF listed THEN 0 ELSE Forever)
    /\ absentAge = (IF listed THEN Forever ELSE 0)
    /\ failedAge = MissMin /\ forcedAge = MissMin /\ dropped = FALSE

----------------------------------------------------------------------------
Fresh == cache # None /\ cache.fetched_at < TTL

(* Got a list: go on to look for the signer in it. *)
Get(c, list, fallback) ==
    /\ pc' = [pc EXCEPT ![c] = "got"]
    /\ addrs' = [addrs EXCEPT ![c] = list]
    /\ stale' = [stale EXCEPT ![c] = fallback]

(* No RPC of this call has run yet, or runs any more. *)
ClearRpc(c) ==
    /\ took' = [took EXCEPT ![c] = 0]
    /\ reply' = [reply EXCEPT ![c] = None]

Start(c, rpc) ==
    /\ pc' = [pc EXCEPT ![c] = rpc]
    /\ ClearRpc(c)
    /\ UNCHANGED <<addrs, stale>>

(* get_signer_addresses: a fresh hit costs no chain call. *)
Ask(c) ==
    /\ pc[c] = "idle"
    /\ IF Fresh THEN Get(c, cache.addrs, FALSE)
                ELSE pc' = [pc EXCEPT ![c] = "expired"] /\ UNCHANGED <<addrs, stale>>
    /\ UNCHANGED <<listed, cache, refresh, miss, reply, took, ages, dropped>>

(* refresh_lock taken; someone may have refreshed meanwhile. *)
LockRefresh(c) ==
    /\ pc[c] = "expired" /\ refresh = None
    /\ IF Fresh
       THEN Get(c, cache.addrs, FALSE) /\ UNCHANGED <<refresh, reply, took>>
       ELSE Start(c, "fetch") /\ refresh' = c
    /\ UNCHANGED <<listed, cache, miss, ages, dropped>>

(* The chain reads the list for an RPC. *)
Read(c) ==
    /\ pc[c] \in Rpc /\ reply[c] = None
    /\ reply' = [reply EXCEPT ![c] = listed]
    /\ UNCHANGED <<listed, cache, refresh, miss, pc, addrs, took, stale, ages, dropped>>

Entry(list, missAge) == [addrs |-> list, fetched_at |-> 0, miss_refresh_at |-> missAge]

RefreshOk(c) ==
    /\ pc[c] = "fetch" /\ reply[c] # None
    /\ cache' = Entry(reply[c], Forever)
    /\ Get(c, reply[c], FALSE)
    /\ refresh' = None
    /\ ClearRpc(c)
    /\ UNCHANGED <<listed, miss, ages, dropped>>

(* Mutant: the fallback counts as a refresh. *)
RefreshFailsRestamp(c) ==
    /\ pc[c] = "fetch"
    /\ IF cache # None
       THEN Get(c, cache.addrs, TRUE) /\ cache' = [cache EXCEPT !.fetched_at = 0]
       ELSE pc' = [pc EXCEPT ![c] = "failed"] /\ UNCHANGED <<cache, addrs, stale>>
    /\ refresh' = None
    /\ failedAge' = 0
    /\ ClearRpc(c)
    /\ UNCHANGED <<listed, miss, listedAge, absentAge, forcedAge, dropped>>

(* The RPC failed: the stale list if there is one. *)
RefreshFails(c) ==
    /\ pc[c] = "fetch"
    /\ IF cache # None THEN Get(c, cache.addrs, TRUE)
                       ELSE pc' = [pc EXCEPT ![c] = "failed"] /\ UNCHANGED <<addrs, stale>>
    /\ refresh' = None
    /\ failedAge' = 0
    /\ ClearRpc(c)
    /\ UNCHANGED <<listed, cache, miss, listedAge, absentAge, forcedAge, dropped>>

(* get_signer_addresses_for: is the signer in the list? *)
Look(c) ==
    /\ pc[c] = "got"
    /\ pc' = [pc EXCEPT ![c] = IF addrs[c] THEN "allowed" ELSE "missing"]
    /\ UNCHANGED <<listed, cache, refresh, miss, addrs, reply, took, stale, ages, dropped>>

(* Mutant: a recent attempt that failed is not remembered. *)
TooRecentSuccess == cache.fetched_at < MissMin

(* Mutant: the floor is the TTL itself. *)
TooRecentTTL == cache.fetched_at < TTL \/ cache.miss_refresh_at < MissMin

(* A refresh, or an attempt at a forced one, is too recent to repeat. *)
TooRecent == cache.fetched_at < MissMin \/ cache.miss_refresh_at < MissMin

(* The miss lock taken: answer from the cache, or force a refresh. *)
LockMiss(c) ==
    /\ pc[c] = "missing" /\ miss = None
    /\ IF cache # None /\ (cache.addrs \/ TooRecent)
       THEN /\ pc' = [pc EXCEPT ![c] = IF cache.addrs THEN "allowed" ELSE "refused"]
            /\ stale' = [stale EXCEPT ![c] = FALSE]
            /\ UNCHANGED <<miss, addrs, reply, took>>
       ELSE Start(c, "forced") /\ miss' = c
    /\ UNCHANGED <<listed, cache, refresh, ages, dropped>>

ForcedOk(c) ==
    /\ pc[c] = "forced" /\ reply[c] # None
    /\ cache' = Entry(reply[c], 0)
    /\ pc' = [pc EXCEPT ![c] = IF reply[c] THEN "allowed" ELSE "refused"]
    /\ stale' = [stale EXCEPT ![c] = FALSE]
    /\ miss' = None
    /\ forcedAge' = 0 /\ dropped' = FALSE
    /\ ClearRpc(c)
    /\ UNCHANGED <<listed, refresh, addrs, listedAge, absentAge, failedAge>>

(* A failed attempt is remembered in the entry; the caller keeps its list. *)
ForcedFails(c) ==
    /\ pc[c] = "forced"
    /\ cache' = [cache EXCEPT !.miss_refresh_at = 0]
    /\ pc' = [pc EXCEPT ![c] = "refused"]
    /\ miss' = None
    /\ forcedAge' = 0 /\ failedAge' = 0 /\ dropped' = FALSE
    /\ ClearRpc(c)
    /\ UNCHANGED <<listed, refresh, addrs, stale, listedAge, absentAge>>

(* The caller disconnects and the server drops the future, with its locks; a
   forced refresh that was running is not remembered. *)
Cancel(c) ==
    /\ pc[c] \in {"expired", "missing"} \cup Rpc
    /\ pc' = [pc EXCEPT ![c] = "gone"]
    /\ refresh' = (IF refresh = c THEN None ELSE refresh)
    /\ miss' = (IF miss = c THEN None ELSE miss)
    /\ forcedAge' = (IF pc[c] = "forced" THEN 0 ELSE forcedAge)
    /\ dropped' = (IF pc[c] = "forced" THEN TRUE ELSE dropped)
    /\ ClearRpc(c)
    /\ UNCHANGED <<listed, cache, addrs, stale, listedAge, absentAge, failedAge>>

(* updateNode and friends: the registry starts or stops listing the signer. *)
ChainChanges ==
    /\ listed' = ~listed
    /\ listedAge' = 0 /\ absentAge' = 0
    /\ UNCHANGED <<cache, refresh, miss, taskVars, failedAge, forcedAge, dropped>>

Waiting(c) ==
    \/ pc[c] \in {"idle"} \cup Over
    \/ pc[c] = "expired" /\ refresh # None
    \/ pc[c] = "missing" /\ miss # None
    \/ pc[c] \in Rpc /\ took[c] < MaxRpc

Older(age, cap) == IF age < cap THEN age + 1 ELSE age

Tick ==
    /\ \A c \in Caller : Waiting(c)
    /\ cache' = IF cache = None THEN None
                ELSE [cache EXCEPT !.fetched_at = Older(@, Forever),
                                    !.miss_refresh_at = Older(@, Forever)]
    /\ took' = [c \in Caller |-> IF pc[c] \in Rpc THEN took[c] + 1 ELSE 0]
    /\ pc' = [c \in Caller |-> IF pc[c] \in Over THEN "idle" ELSE pc[c]]
    /\ addrs' = [c \in Caller |-> addrs[c] /\ pc[c] \notin Over]
    /\ stale' = [c \in Caller |-> stale[c] /\ pc[c] \notin Over]
    /\ listedAge' = (IF listed THEN 0 ELSE Older(listedAge, Forever))
    /\ absentAge' = (IF listed THEN Older(absentAge, Forever) ELSE 0)
    /\ failedAge' = Older(failedAge, MissMin) /\ forcedAge' = Older(forcedAge, MissMin)
    /\ UNCHANGED <<listed, refresh, miss, reply, dropped>>

Step(c) ==
    \/ LockRefresh(c) \/ Read(c) \/ RefreshOk(c) \/ RefreshFails(c)
    \/ Look(c) \/ LockMiss(c) \/ ForcedOk(c) \/ ForcedFails(c)

Next ==
    \/ \E c \in Caller : Ask(c) \/ Step(c) \/ Cancel(c)
    \/ ChainChanges \/ Tick

Spec == Init /\ [][Next]_vars

----------------------------------------------------------------------------
(* Properties *)

Becomes(c, end) == pc[c] # end /\ pc'[c] = end

(* A membership change is enforced within NODE_LIST_TTL of the RPC that could
   have seen it: a signer let through on a list that is not a fallback was on
   the chain less than TTL and one RPC ago, also when two refreshes overlap and
   the older list is written last.  A call that waited for the miss lock takes
   the entry without looking at its age (chain.rs:201), so where an RPC may
   outlast the TTL the entry can be expired; it is then still no older than the
   RPC the call waited for. *)
RemovalEnforced ==
    [][\A c \in Caller : Becomes(c, "allowed") /\ ~stale'[c]
          => listedAge < TTL + MaxRpc \/ listedAge <= 2 * MaxRpc]_vars

(* A node that re-registers is not refused on an old list: a refused signer
   was absent from the chain less than MISS_REFRESH_MIN and one RPC ago, or the
   RPC failed that recently. *)
ReRegistered ==
    [][\A c \in Caller : Becomes(c, "refused")
          => absentAge < MissMin + MaxRpc \/ failedAge' < MissMin]_vars

(* The floor under forced refreshes holds for every one that ran to its end,
   whatever plain refreshes overwrite the entry meanwhile: one starts less than
   MISS_REFRESH_MIN after the last only if that one was dropped with its caller,
   which leaves no miss_refresh_at behind (chain.rs:207-224). *)
ForcedRarely ==
    [][\A c \in Caller : Becomes(c, "forced") => forcedAge >= MissMin \/ dropped]_vars
=============================================================================
