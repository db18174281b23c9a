------------------------------ MODULE Verifier ------------------------------
(***************************************************************************)
(* The attested-admission gate of src/verifier.rs for one (app, signer)    *)
(* key: the verdict cache with its damping and staleness rules, the        *)
(* per-key single-flight lock and its removal, and the polling of a scan   *)
(* service that lags the chain.                                            *)
(*                                                                         *)
(* Time is counted in ticks.  Instants are kept as ages, which stop at     *)
(* MaxStaleness.  A tick passes only when every task waits for a timer,    *)
(* the network or another task: local steps take no time worth counting.   *)
(* Scan is external: each request gets any answer, after any delay.        *)
(***************************************************************************)
EXTENDS Integers

CONSTANTS
    Caller,           \* concurrent calls of require_verified
    Lock,             \* lock objects of fetch_locks
    None,
    PositiveRefresh,  \* POSITIVE_REFRESH
    NegativeTTL,      \* NEGATIVE_TTL
    MaxStaleness,     \* MAX_VERDICT_STALENESS
    ScanLagWait,      \* SCAN_LAG_WAIT
    ScanLagPoll,      \* SCAN_LAG_POLL
    ScanLagDamp       \* SCAN_LAG_DAMP

ASSUME DurationAssumption ==
    /\ {PositiveRefresh, NegativeTTL, MaxStaleness, ScanLagPoll, ScanLagDamp} \subseteq Nat \ {0}
    /\ ScanLagWait \in Nat
    /\ NegativeTTL <= MaxStaleness /\ ScanLagDamp <= MaxStaleness
    /\ None \notin Lock /\ None \notin Caller

VARIABLES
    cache,   \* the entry of the key, None if there is none
    entry,   \* fetch_locks: the lock stored for the key
    owner,   \* who holds each lock
    held,    \* the lock each call has cloned
    pc,      \* where each call is
    outcome, \* the last answer it got from scan
    left,    \* ticks until its deadline for a lagging scan
    timer,   \* ticks until its poll sleep ends
    last,    \* history: the last verdict scan gave, "lost" for a refusal that was
             \*   dropped with its call before it was recorded
    yesAge   \* history: ticks since scan last said verified

vars == <<cache, entry, owner, held, pc, outcome, left, timer, last, yesAge>>

Answers  == {"yes", "no", "unknown", "error"}
Fetching == {"fetch", "sleep", "refetch", "answered"}
Over     == {"allowed", "denied", "gone"}
Steps    == {"idle", "miss", "queued", "allow", "deny"} \cup Fetching \cup Over
Age      == 0..MaxStaleness

CacheEntry ==
    [verified : BOOLEAN, damp : {0, NegativeTTL, ScanLagDamp}, at : Age, confirmed_at : Age]

ASSUME EntryAssumption == None \notin CacheEntry

TypeOK ==
    /\ cache \in CacheEntry \cup {None}
    /\ entry \in Lock \cup {None}
    /\ owner \in [Lock -> Caller \cup {None}]
    /\ held \in [Caller -> Lock \cup {None}]
    /\ pc \in [Caller -> Steps]
    /\ outcome \in [Caller -> Answers \cup {None}]
    /\ left \in [Caller -> Nat] /\ timer \in [Caller -> Nat]
    /\ last \in {"yes", "no", "lost", "none"} /\ yesAge \in Age

Init ==
    /\ cache = None /\ entry = None
    /\ owner = [l \in Lock |-> None]
    /\ held = [c \in Caller |-> None]
    /\ pc = [c \in Caller |-> "idle"]
    /\ outcome = [c \in Caller |-> None]
    /\ left = [c \in Caller |-> 0] /\ timer = [c \in Caller |-> 0]
    /\ last = "none" /\ yesAge = MaxStaleness

----------------------------------------------------------------------------
(* cached_decision *)
CachedAllow ==
    /\ cache # None /\ cache.verified
    /\ cache.at < PositiveRefresh
    /\ cache.confirmed_at < MaxStaleness

CachedDeny == cache # None /\ ~cache.verified /\ cache.at < cache.damp

Decided == CachedAllow \/ CachedDeny
CachedAnswer == IF CachedAllow THEN "allowed" ELSE "denied"

(* Mutant: a positive is usable for ever. *)
StalePositiveNoCap == cache # None /\ cache.verified

(* has_stale_positive, and the test in restamp_stale. *)
StalePositive == cache # None /\ cache.verified /\ cache.confirmed_at < MaxStaleness

(* require_verified: the first look at the cache.  A peer call passes 0. *)
Ask(c, w) ==
    /\ pc[c] = "idle"
    /\ pc' = [pc EXCEPT ![c] = IF Decided THEN CachedAnswer ELSE "miss"]
    /\ left' = [left EXCEPT ![c] = w]
    /\ UNCHANGED <<cache, entry, owner, held, outcome, timer, last, yesAge>>

InUse(l) == entry = l \/ \E c \in Caller : held[c] = l

(* fetch_locks.entry(key).or_default().clone() *)
GetLock(c, l) ==
    /\ pc[c] = "miss"
    /\ IF entry = None THEN ~InUse(l) ELSE l = entry
    /\ entry' = l
    /\ held' = [held EXCEPT ![c] = l]
    /\ pc' = [pc EXCEPT ![c] = "queued"]
    /\ UNCHANGED <<cache, owner, outcome, left, timer, last, yesAge>>

(* Mutant: no second look at the cache under the lock. *)
AcquireNoRecheck(c) ==
    /\ pc[c] = "queued" /\ owner[held[c]] = None
    /\ owner' = [owner EXCEPT ![held[c]] = c]
    /\ pc' = [pc EXCEPT ![c] = "fetch"]
    /\ UNCHANGED <<cache, entry, held, outcome, left, timer, last, yesAge>>

(* The lock is ours; the winner usually filled the cache. *)
Acquire(c) ==
    /\ pc[c] = "queued" /\ owner[held[c]] = None
    /\ IF Decided
       THEN /\ pc' = [pc EXCEPT ![c] = CachedAnswer]
            /\ held' = [held EXCEPT ![c] = None]
            /\ UNCHANGED owner
       ELSE /\ owner' = [owner EXCEPT ![held[c]] = c]
            /\ pc' = [pc EXCEPT ![c] = "fetch"]
            /\ UNCHANGED held
    /\ UNCHANGED <<cache, entry, outcome, left, timer, last, yesAge>>

(* fetch: scan's verdict, its 404, or a failed request. *)
Answer(c, a) ==
    /\ pc[c] \in {"fetch", "refetch"}
    /\ outcome' = [outcome EXCEPT ![c] = a]
    /\ pc' = [pc EXCEPT ![c] = "answered"]
    /\ last' = IF a \in {"yes", "no"} THEN a ELSE last
    /\ yesAge' = IF a = "yes" THEN 0 ELSE yesAge
    /\ UNCHANGED <<cache, entry, owner, held, left, timer>>

(* Scan cannot vouch, there is nothing to fall back on, and there is time to
   ask again. *)
PollAgain(c) ==
    /\ outcome[c] \in {"unknown", "error"}
    /\ ~StalePositive
    /\ ScanLagPoll <= left[c]

Sleep(c) ==
    /\ pc[c] = "answered" /\ PollAgain(c)
    /\ pc' = [pc EXCEPT ![c] = "sleep"]
    /\ timer' = [timer EXCEPT ![c] = ScanLagPoll]
    /\ UNCHANGED <<cache, entry, owner, held, outcome, left, last, yesAge>>

Wake(c) ==
    /\ pc[c] = "sleep" /\ timer[c] = 0
    /\ pc' = [pc EXCEPT ![c] = "refetch"]
    /\ UNCHANGED <<cache, entry, owner, held, outcome, left, timer, last, yesAge>>

Refusal(damp) == [verified |-> FALSE, damp |-> damp, at |-> 0, confirmed_at |-> 0]

(* The entry after answer a: a verdict replaces it; without one a usable
   positive is re-stamped, and anything else becomes a refusal. *)
Updated(a) ==
    CASE a = "yes" -> [verified |-> TRUE, damp |-> 0, at |-> 0, confirmed_at |-> 0]
      [] a = "no"  -> Refusal(NegativeTTL)
      [] OTHER     -> IF StalePositive THEN [cache EXCEPT !.at = 0]
                      ELSE Refusal(IF a = "unknown" THEN ScanLagDamp ELSE NegativeTTL)

Apply(c) ==
    /\ pc[c] = "answered" /\ ~PollAgain(c)
    /\ cache' = Updated(outcome[c])
    /\ pc' = [pc EXCEPT ![c] = IF Updated(outcome[c]).verified THEN "allow" ELSE "deny"]
    /\ UNCHANGED <<entry, owner, held, outcome, left, timer, last, yesAge>>

(* Mutant: the lock is not released. *)
LeaveLocked(c) ==
    /\ pc[c] \in {"allow", "deny"}
    /\ entry' = None
    /\ held' = [held EXCEPT ![c] = None]
    /\ outcome' = [outcome EXCEPT ![c] = None]
    /\ pc' = [pc EXCEPT ![c] = IF pc[c] = "allow" THEN "allowed" ELSE "denied"]
    /\ UNCHANGED <<cache, owner, left, timer, last, yesAge>>

(* Remove the key's lock from the map, whichever it is, release ours, return. *)
Leave(c) ==
    /\ pc[c] \in {"allow", "deny"}
    /\ entry' = None
    /\ owner' = [owner EXCEPT ![held[c]] = None]
    /\ held' = [held EXCEPT ![c] = None]
    /\ outcome' = [outcome EXCEPT ![c] = None]
    /\ pc' = [pc EXCEPT ![c] = IF pc[c] = "allow" THEN "allowed" ELSE "denied"]
    /\ UNCHANGED <<cache, left, timer, last, yesAge>>

(* The caller disconnects and the server drops the future at an await: the
   lock is released, but stays in the map, and an answer that is not in the
   cache yet is forgotten. *)
Cancel(c) ==
    /\ pc[c] \notin Over \cup {"idle"}
    /\ owner' = [l \in Lock |-> IF owner[l] = c THEN None ELSE owner[l]]
    /\ held' = [held EXCEPT ![c] = None]
    /\ outcome' = [outcome EXCEPT ![c] = None]
    /\ pc' = [pc EXCEPT ![c] = "gone"]
    /\ timer' = [timer EXCEPT ![c] = 0]
    /\ last' = (IF pc[c] = "answered" /\ outcome[c] = "no" THEN "lost" ELSE last)
    /\ UNCHANGED <<cache, entry, left, yesAge>>

(* Another key's fetch finds the cache too large and drops old entries. *)
Evict ==
    /\ cache # None /\ cache.at = MaxStaleness
    /\ cache' = None
    /\ UNCHANGED <<entry, owner, held, pc, outcome, left, timer, last, yesAge>>

(* The call waits for a timer, for scan or for the lock. *)
Waiting(c) ==
    \/ pc[c] \in {"idle", "fetch", "refetch"} \cup Over
    \/ pc[c] = "queued" /\ owner[held[c]] # None
    \/ pc[c] = "sleep" /\ timer[c] > 0

Older(age) == IF age < MaxStaleness THEN age + 1 ELSE age

(* Mutant: the time left is not cut off at 0. *)
LessWrapping(t) == t - 1

(* What is left of a wait, cut off at 0. *)
Less(t) == IF t > 0 THEN t - 1 ELSE 0

(* A call that is over makes room for another. *)
Tick ==
    /\ \A c \in Caller : Waiting(c)
    /\ cache' = IF cache = None THEN None
                ELSE [cache EXCEPT !.at = Older(@), !.confirmed_at = Older(@)]
    /\ timer' = [c \in Caller |-> Less(timer[c])]
    /\ left' = [c \in Caller |-> CASE pc[c] \in {"sleep", "refetch"} -> Less(left[c])
                                   [] pc[c] \in Over -> 0
                                   [] OTHER -> left[c]]
    /\ pc' = [c \in Caller |-> IF pc[c] \in Over THEN "idle" ELSE pc[c]]
    /\ yesAge' = Older(yesAge)
    /\ UNCHANGED <<entry, owner, held, outcome, last>>

Step(c) ==
    \/ \E l \in Lock : GetLock(c, l)
    \/ Acquire(c)
    \/ \E a \in Answers : Answer(c, a)
    \/ Sleep(c) \/ Wake(c) \/ Apply(c) \/ Leave(c)

Next ==
    \/ \E c \in Caller : Step(c) \/ Cancel(c) \/ \E w \in {0, ScanLagWait} : Ask(c, w)
    \/ Evict \/ Tick

Spec == Init /\ [][Next]_vars

(* Every request to scan ends (REQUEST_TIMEOUT), tokio's mutex is fair, and
   time passes. *)
FairSpec ==
    Spec /\ WF_vars(Tick) /\ \A c \in Caller : WF_vars(Step(c)) /\ SF_vars(Acquire(c))

----------------------------------------------------------------------------
(* Properties *)

(* "Per-key single-flight: one fetches, the rest wait", although the lock is
   taken out of the map while calls still queue on it. *)
SingleFlight ==
    \A c, d \in Caller : pc[c] \in Fetching /\ pc[d] \in Fetching => c = d

(* A signer is let through only on scan's word: scan said "verified" less than
   MAX_VERDICT_STALENESS ago and has said nothing else since ("an explicit
   revocation must not leave a stale-positive escape hatch behind"), whatever
   failed re-stamps and reordered calls happened.  The one refusal that is
   passed over is one whose call was dropped while it waited for the cache's
   lock (verifier.rs:306, 316); the staleness cap holds then too. *)
AllowedOnVerdict ==
    [][\A c \in Caller : pc'[c] = "allowed" /\ pc[c] # "allowed"
                            => last \in {"yes", "lost"} /\ yesAge < MaxStaleness]_vars

(* Every call is answered: nobody is left queueing on a removed lock. *)
EveryCallReturns == \A c \in Caller : pc[c] # "idle" ~> pc[c] = "idle"
=============================================================================
