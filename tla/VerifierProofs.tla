--------------------------- MODULE VerifierProofs ---------------------------
(***************************************************************************)
(* Proofs about Verifier for any number of callers and any durations: at   *)
(* most one call per key asks scan, nobody is let through except on a      *)
(* verdict confirmed within MAX_VERDICT_STALENESS that no recorded refusal *)
(* has followed, and nobody queues behind a call that is over.             *)
(***************************************************************************)
EXTENDS Verifier, TLAPS

(* The calls that own a lock. *)
Owning == Fetching \cup {"allow", "deny"}

(* An entry was confirmed before it was last stamped. *)
AgesOrdered == cache # None => cache.at <= cache.confirmed_at

(* A call that asks scan owns the lock that is in the map. *)
OwnersHold ==
    \A c \in Caller : pc[c] \in Owning =>
        held[c] \in Lock /\ owner[held[c]] = c /\ entry = held[c]

(* A queued call has a lock; if it is no longer in the map it is free, and the
   cache has the answer. *)
Orphans ==
    \A c \in Caller : pc[c] = "queued" =>
        /\ held[c] \in Lock
        /\ held[c] # entry => Decided /\ owner[held[c]] = None

(* Nobody asks scan for what the cache answers. *)
AskingUndecided == \A c \in Caller : pc[c] \in Fetching => ~Decided

(* A call that has written its answer finds it in the cache. *)
AnswerCached ==
    \A c \in Caller : /\ pc[c] = "allow" => CachedAllow
                      /\ pc[c] = "deny" => CachedDeny

(* An answered call has scan's last word, and it is fresh. *)
LastWord ==
    \A c \in Caller : pc[c] = "answered" =>
        /\ outcome[c] \in Answers
        /\ outcome[c] = "yes" => last = "yes" /\ yesAge = 0

Verdict(c) == pc[c] = "answered" /\ outcome[c] \in {"yes", "no"}

(* A positive entry rests on a verdict of scan, which is its last unless a
   newer one is about to be written or was lost. *)
Vouched ==
    cache # None /\ cache.verified =>
        /\ yesAge <= cache.confirmed_at
        /\ last \in {"yes", "lost"} \/ \E c \in Caller : Verdict(c)

VInv ==
    /\ TypeOK /\ AgesOrdered /\ OwnersHold /\ Orphans
    /\ AskingUndecided /\ AnswerCached /\ LastWord /\ Vouched

----------------------------------------------------------------------------
LEMMA VInvInit == Init => VInv
BY DurationAssumption DEF Init, VInv, TypeOK, AgesOrdered, OwnersHold, Orphans, AskingUndecided,
   AnswerCached, LastWord, Vouched, Verdict, Owning, Fetching, Over, Steps, Age

(* Owning the lock in the map, a call is alone. *)
LEMMA OwnerIsAlone ==
    ASSUME OwnersHold, NEW c \in Caller, NEW d \in Caller,
           pc[c] \in Owning, pc[d] \in Owning
    PROVE  c = d
BY DEF OwnersHold

(* What an answer leaves in the cache decides, and is an entry. *)
LEMMA UpdatedDecides ==
    ASSUME TypeOK, AgesOrdered, NEW a \in Answers
    PROVE  /\ Updated(a) \in CacheEntry
           /\ Updated(a).at = 0
           /\ Updated(a).verified => Updated(a).confirmed_at < MaxStaleness
           /\ ~Updated(a).verified => 0 < Updated(a).damp
           /\ a = "yes" => Updated(a).confirmed_at = 0
           /\ a = "no" => ~Updated(a).verified
           /\ Updated(a).verified /\ a \notin {"yes", "no"} =>
                 cache # None /\ cache.verified /\ Updated(a).confirmed_at = cache.confirmed_at
<1>. USE DurationAssumption, EntryAssumption
<1>1. CASE a \in {"yes", "no"}
  BY <1>1 DEF Updated, Refusal, CacheEntry, Age
<1>2. CASE a \notin {"yes", "no"} /\ StalePositive
  <2>1. Updated(a) = [cache EXCEPT !.at = 0] /\ cache \in CacheEntry
    BY <1>2 DEF Updated, StalePositive, TypeOK
  <2>. QED
    BY <1>2, <2>1 DEF StalePositive, CacheEntry, Age
<1>3. CASE a \notin {"yes", "no"} /\ ~StalePositive
  <2>1. Updated(a) = Refusal(IF a = "unknown" THEN ScanLagDamp ELSE NegativeTTL)
    BY <1>3 DEF Updated
  <2>. QED
    BY <1>3, <2>1 DEF Refusal, CacheEntry, Age
<1>. QED
  BY <1>1, <1>2, <1>3

(* Steps keep the state well typed. *)
LEMMA VTypeNext ==
    ASSUME VInv, [Next]_vars
    PROVE  TypeOK'
<1>. USE DurationAssumption DEF VInv, TypeOK, Steps, Fetching, Over
<1>1. ASSUME NEW c \in Caller, NEW w \in {0, ScanLagWait}, Ask(c, w)
      PROVE  TypeOK'
  BY <1>1 DEF Ask, CachedAnswer
<1>2. ASSUME NEW c \in Caller, NEW l \in Lock, GetLock(c, l)
      PROVE  TypeOK'
  BY <1>2 DEF GetLock
<1>3. ASSUME NEW c \in Caller, Acquire(c)
      PROVE  TypeOK'
  BY <1>3 DEF Acquire, CachedAnswer
<1>4. ASSUME NEW c \in Caller, NEW a \in Answers, Answer(c, a)
      PROVE  TypeOK'
  BY <1>4 DEF Answer, Age
<1>5. ASSUME NEW c \in Caller, Sleep(c)
      PROVE  TypeOK'
  BY <1>5 DEF Sleep
<1>6. ASSUME NEW c \in Caller, Wake(c)
      PROVE  TypeOK'
  BY <1>6 DEF Wake
<1>7. ASSUME NEW c \in Caller, Apply(c)
      PROVE  TypeOK'
  <2>1. outcome[c] \in Answers
    BY <1>7 DEF Apply, LastWord
  <2>2. cache' \in CacheEntry
    BY <1>7, <2>1, UpdatedDecides DEF Apply
  <2>. QED
    BY <1>7, <2>2 DEF Apply
<1>8. ASSUME NEW c \in Caller, Leave(c)
      PROVE  TypeOK'
  BY <1>8, Zenon DEF Leave
<1>9. ASSUME NEW c \in Caller, Cancel(c)
      PROVE  TypeOK'
  BY <1>9 DEF Cancel
<1>10. CASE Evict
  BY <1>10 DEF Evict
<1>11. CASE Tick
  <2>1. cache' \in CacheEntry \cup {None}
    <3>1. CASE cache \in CacheEntry
      <4>1. cache.at \in Age /\ cache.confirmed_at \in Age
        BY <3>1 DEF CacheEntry
      <4>2. Older(cache.at) \in Age /\ Older(cache.confirmed_at) \in Age
        BY <4>1 DEF Older, Age
      <4>3. cache' = [cache EXCEPT !.at = Older(@), !.confirmed_at = Older(@)]
        BY <1>11, <3>1, EntryAssumption DEF Tick
      <4>. QED
        BY <3>1, <4>2, <4>3, Zenon DEF CacheEntry
    <3>. QED
      BY <1>11, <3>1 DEF Tick
  <2>2. left' \in [Caller -> Nat] /\ timer' \in [Caller -> Nat] /\ yesAge' \in Age
    BY <1>11 DEF Tick, Older, Less, Age
  <2>. QED
    BY <1>11, <2>1, <2>2 DEF Tick
<1>12. CASE UNCHANGED vars
  BY <1>12 DEF vars
<1>. QED
  BY <1>1, <1>2, <1>3, <1>4, <1>5, <1>6, <1>7, <1>8, <1>9, <1>10, <1>11, <1>12, SMTT(30) DEF Next, Step

----------------------------------------------------------------------------
(* Each step keeps the invariant. *)

LEMMA SameCache ==
    ASSUME cache' = cache
    PROVE  /\ CachedAllow' <=> CachedAllow
           /\ CachedDeny' <=> CachedDeny
           /\ Decided' <=> Decided
BY DEF CachedAllow, CachedDeny, Decided

(* A call asks and reads the cache, or finds nothing there. *)
LEMMA AskStep ==
    ASSUME VInv, NEW c \in Caller, NEW w \in {0, ScanLagWait}, Ask(c, w)
    PROVE  VInv'
<1>. USE DEF VInv
<1>1. TypeOK'
  BY VTypeNext DEF Next
<1>2. /\ UNCHANGED <<cache, entry, owner, held, outcome, last, yesAge>>
      /\ \A d \in Caller \ {c} : pc'[d] = pc[d]
      /\ pc[c] = "idle" /\ pc'[c] \in {"allowed", "denied", "miss"}
  BY DEF Ask, CachedAnswer, TypeOK
<1>3. (AgesOrdered /\ OwnersHold /\ Orphans /\ AskingUndecided /\ AnswerCached)'
  BY <1>2, SameCache DEF AgesOrdered, OwnersHold, Orphans, AskingUndecided, AnswerCached, Owning,
     Fetching
<1>4. (LastWord /\ Vouched)'
  BY <1>2 DEF LastWord, Vouched, Verdict
<1>. QED
  BY <1>1, <1>3, <1>4

(* A new lock is nobody's, so no call that queues on another one is lost. *)
LEMMA GetLockStep ==
    ASSUME VInv, NEW c \in Caller, NEW l \in Lock, GetLock(c, l)
    PROVE  VInv'
<1>. USE DEF VInv
<1>1. TypeOK'
  BY VTypeNext DEF Next, Step
<1>2. /\ UNCHANGED <<cache, owner, outcome, last, yesAge>>
      /\ \A d \in Caller \ {c} : pc'[d] = pc[d] /\ held'[d] = held[d]
      /\ pc[c] = "miss" /\ pc'[c] = "queued" /\ held'[c] = l /\ entry' = l
      /\ IF entry = None THEN \A d \in Caller : held[d] # l ELSE l = entry
  BY DEF GetLock, InUse, TypeOK
<1>3. OwnersHold'
  BY <1>2, DurationAssumption DEF OwnersHold, Owning, Fetching
<1>4. Orphans'
  BY <1>2, SameCache, DurationAssumption DEF Orphans
<1>5. (AgesOrdered /\ AskingUndecided /\ AnswerCached)'
  BY <1>2, SameCache DEF AgesOrdered, AskingUndecided, AnswerCached, Fetching
<1>6. (LastWord /\ Vouched)'
  BY <1>2 DEF LastWord, Vouched, Verdict
<1>. QED
  BY <1>1, <1>3, <1>4, <1>5, <1>6

(* The recheck: who finds no answer owns the lock that is in the map. *)
LEMMA AcquireStep ==
    ASSUME VInv, NEW c \in Caller, Acquire(c)
    PROVE  VInv'
<1>. USE DEF VInv
<1>1. TypeOK'
  BY VTypeNext DEF Next, Step
<1>2. /\ UNCHANGED <<cache, entry, outcome, last, yesAge>>
      /\ \A d \in Caller \ {c} : pc'[d] = pc[d] /\ held'[d] = held[d]
      /\ pc[c] = "queued" /\ owner[held[c]] = None /\ held[c] \in Lock
  BY DEF Acquire, TypeOK, Orphans
<1>3. (AgesOrdered /\ LastWord /\ Vouched)'
  <2>1. pc'[c] # "answered"
    BY DEF Acquire, TypeOK, CachedAnswer
  <2>. QED
    BY <1>2, <2>1 DEF AgesOrdered, LastWord, Vouched, Verdict
<1>4. CASE Decided
  <2>1. UNCHANGED owner /\ pc'[c] \in {"allowed", "denied"}
    BY <1>4 DEF Acquire, TypeOK, CachedAnswer
  <2>2. (OwnersHold /\ Orphans /\ AskingUndecided /\ AnswerCached)'
    BY <1>2, <2>1, SameCache DEF OwnersHold, Orphans, AskingUndecided, AnswerCached, Owning,
       Fetching
  <2>. QED
    BY <1>1, <1>3, <2>2
<1>5. CASE ~Decided
  <2>1. pc'[c] = "fetch" /\ UNCHANGED held /\ held[c] = entry
    BY <1>5, <1>2 DEF Acquire, TypeOK, Orphans
  <2>2. owner' = [owner EXCEPT ![held[c]] = c]
    BY <1>5 DEF Acquire
  <2>3. \A d \in Caller \ {c} : pc[d] \notin Owning
    BY <1>2, <2>1, DurationAssumption DEF OwnersHold
  <2>4. OwnersHold'
    BY <1>2, <2>1, <2>2, <2>3 DEF OwnersHold, TypeOK, Owning
  <2>5. (Orphans /\ AskingUndecided /\ AnswerCached)'
    BY <1>2, <1>5, <2>1, <2>3, SameCache DEF Orphans, AskingUndecided, AnswerCached, Owning,
       Fetching
  <2>. QED
    BY <1>1, <1>3, <2>4, <2>5
<1>. QED
  BY <1>4, <1>5

(* Scan's answer is the last word: no other call is asking. *)
LEMMA AnswerStep ==
    ASSUME VInv, NEW c \in Caller, NEW a \in Answers, Answer(c, a)
    PROVE  VInv'
<1>. USE DEF VInv
<1>1. TypeOK'
  BY VTypeNext DEF Next, Step
<1>2. /\ UNCHANGED <<cache, entry, owner, held>>
      /\ \A d \in Caller \ {c} : pc'[d] = pc[d] /\ outcome'[d] = outcome[d]
      /\ pc[c] \in {"fetch", "refetch"} /\ pc'[c] = "answered" /\ outcome'[c] = a
      /\ last' = (IF a \in {"yes", "no"} THEN a ELSE last)
      /\ yesAge' = (IF a = "yes" THEN 0 ELSE yesAge)
  BY DEF Answer, TypeOK
<1>3. \A d \in Caller \ {c} : pc[d] \notin Owning
  BY <1>2, OwnerIsAlone DEF Owning, Fetching
<1>4. (AgesOrdered /\ OwnersHold /\ Orphans /\ AskingUndecided /\ AnswerCached)'
  BY <1>2, SameCache DEF AgesOrdered, OwnersHold, Orphans, AskingUndecided, AnswerCached, Owning,
     Fetching
<1>5. LastWord'
  BY <1>2, <1>3 DEF LastWord, Owning, Fetching
<1>6. Vouched'
  <2>1. cache # None /\ cache.verified => cache.confirmed_at \in Nat
    BY DEF TypeOK, CacheEntry, Age
  <2>. QED
    BY <1>2, <1>3, <2>1 DEF Vouched, Verdict, Owning, Fetching, Answers
<1>. QED
  BY <1>1, <1>4, <1>5, <1>6

(* Polling goes on only without a verdict. *)
LEMMA PollStep ==
    ASSUME VInv, NEW c \in Caller, Sleep(c) \/ Wake(c)
    PROVE  VInv'
<1>. USE DEF VInv
<1>1. TypeOK'
  BY VTypeNext DEF Next, Step
<1>2. /\ UNCHANGED <<cache, entry, owner, held, outcome, last, yesAge>>
      /\ \A d \in Caller \ {c} : pc'[d] = pc[d]
      /\ pc[c] \in Fetching /\ pc'[c] \in {"sleep", "refetch"}
      /\ ~Verdict(c)
  BY DEF Sleep, Wake, PollAgain, TypeOK, Fetching, Verdict
<1>3. (AgesOrdered /\ OwnersHold /\ Orphans /\ AskingUndecided /\ AnswerCached)'
  BY <1>2, SameCache DEF AgesOrdered, OwnersHold, Orphans, AskingUndecided, AnswerCached, Owning,
     Fetching
<1>4. LastWord'
  BY <1>2 DEF LastWord
<1>5. Vouched'
  BY <1>2 DEF Vouched, Verdict
<1>. QED
  BY <1>1, <1>3, <1>4, <1>5

(* The write: what is cached decides, and a re-stamped positive rests on the
   verdict it rested on. *)
LEMMA ApplyStep ==
    ASSUME VInv, NEW c \in Caller, Apply(c)
    PROVE  VInv'
<1>. USE DEF VInv
<1>. DEFINE u == Updated(outcome[c])
<1>1. TypeOK'
  BY VTypeNext DEF Next, Step
<1>2. /\ UNCHANGED <<entry, owner, held, outcome, last, yesAge>>
      /\ \A d \in Caller \ {c} : pc'[d] = pc[d]
      /\ pc[c] = "answered" /\ pc'[c] = (IF u.verified THEN "allow" ELSE "deny")
      /\ cache' = u /\ outcome[c] \in Answers
  BY DEF Apply, TypeOK, LastWord
<1>3. /\ u \in CacheEntry /\ u.at = 0
      /\ u.verified => u.confirmed_at < MaxStaleness
      /\ ~u.verified => 0 < u.damp
      /\ outcome[c] = "yes" => u.confirmed_at = 0
      /\ outcome[c] = "no" => ~u.verified
      /\ u.verified /\ outcome[c] \notin {"yes", "no"} =>
            cache # None /\ cache.verified /\ u.confirmed_at = cache.confirmed_at
  BY <1>2, UpdatedDecides
<1>. HIDE DEF u
<1>4. \A d \in Caller \ {c} : pc[d] \notin Owning
  BY <1>2, OwnerIsAlone DEF Owning, Fetching
<1>5. /\ u.verified => CachedAllow'
      /\ ~u.verified => CachedDeny'
      /\ Decided'
  BY <1>2, <1>3, EntryAssumption, DurationAssumption DEF CachedAllow, CachedDeny, Decided
<1>6. AgesOrdered'
  BY <1>2, <1>3 DEF AgesOrdered, CacheEntry, Age
<1>7. (OwnersHold /\ Orphans)'
  BY <1>2, <1>5 DEF OwnersHold, Orphans, Owning, Fetching
<1>8. (AskingUndecided /\ AnswerCached /\ LastWord)'
  BY <1>2, <1>4, <1>5 DEF AskingUndecided, AnswerCached, LastWord, Owning, Fetching
<1>9. Vouched'
  <2>1. CASE outcome[c] \in {"yes", "no"}
    BY <1>2, <1>3, <2>1, DurationAssumption DEF Vouched, LastWord
  <2>2. CASE outcome[c] \notin {"yes", "no"}
    BY <1>2, <1>3, <1>4, <2>2 DEF Vouched, Verdict, Owning, Fetching
  <2>. QED
    BY <2>1, <2>2
<1>. QED
  BY <1>1, <1>6, <1>7, <1>8, <1>9

(* Who still queues on the removed lock finds it free and the cache filled. *)
LEMMA LeaveStep ==
    ASSUME VInv, NEW c \in Caller, Leave(c)
    PROVE  VInv'
<1>. USE DEF VInv
<1>1. TypeOK'
  BY VTypeNext DEF Next, Step
<1>2. /\ UNCHANGED <<cache, last, yesAge>> /\ entry' = None
      /\ \A d \in Caller \ {c} : /\ pc'[d] = pc[d] /\ held'[d] = held[d]
                                 /\ outcome'[d] = outcome[d]
      /\ pc[c] \in {"allow", "deny"} /\ pc'[c] \in {"allowed", "denied"}
      /\ owner' = [owner EXCEPT ![held[c]] = None]
  BY DEF Leave, TypeOK
<1>3. /\ \A d \in Caller \ {c} : pc[d] \notin Owning
      /\ held[c] = entry /\ Decided
  BY <1>2, OwnerIsAlone DEF Owning, OwnersHold, AnswerCached, Decided
<1>4. (AgesOrdered /\ OwnersHold /\ AskingUndecided /\ AnswerCached)'
  BY <1>2, <1>3, SameCache DEF AgesOrdered, OwnersHold, AskingUndecided, AnswerCached, Owning,
     Fetching
<1>5. Orphans'
  BY <1>2, <1>3, SameCache DEF Orphans, TypeOK
<1>6. (LastWord /\ Vouched)'
  BY <1>2 DEF LastWord, Vouched, Verdict
<1>. QED
  BY <1>1, <1>4, <1>5, <1>6

(* A dropped future frees its lock and leaves it in the map. *)
LEMMA CancelStep ==
    ASSUME VInv, NEW c \in Caller, Cancel(c)
    PROVE  VInv'
<1>. USE DEF VInv
<1>1. TypeOK'
  BY VTypeNext DEF Next
<1>2. /\ UNCHANGED <<cache, entry, yesAge>>
      /\ \A d \in Caller \ {c} : /\ pc'[d] = pc[d] /\ held'[d] = held[d]
                                 /\ outcome'[d] = outcome[d]
      /\ pc'[c] = "gone"
      /\ last' = (IF pc[c] = "answered" /\ outcome[c] = "no" THEN "lost" ELSE last)
      /\ \A l \in Lock : owner'[l] = (IF owner[l] = c THEN None ELSE owner[l])
  BY DEF Cancel, TypeOK
<1>3. (OwnersHold /\ Orphans)'
  BY <1>2, SameCache DEF OwnersHold, Orphans, Owning, Fetching
<1>4. (AgesOrdered /\ AskingUndecided /\ AnswerCached)'
  BY <1>2, SameCache DEF AgesOrdered, AskingUndecided, AnswerCached, Fetching
<1>5. pc[c] = "answered" => \A d \in Caller \ {c} : pc[d] \notin Owning
  BY OwnerIsAlone DEF Owning, Fetching
<1>6. LastWord'
  BY <1>2, <1>5 DEF LastWord, Owning, Fetching
<1>7. Vouched'
  BY <1>2, <1>5 DEF Vouched, Verdict, LastWord, Owning, Fetching
<1>. QED
  BY <1>1, <1>3, <1>4, <1>6, <1>7

(* An entry that old decides nothing. *)
LEMMA EvictStep ==
    ASSUME VInv, Evict
    PROVE  VInv'
<1>. USE DEF VInv
<1>1. TypeOK'
  BY VTypeNext DEF Next
<1>2. ~Decided
  BY DurationAssumption
     DEF Evict, Decided, CachedAllow, CachedDeny, AgesOrdered, TypeOK, CacheEntry, Age
<1>3. cache' = None /\ UNCHANGED <<entry, owner, held, pc, outcome, last, yesAge>>
  BY DEF Evict
<1>4. ~Decided'
  BY <1>3 DEF Decided, CachedAllow, CachedDeny
<1>5. (OwnersHold /\ Orphans)'
  BY <1>2, <1>3 DEF OwnersHold, Orphans
<1>6. (AgesOrdered /\ AskingUndecided /\ AnswerCached)'
  BY <1>2, <1>3, <1>4 DEF AgesOrdered, AskingUndecided, AnswerCached, Decided
<1>7. (LastWord /\ Vouched)'
  BY <1>3 DEF LastWord, Vouched, Verdict
<1>. QED
  BY <1>1, <1>5, <1>6, <1>7

(* Time passes only when no call queues on a free lock: ageing entries never
   strand one. *)
LEMMA TickStep ==
    ASSUME VInv, Tick
    PROVE  VInv'
<1>. USE DEF VInv
<1>1. TypeOK'
  BY VTypeNext DEF Next
<1>2. /\ UNCHANGED <<entry, owner, held, outcome, last>> /\ yesAge' = Older(yesAge)
      /\ \A d \in Caller : pc'[d] = (IF pc[d] \in Over THEN "idle" ELSE pc[d])
  BY DEF Tick
<1>3. \A d \in Caller : /\ pc[d] \notin {"answered", "allow", "deny"}
                        /\ pc[d] = "queued" => owner[held[d]] # None
  BY DEF Tick, Waiting, Over
<1>4. OwnersHold'
  BY <1>2 DEF OwnersHold, Owning, Fetching, Over
<1>5. Orphans'
  <2>. SUFFICES ASSUME NEW d \in Caller, pc'[d] = "queued"
                PROVE  held'[d] \in Lock /\ held'[d] = entry'
    BY DEF Orphans
  <2>1. pc[d] = "queued"
    BY <1>2
  <2>. QED
    BY <1>2, <1>3, <2>1 DEF Orphans
<1>6. (AnswerCached /\ LastWord)'
  <2>1. \A d \in Caller : pc'[d] \notin {"answered", "allow", "deny"}
    BY <1>2, <1>3
  <2>. QED
    BY <2>1 DEF AnswerCached, LastWord
<1>7. CASE cache = None
  <2>1. cache' = None
    BY <1>7 DEF Tick
  <2>2. ~Decided'
    BY <2>1 DEF Decided, CachedAllow, CachedDeny
  <2>3. (AgesOrdered /\ Vouched)'
    BY <2>1 DEF AgesOrdered, Vouched
  <2>. QED
    BY <1>1, <1>4, <1>5, <1>6, <2>2, <2>3 DEF AskingUndecided
<1>8. CASE cache # None
  <2>1. /\ cache \in CacheEntry
        /\ cache' = [cache EXCEPT !.at = Older(@), !.confirmed_at = Older(@)]
    BY <1>8 DEF Tick, TypeOK
  <2>2. /\ cache'.verified = cache.verified /\ cache'.damp = cache.damp
        /\ cache'.at = Older(cache.at) /\ cache'.confirmed_at = Older(cache.confirmed_at)
    BY <2>1 DEF CacheEntry
  <2>3. /\ cache.at \in Age /\ cache.confirmed_at \in Age /\ yesAge \in Age
        /\ cache.damp \in Nat
    BY <2>1, DurationAssumption DEF CacheEntry, TypeOK
  <2>4. ~Decided => ~Decided'
    BY <1>8, <2>2, <2>3, DurationAssumption DEF Decided, CachedAllow, CachedDeny, Older, Age
  <2>5. AgesOrdered'
    BY <1>8, <2>2, <2>3, DurationAssumption DEF AgesOrdered, Older, Age
  <2>6. AskingUndecided'
    BY <1>2, <2>4 DEF AskingUndecided, Fetching, Over
  <2>7. Vouched'
    <3>1. ~cache.verified \/ (last \in {"yes", "lost"} /\ yesAge <= cache.confirmed_at)
      BY <1>3, <1>8 DEF Vouched, Verdict
    <3>2. yesAge <= cache.confirmed_at => yesAge' <= cache'.confirmed_at
      BY <1>2, <2>2, <2>3, DurationAssumption DEF Older, Age
    <3>. QED
      BY <1>2, <2>2, <3>1, <3>2 DEF Vouched
  <2>. QED
    BY <1>1, <1>4, <1>5, <1>6, <2>5, <2>6, <2>7
<1>. QED
  BY <1>7, <1>8

----------------------------------------------------------------------------
(* The invariant is inductive ... *)
THEOREM VInvNext == VInv /\ [Next]_vars => VInv'
<1>. SUFFICES ASSUME VInv, [Next]_vars
              PROVE  VInv'
  OBVIOUS
<1>1. ASSUME NEW c \in Caller, Step(c)
      PROVE  VInv'
  BY <1>1, GetLockStep, AcquireStep, AnswerStep, PollStep, ApplyStep, LeaveStep DEF Step
<1>2. CASE UNCHANGED vars
  BY <1>2, SameCache DEF vars, VInv, TypeOK, AgesOrdered, OwnersHold, Orphans, AskingUndecided,
     AnswerCached, LastWord, Vouched, Verdict
<1>. QED
  BY <1>1, <1>2, AskStep, CancelStep, EvictStep, TickStep DEF Next

(* ... so every reachable state satisfies it. *)
THEOREM VInvAlways == Spec => []VInv
BY VInvInit, VInvNext, PTL DEF Spec

(* One call per key asks scan, although the winner takes the lock out of the
   map while others queue on it and dropped calls leave theirs there. *)
THEOREM SingleFlightAlways == Spec => []SingleFlight
<1>1. VInv => SingleFlight
  BY OwnerIsAlone DEF VInv, SingleFlight, Owning
<1>. QED
  BY <1>1, VInvAlways, PTL

(* A call that returns "allowed" does so on a cached positive, and nobody is
   asking scan. *)
LEMMA AllowedStep ==
    ASSUME VInv, [Next]_vars, NEW c \in Caller, pc'[c] = "allowed", pc[c] # "allowed"
    PROVE  last \in {"yes", "lost"} /\ yesAge < MaxStaleness
<1>1. CachedAllow
  <2>1. ASSUME NEW d \in Caller, Step(d) \/ Cancel(d)
        PROVE  CachedAllow
    <3>1. CASE Acquire(d) \/ Leave(d)
      BY <3>1 DEF Acquire, Leave, CachedAnswer, VInv, TypeOK, AnswerCached
    <3>2. CASE \E l \in Lock : GetLock(d, l)
      BY <3>2 DEF GetLock, VInv, TypeOK
    <3>3. CASE \E a \in Answers : Answer(d, a)
      BY <3>3 DEF Answer, VInv, TypeOK
    <3>4. CASE Sleep(d) \/ Wake(d) \/ Apply(d) \/ Cancel(d)
      BY <3>4 DEF Sleep, Wake, Apply, Cancel, VInv, TypeOK
    <3>. QED
      BY <2>1, <3>1, <3>2, <3>3, <3>4 DEF Step
  <2>2. ASSUME NEW d \in Caller, NEW w \in {0, ScanLagWait}, Ask(d, w)
        PROVE  CachedAllow
    BY <2>2 DEF Ask, CachedAnswer, VInv, TypeOK
  <2>3. CASE Evict \/ Tick \/ UNCHANGED vars
    BY <2>3 DEF Evict, Tick, vars
  <2>. QED
    BY <2>1, <2>2, <2>3 DEF Next
<1>2. \A d \in Caller : ~Verdict(d)
  BY <1>1 DEF VInv, AskingUndecided, Decided, Verdict, Fetching
<1>3. last \in {"yes", "lost"} /\ yesAge <= cache.confirmed_at
  BY <1>1, <1>2 DEF VInv, Vouched, CachedAllow
<1>4. cache \in CacheEntry /\ yesAge \in Nat
  BY <1>1 DEF VInv, TypeOK, CachedAllow, Age
<1>. QED
  BY <1>1, <1>3, <1>4, DurationAssumption DEF CachedAllow, CacheEntry, Age

(* Nobody is let through except on a verdict given less than
   MAX_VERDICT_STALENESS ago, and scan's last one unless that was lost with its
   call, for every choice of the durations. *)
THEOREM AllowedOnlyOnVerdict == Spec => AllowedOnVerdict
<1>1. VInv /\ [Next]_vars =>
         [\A c \in Caller : pc'[c] = "allowed" /\ pc[c] # "allowed"
                               => last \in {"yes", "lost"} /\ yesAge < MaxStaleness]_vars
  BY AllowedStep
<1>. QED
  BY <1>1, VInvAlways, PTL DEF Spec, AllowedOnVerdict

(* The verifier keeps to its types: ages stay within their saturation, and
   locks, callers and cache entries are what ensure_authorized expects. *)
THEOREM VerifierTypeCorrect == Spec => []TypeOK
<1>1. VInv => TypeOK
  BY DEF VInv
<1> QED
  BY <1>1, VInvAlways, PTL

----------------------------------------------------------------------------
(* What a queued call waits for.  A lock has no owner but a call that works
   under it: whoever returns or is dropped has released it. *)
OwnersWork ==
    \A l \in Lock : owner[l] # None => pc[owner[l]] \in Owning /\ held[owner[l]] = l

(* A call sleeps only as long as its deadline for a lagging scan allows. *)
SleepsInTime == \A c \in Caller : pc[c] = "sleep" => timer[c] <= left[c]

(* A call queues on a free lock, or behind another call that asks scan or is
   about to return, and that does not sleep past its deadline. *)
QueueMoves ==
    \A c \in Caller : pc[c] = "queued" =>
        \/ owner[held[c]] = None
        \/ \E d \in Caller \ {c} : /\ owner[held[c]] = d /\ pc[d] \in Owning
                                   /\ pc[d] = "sleep" => timer[d] <= left[d]

QVInv == VInv /\ OwnersWork /\ SleepsInTime

(* Only the owner of a lock changes what the lock waits for. *)
LEMMA OwnersWorkStep ==
    ASSUME VInv, OwnersWork, [Next]_vars
    PROVE  OwnersWork'
<1>0. TypeOK /\ None \notin Caller
  BY DurationAssumption DEF VInv
<1>1. ASSUME NEW c \in Caller, NEW w \in {0, ScanLagWait}, Ask(c, w)
      PROVE  OwnersWork'
  <2>1. /\ UNCHANGED <<owner, held>> /\ pc[c] = "idle"
        /\ \A d \in Caller \ {c} : pc'[d] = pc[d]
    BY <1>0, <1>1 DEF Ask, TypeOK
  <2>. QED
    BY <1>0, <2>1 DEF OwnersWork, Owning, Fetching, TypeOK
<1>2. ASSUME NEW c \in Caller, NEW l \in Lock, GetLock(c, l)
      PROVE  OwnersWork'
  <2>1. /\ UNCHANGED owner /\ pc[c] = "miss"
        /\ \A d \in Caller \ {c} : pc'[d] = pc[d] /\ held'[d] = held[d]
    BY <1>0, <1>2 DEF GetLock, TypeOK
  <2>. QED
    BY <1>0, <2>1 DEF OwnersWork, Owning, Fetching, TypeOK
<1>3. ASSUME NEW c \in Caller, Acquire(c)
      PROVE  OwnersWork'
  <2>1. /\ pc[c] = "queued"
        /\ \A d \in Caller \ {c} : pc'[d] = pc[d] /\ held'[d] = held[d]
        /\ \/ UNCHANGED owner
           \/ /\ owner' = [owner EXCEPT ![held[c]] = c]
              /\ pc'[c] = "fetch" /\ UNCHANGED held
    BY <1>0, <1>3 DEF Acquire, TypeOK
  <2>. QED
    BY <1>0, <2>1 DEF OwnersWork, Owning, Fetching, TypeOK
<1>4. ASSUME NEW c \in Caller,
             Sleep(c) \/ Wake(c) \/ Apply(c) \/ \E a \in Answers : Answer(c, a)
      PROVE  OwnersWork'
  <2>1. /\ UNCHANGED <<owner, held>> /\ pc'[c] \in Owning
        /\ \A d \in Caller \ {c} : pc'[d] = pc[d]
    BY <1>0, <1>4 DEF Sleep, Wake, Apply, Answer, TypeOK, Owning, Fetching
  <2>. QED
    BY <1>0, <2>1 DEF OwnersWork, TypeOK
<1>5. ASSUME NEW c \in Caller, Leave(c)
      PROVE  OwnersWork'
  <2>1. /\ owner' = [owner EXCEPT ![held[c]] = None]
        /\ \A d \in Caller \ {c} : pc'[d] = pc[d] /\ held'[d] = held[d]
    BY <1>0, <1>5 DEF Leave, TypeOK
  <2>. QED
    BY <1>0, <2>1 DEF OwnersWork, TypeOK
<1>6. ASSUME NEW c \in Caller, Cancel(c)
      PROVE  OwnersWork'
  <2>1. /\ \A l \in Lock : owner'[l] = (IF owner[l] = c THEN None ELSE owner[l])
        /\ \A d \in Caller \ {c} : pc'[d] = pc[d] /\ held'[d] = held[d]
    BY <1>0, <1>6 DEF Cancel, TypeOK
  <2>. QED
    BY <1>0, <2>1 DEF OwnersWork, TypeOK
<1>7. CASE Evict \/ UNCHANGED vars
  BY <1>7 DEF Evict, vars, OwnersWork
<1>8. CASE Tick
  <2>1. /\ UNCHANGED <<owner, held>>
        /\ \A d \in Caller : pc[d] \in Owning => pc'[d] = pc[d]
    BY <1>8 DEF Tick, Owning, Fetching, Over
  <2>. QED
    BY <1>0, <2>1 DEF OwnersWork, TypeOK
<1>. QED
  BY <1>1, <1>2, <1>3, <1>4, <1>5, <1>6, <1>7, <1>8, Zenon DEF Next, Step

(* A call goes to sleep with time for it, and time runs for both alike. *)
LEMMA SleepsStep ==
    ASSUME VInv, SleepsInTime, [Next]_vars
    PROVE  SleepsInTime'
<1>0. TypeOK
  BY DEF VInv
<1>1. ASSUME NEW c \in Caller, \A d \in Caller \ {c} : /\ pc'[d] = pc[d] /\ timer'[d] = timer[d]
                                                      /\ left'[d] = left[d],
             pc'[c] = "sleep" => timer'[c] <= left'[c]
      PROVE  SleepsInTime'
  BY <1>1, Zenon DEF SleepsInTime
<1>2. ASSUME NEW c \in Caller, Sleep(c)
      PROVE  SleepsInTime'
  BY <1>0, <1>1, <1>2 DEF Sleep, PollAgain, TypeOK
<1>3. ASSUME NEW c \in Caller, NEW w \in {0, ScanLagWait}, Ask(c, w)
      PROVE  SleepsInTime'
  BY <1>0, <1>1, <1>3 DEF Ask, CachedAnswer, TypeOK
<1>4. ASSUME NEW c \in Caller, \/ Acquire(c) \/ Wake(c) \/ Apply(c) \/ Leave(c) \/ Cancel(c)
                               \/ \E l \in Lock : GetLock(c, l)
                               \/ \E a \in Answers : Answer(c, a)
      PROVE  SleepsInTime'
  <2>1. /\ pc'[c] # "sleep"
        /\ \A d \in Caller \ {c} : pc'[d] = pc[d] /\ timer'[d] = timer[d] /\ left'[d] = left[d]
    BY <1>0, <1>4
       DEF Acquire, CachedAnswer, Wake, Apply, Leave, Cancel, GetLock, Answer, TypeOK
  <2>. QED
    BY <1>1, <2>1, Zenon
<1>5. CASE Evict \/ UNCHANGED vars
  BY <1>5 DEF Evict, vars, SleepsInTime
<1>6. CASE Tick
  <2>. SUFFICES ASSUME NEW c \in Caller, pc'[c] = "sleep"
                PROVE  timer'[c] <= left'[c]
    BY DEF SleepsInTime
  <2>1. pc[c] = "sleep"
    BY <1>6 DEF Tick
  <2>2. timer'[c] = Less(timer[c]) /\ left'[c] = Less(left[c])
    BY <1>6, <2>1 DEF Tick
  <2>3. timer[c] \in Nat /\ left[c] \in Nat /\ timer[c] <= left[c]
    BY <1>0, <2>1 DEF TypeOK, SleepsInTime
  <2>. QED
    BY <2>2, <2>3 DEF Less
<1>. QED
  BY <1>2, <1>3, <1>4, <1>5, <1>6, Zenon DEF Next, Step

(* Nobody queues behind a call that is over, behind itself, or on a lock that
   was forgotten: the safety half of "every call returns", for any number of
   calls and locks. *)
THEOREM NobodyQueuesInVain == Spec => []QueueMoves
<1>1. Init => QVInv
  BY VInvInit DEF Init, QVInv, OwnersWork, SleepsInTime
<1>2. QVInv /\ [Next]_vars => QVInv'
  BY VInvNext, OwnersWorkStep, SleepsStep, Zenon DEF QVInv
<1>3. QVInv => QueueMoves
  <2>. SUFFICES ASSUME QVInv, NEW c \in Caller, pc[c] = "queued", owner[held[c]] # None
                PROVE  \E d \in Caller \ {c} : /\ owner[held[c]] = d /\ pc[d] \in Owning
                                               /\ pc[d] = "sleep" => timer[d] <= left[d]
    BY Zenon DEF QueueMoves
  <2>1. held[c] \in Lock
    BY Zenon DEF QVInv, VInv, Orphans
  <2>2. owner[held[c]] \in Caller
    BY <2>1, Zenon DEF QVInv, VInv, TypeOK
  <2>3. pc[owner[held[c]]] \in Owning
    BY <2>1, Zenon DEF QVInv, OwnersWork
  <2>4. owner[held[c]] # c
    BY <2>3 DEF Owning, Fetching
  <2>. QED
    BY <2>2, <2>3, <2>4, Zenon DEF QVInv, SleepsInTime
<1>. QED
  BY <1>1, <1>2, <1>3, PTL DEF Spec
=============================================================================
