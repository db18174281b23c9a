-------------------------- MODULE ShareStoreProofs --------------------------
(***************************************************************************)
(* Proofs about ShareStore, for any number of sessions, restarts, epochs   *)
(* and masters.                                                            *)
(***************************************************************************)
EXTENDS ShareStore, TLAPS

Early == {"open", "write", "rename"}
Late  == {"baseline", "record", "gpk", "shard"}

(* The share and the group pubkey in memory, by the phase of form_cluster. *)
Phases ==
    /\ pc = "down" => /\ \A t \in Task : ~Busy(t)
                      /\ ~persist_fail /\ ~injected /\ explicit = None
    /\ pc # "up" => /\ shard = None /\ ~overlapped
                    /\ \A t \in Task : Busy(t) => t = Main
                    /\ group_pubkey # None => At(Main, "shard")
    /\ pc = "up" => shard \in Share /\ group_pubkey = shard.master

(* A session that stores a share of the master that the node knows. *)
Working(t) ==
    Busy(t) =>
       /\ task[t].share \in Share
       /\ group_pubkey # None => task[t].share.master = group_pubkey
       /\ At(t, "shard") => group_pubkey = task[t].share.master
       /\ At(t, "wait") => pc = "boot" /\ Source = Sealed(task[t].share)
       /\ pc = "boot" => task[t].at \in {"wait"} \cup Late
       /\ task[t].at \in Early => path

(* The verdict on master m. *)
Judged(m) ==
    /\ verdict = 1 => anchor = m
    /\ verdict = 0 => anchor \notin {None, m}
    /\ faults = 0 => verdict # -1

Anchored ==
    /\ baseline = anchor
    /\ \A t \in Task : At(t, "record") /\ baseline # None => baseline = task[t].share.master
    /\ path /\ pc = "up" => Judged(group_pubkey)
    /\ path /\ pc # "up" /\ task[Main].at \in {"gpk", "shard"} => Judged(task[Main].share.master)

(* Sessions that do not overlap have the .tmp for themselves. *)
Alone ==
    ~overlapped => \A t \in Task :
       /\ \A o \in Task : Busy(t) /\ Busy(o) => o = t
       /\ task[t].at \in Early => task[t].fd = "tmp"
       /\ At(t, "rename") => tmp = Sealed(task[t].share)

(* What a session has persisted. *)
Filed(t) ==
    Busy(t) /\ ~overlapped =>
       /\ pc = "boot" /\ task[t].at \in Late =>
             /\ sealed_share = Sealed(task[t].share)
             /\ injected <=> explicit # None
             /\ ~injected => file = Sealed(task[t].share)
       /\ pc # "boot" /\ ~persist_fail =>
             /\ sealed_share = Sealed(task[t].share)
             /\ path /\ task[t].at \in Late => file = Sealed(task[t].share)

(* The file before a session has replaced it. *)
Current ==
    pc = "up" /\ Persisted =>
       /\ (\A t \in Task : task[t].at \notin Late) => file = Sealed(shard)
       /\ (\A t \in Task : ~Busy(t)) => sealed_share = Sealed(shard)

(* What a crash leaves behind. *)
Left ==
    pc # "up" /\ last # {} =>
       /\ path /\ explicit = None
       /\ \E s \in last \cup Storing : file = Sealed(s)
       /\ pc = "form" /\ ~Busy(Main) => \E s \in last : file = Sealed(s) /\ s.epoch < cluster
       /\ pc = "boot" => Storing \subseteq last

SInv ==
    /\ TypeOK /\ Phases /\ Anchored /\ Alone /\ Current /\ Left
    /\ \A t \in Task : Working(t) /\ Filed(t)

----------------------------------------------------------------------------
(* Shares, blobs and tasks *)

(* A sealed share is a blob, and neither nothing nor a torn file. *)
LEMMA SealedIsBlob ==
    ASSUME NEW i \in Identity, NEW s \in Share
    PROVE  SealedTo(i, s) \in Blob /\ SealedTo(i, s) \notin {None, Torn}
  BY BlobAssumption DEF SealedTo, Blob

(* The share of a sealed blob. *)
LEMMA SealedShare ==
    ASSUME NEW i, NEW s
    PROVE  SealedTo(i, s).share = s
  BY Zenon DEF SealedTo

(* A share has a master and an epoch. *)
LEMMA ShareFields ==
    ASSUME NEW s \in Share
    PROVE  s.master \in Master /\ s.master # None /\ s.epoch \in 1..MaxEpoch /\ s # None
  BY BlobAssumption, Zenon DEF Share

(* A session goes on to another step. *)
LEMMA GotoFacts ==
    ASSUME task \in [Task -> Tasks], NEW t \in Task, NEW step \in Steps, Goto(t, step)
    PROVE  /\ task' \in [Task -> Tasks]
           /\ task'[t].at = step /\ task'[t].share = task[t].share /\ task'[t].fd = task[t].fd
           /\ \A o \in Task : o # t => task'[o] = task[o]
<1>1. task[t] \in Tasks /\ task' = [task EXCEPT ![t] = [task[t] EXCEPT !.at = step]]
  BY Zenon DEF Goto
<1>2. [task[t] EXCEPT !.at = step] \in Tasks
      /\ [task[t] EXCEPT !.at = step].at = step
      /\ [task[t] EXCEPT !.at = step].share = task[t].share
      /\ [task[t] EXCEPT !.at = step].fd = task[t].fd
  BY <1>1, Zenon DEF Tasks
<1> QED
  BY <1>1, <1>2, Zenon

(* A session starts or ends. *)
LEMMA PutFacts ==
    ASSUME task \in [Task -> Tasks], NEW t \in Task,
           NEW a \in Steps, NEW s \in Share \cup {None},
           task' = [task EXCEPT ![t] = [at |-> a, share |-> s, fd |-> "tmp"]]
    PROVE  /\ task' \in [Task -> Tasks]
           /\ task'[t].at = a /\ task'[t].share = s /\ task'[t].fd = "tmp"
           /\ \A o \in Task : o # t => task'[o] = task[o]
<1>1. [at |-> a, share |-> s, fd |-> "tmp"] \in Tasks
  BY Zenon DEF Tasks
<1> QED
  BY <1>1, Zenon

(* The sessions are sessions. *)
LEMMA TaskType == ASSUME SInv PROVE task \in [Task -> Tasks]
  BY Zenon DEF SInv, TypeOK

(* The steps of a session. *)
LEMMA StepNames == {"idle", "wait", "open", "baseline"} \subseteq Steps
  BY Zenon DEF Steps

(* The fields of a task. *)
LEMMA TaskFields ==
    ASSUME TypeOK, NEW t \in Task
    PROVE  task[t] \in Tasks /\ task[t].at \in Steps /\ task[t].share \in Share \cup {None}
  BY Zenon DEF TypeOK, Tasks

----------------------------------------------------------------------------
(* The steps *)

(* Nothing runs at first. *)
LEMMA SInvInit == Init => SInv
<1> SUFFICES ASSUME Init PROVE SInv
  BY Zenon
<1>1. Idle \in Tasks /\ Idle.at = "idle"
  BY Zenon DEF Idle, Tasks, Steps
<1>2. \A t \in Task : task[t].at = "idle" /\ task[t] = Idle
  BY <1>1, Zenon DEF Init
<1>3. TypeOK
  <2>1. task \in [Task -> Tasks]
    BY <1>1, Zenon DEF Init
  <2>2. cluster \in 0..MaxEpoch
    BY StoreAssumption DEF Init
  <2> QED
    BY <2>1, <2>2, Zenon DEF Init, TypeOK
<1>4. Phases /\ Alone /\ Current /\ Left
  BY <1>2, Zenon DEF Init, Phases, Alone, Current, Left, Busy, At, Early
<1>5. Anchored
  BY <1>2, StoreAssumption, Zenon DEF Init, Anchored, At
<1>6. \A t \in Task : Working(t) /\ Filed(t)
  BY <1>2, Zenon DEF Working, Filed, Busy
<1> QED
  BY <1>3, <1>4, <1>5, <1>6, Zenon DEF SInv

(* Steps of the outside world: a capture, or a reshare of the others. *)
LEMMA OutsideKeeps ==
    ASSUME SInv, TypeOK', cluster' >= cluster,
           UNCHANGED <<path, id, explicit, file, tmp, baseline, pc, task, shard, group_pubkey,
                       sealed_share, verdict, persist_fail, injected, overlapped, anchor, last,
                       faults>>
    PROVE  SInv'
<1>1. Phases' /\ Anchored' /\ Alone'
  BY Zenon DEF SInv, Phases, Anchored, Alone, Busy, At, Sealed, Judged
<1>2. Current'
  BY Zenon DEF SInv, Current, Busy, Sealed, Persisted
<1>3. Left'
  <2>1. Storing' = Storing
    BY Zenon DEF Storing, Busy
  <2>2. ASSUME NEW s \in last, s.epoch < cluster PROVE s.epoch < cluster'
    <3>1. s.epoch \in Nat /\ cluster \in Nat /\ cluster' \in Nat
      BY ShareFields, StoreAssumption DEF SInv, TypeOK
    <3> QED
      BY <2>2, <3>1
  <2> QED
    BY <2>1, <2>2, Zenon DEF SInv, Left, Sealed, Busy
<1>4. \A t \in Task : Working(t)' /\ Filed(t)'
  BY Zenon DEF SInv, Working, Filed, Busy, At, Sealed, Source
<1> QED
  BY <1>1, <1>2, <1>3, <1>4, Zenon DEF SInv

(* There is nothing to reload. *)
LEMMA NothingToReloadKeeps ==
    ASSUME SInv, NothingToReload
    PROVE  SInv'
<1>1. /\ UNCHANGED <<path, id, captured, cluster, crashes, file, tmp, baseline, task,
                     shard, group_pubkey, sealed_share, verdict, persist_fail, injected,
                     overlapped, anchor, last, faults>>
      /\ explicit' = None
      /\ pc = "boot" /\ pc' = "form" /\ \A t \in Task : ~Busy(t)
  BY Zenon DEF NothingToReload, outside, disk, memory, metrics, history, SInv, Phases
<1>2. TypeOK'
  BY <1>1 DEF SInv, TypeOK
<1>3. Phases' /\ Anchored' /\ Alone' /\ Current'
  BY <1>1, Zenon DEF SInv, Phases, Anchored, Alone, Current, Busy, At, Sealed, Judged
<1>4. Left'
  <2>1. ASSUME last # {} PROVE FALSE
    <3>1. PICK s \in last \cup Storing : file = Sealed(s) /\ path /\ explicit = None
                                          /\ Storing \subseteq last
      BY <1>1, <2>1, Zenon DEF SInv, Left
    <3> QED
      BY <3>1, Zenon DEF NothingToReload, Source, SInv, TypeOK
  <2> QED
    BY <1>1, <2>1, Zenon DEF Left
<1>5. \A t \in Task : Working(t)' /\ Filed(t)'
  BY <1>1, Zenon DEF Working, Filed, Busy
<1> QED
  BY <1>2, <1>3, <1>4, <1>5, Zenon DEF SInv

(* The file cannot be read. *)
LEMMA UnreadableKeeps ==
    ASSUME SInv, Unreadable
    PROVE  SInv'
<1>1. /\ UNCHANGED <<path, id, captured, explicit, cluster, crashes, file, tmp, baseline, task,
                     shard, group_pubkey, sealed_share, verdict, injected, overlapped, anchor>>
      /\ pc = "boot" /\ pc' = "form" /\ persist_fail' = TRUE /\ last' = {} /\ faults' \in Nat
      /\ \A t \in Task : ~Busy(t)
  BY DEF Unreadable, Fault, outside, disk, memory, SInv, Phases, TypeOK
<1>2. TypeOK'
  BY <1>1 DEF SInv, TypeOK
<1>3. Phases' /\ Anchored' /\ Alone' /\ Current' /\ Left'
  BY <1>1, StoreAssumption, Zenon
  DEF SInv, Phases, Anchored, Alone, Current, Left, Busy, At, Sealed
<1>4. \A t \in Task : Working(t)' /\ Filed(t)'
  BY <1>1, Zenon DEF Working, Filed, Busy
<1> QED
  BY <1>2, <1>3, <1>4, Zenon DEF SInv

(* The blob is unsealed. *)
LEMMA UnsealKeeps ==
    ASSUME SInv, Unseal
    PROVE  SInv'
<1>1. /\ UNCHANGED <<path, id, captured, explicit, cluster, crashes, file, tmp, baseline, pc,
                     shard, group_pubkey, sealed_share, verdict, persist_fail, injected,
                     overlapped, anchor, last, faults>>
      /\ pc = "boot" /\ Main \in Task /\ \A t \in Task : ~Busy(t)
  BY StoreAssumption, Zenon
  DEF Unseal, outside, disk, memory, metrics, history, SInv, Phases
<1>2. PICK s \in Share : Source = Sealed(s)
  BY Zenon DEF Unseal
<1>3. task' = [task EXCEPT ![Main] = [at |-> "wait", share |-> s, fd |-> "tmp"]]
  BY <1>2, SealedShare, Zenon DEF Unseal, Sealed
<1>4. /\ task' \in [Task -> Tasks]
      /\ task'[Main].at = "wait" /\ task'[Main].share = s
      /\ \A o \in Task : o # Main => task'[o] = task[o]
  BY <1>1, <1>3, PutFacts, TaskType, StepNames, Zenon
<1>5. TypeOK'
  BY <1>1, <1>4 DEF SInv, TypeOK
<1>6. \A t \in Task : Busy(t)' => t = Main
  BY <1>1, <1>4, Zenon DEF Busy
<1>7. Phases' /\ Alone' /\ Current'
  BY <1>1, <1>4, <1>6, Zenon DEF SInv, Phases, Alone, Current, Busy, At, Sealed, Early
<1>8. Anchored'
  BY <1>1, <1>4, Zenon DEF SInv, Anchored, At, Busy
<1>9. Left'
  <2>1. Storing' = {s} /\ Storing = {}
    BY <1>1, <1>4, <1>6, Zenon DEF Storing, Busy
  <2>2. ASSUME last # {}
        PROVE  path /\ explicit = None /\ \E r \in last : file = Sealed(r) /\ r = s
    <3>1. PICK r \in last : file = Sealed(r) /\ path /\ explicit = None
      BY <1>1, <2>1, <2>2, Zenon DEF SInv, Left
    <3>2. r = s
      <4>1. SealedTo(id, r) = SealedTo(id, s)
        BY <1>2, <3>1, Zenon DEF Source, Sealed
      <4> QED
        BY <4>1, SealedShare
    <3> QED
      BY <3>1, <3>2, Zenon
  <2> QED
    BY <1>1, <2>1, <2>2, Zenon DEF Left, Sealed
<1>10. ASSUME NEW t \in Task PROVE Working(t)' /\ Filed(t)'
  <2>1. CASE t # Main
    BY <1>6, <2>1, Zenon DEF Working, Filed
  <2>2. CASE t = Main
    BY <1>1, <1>2, <1>4, <2>2, Zenon DEF SInv, Phases, Working, Filed, Busy, At, Sealed,
       Source, Late, Early
  <2> QED
    BY <2>1, <2>2, Zenon
<1> QED
  BY <1>5, <1>7, <1>8, <1>9, <1>10, Zenon DEF SInv

(* The share is behind the cluster. *)
LEMMA DiscardKeeps ==
    ASSUME SInv, Discard
    PROVE  SInv'
<1>1. /\ UNCHANGED <<path, id, captured, cluster, crashes, file, tmp, baseline,
                     shard, group_pubkey, sealed_share, verdict, persist_fail, injected,
                     overlapped, anchor, last, faults>>
      /\ explicit' = None
      /\ pc = "boot" /\ pc' = "form" /\ Main \in Task /\ At(Main, "wait")
      /\ task[Main].share \in Share /\ task[Main].share.epoch < cluster
  <2>1. Main \in Task /\ At(Main, "wait") /\ Working(Main) /\ Busy(Main)
    BY StoreAssumption, Zenon DEF Discard, SInv, At, Busy
  <2>2. pc = "boot" /\ task[Main].share \in Share
    BY <2>1, Zenon DEF Working
  <2>3. task[Main].share.epoch < cluster
    <3>1. task[Main].share.epoch \in Nat /\ cluster \in Nat
      BY <2>2, ShareFields, StoreAssumption DEF SInv, TypeOK
    <3> QED
      BY <3>1 DEF Discard
  <2> QED
    BY <2>1, <2>2, <2>3, Zenon DEF Discard, outside, disk, memory, metrics, history
<1>2. task' = [task EXCEPT ![Main] = [at |-> "idle", share |-> None, fd |-> "tmp"]]
  BY Zenon DEF Discard, Idle
<1>3. /\ task' \in [Task -> Tasks]
      /\ task'[Main].at = "idle"
      /\ \A o \in Task : o # Main => task'[o] = task[o]
  BY <1>1, <1>2, PutFacts, TaskType, StepNames, Zenon
<1>4. TypeOK'
  BY <1>1, <1>3 DEF SInv, TypeOK
<1>5. \A t \in Task : ~Busy(t)' /\ task'[t].at = "idle"
  BY <1>1, <1>3, Zenon DEF SInv, Phases, Busy
<1>6. group_pubkey = None
  BY <1>1, Zenon DEF SInv, Phases, At
<1>7. Phases' /\ Alone' /\ Current'
  BY <1>1, <1>5, <1>6, Zenon DEF SInv, Phases, Alone, Current, At, Early
<1>8. Anchored'
  BY <1>1, <1>5, Zenon DEF SInv, Anchored, At
<1>9. Left'
  <2>1. Storing' = {} /\ task[Main].share \in Storing
    BY <1>1, <1>5, Zenon DEF Storing, Busy, At
  <2>2. last # {} => file = Sealed(task[Main].share)
    BY <1>1, Zenon DEF SInv, Left, Working, Busy, At, Source
  <2> QED
    BY <1>1, <1>5, <2>1, <2>2, Zenon DEF SInv, Left, Sealed
<1>10. \A t \in Task : Working(t)' /\ Filed(t)'
  BY <1>5, Zenon DEF Working, Filed
<1> QED
  BY <1>4, <1>7, <1>8, <1>9, <1>10, Zenon DEF SInv

(* The share is adopted. *)
LEMMA ReloadKeeps ==
    ASSUME SInv, Reload
    PROVE  SInv'
<1>1. /\ UNCHANGED <<path, id, captured, explicit, cluster, crashes, file, tmp, baseline, pc,
                     shard, group_pubkey, verdict, persist_fail,
                     overlapped, anchor, last, faults>>
      /\ Main \in Task /\ At(Main, "wait") /\ Goto(Main, "baseline")
      /\ sealed_share' = Sealed(task[Main].share) /\ injected' = (explicit # None)
  BY StoreAssumption, Zenon DEF Reload, outside, disk, metrics
<1>2. pc = "boot" /\ task[Main].share \in Share /\ Source = Sealed(task[Main].share)
  BY <1>1, Zenon DEF SInv, Working, Busy, At
<1>3. /\ task' \in [Task -> Tasks]
      /\ task'[Main].at = "baseline" /\ task'[Main].share = task[Main].share
      /\ \A o \in Task : o # Main => task'[o] = task[o]
  BY <1>1, GotoFacts, Zenon DEF SInv, TypeOK, Steps
<1>4. TypeOK'
  <2>1. sealed_share' \in Blob
    BY <1>1, <1>2, SealedIsBlob, Zenon DEF SInv, TypeOK, Sealed
  <2> QED
    BY <1>1, <1>3, <2>1 DEF SInv, TypeOK
<1>5. \A t \in Task : (Busy(t)' <=> Busy(t)) /\ (Busy(t) => t = Main)
  BY <1>1, <1>2, <1>3, Zenon DEF SInv, Phases, Busy, At
<1>6. Phases' /\ Alone' /\ Current'
  <2>1. Phases'
    BY <1>1, <1>2, <1>3, <1>5, Zenon DEF SInv, Phases, At
  <2>2. Alone'
    BY <1>1, <1>3, <1>5, Zenon DEF SInv, Alone, Busy, At, Sealed, Early
  <2>3. Current'
    BY <1>1, <1>2, Zenon DEF Current
  <2> QED
    BY <2>1, <2>2, <2>3, Zenon
<1>7. Anchored'
  BY <1>1, <1>2, <1>3, Zenon DEF SInv, Anchored, At
<1>8. Left'
  <2>1. Storing' = Storing
    BY <1>3, <1>5, Zenon DEF Storing
  <2> QED
    BY <1>1, <1>5, <2>1, StoreAssumption, Zenon DEF SInv, Left, Sealed
<1>9. ASSUME NEW t \in Task PROVE Working(t)' /\ Filed(t)'
  <2>1. CASE t # Main
    BY <1>5, <2>1, Zenon DEF Working, Filed
  <2>2. CASE t = Main
    <3>1. Working(t)'
      BY <1>1, <1>2, <1>3, <2>2, Zenon DEF SInv, Working, Busy, At, Late, Early
    <3>2. ~injected' => file = Sealed(task[Main].share)
      BY <1>1, <1>2, SealedIsBlob, Zenon DEF Source, Sealed, SInv, TypeOK
    <3>3. Filed(t)'
      BY <1>1, <1>2, <1>3, <2>2, <3>2, Zenon DEF Filed, Busy, Sealed, Late
    <3> QED
      BY <3>1, <3>3, Zenon
  <2> QED
    BY <2>1, <2>2, Zenon
<1> QED
  BY <1>4, <1>6, <1>7, <1>8, <1>9, Zenon DEF SInv

(* A session starts to store its share. *)
LEMMA BeginKeeps ==
    ASSUME SInv, NEW t \in Task, NEW s \in Share, Begin(t, s)
    PROVE  SInv'
<1>1. /\ UNCHANGED <<path, id, captured, explicit, crashes, file, tmp, baseline, pc, shard,
                     group_pubkey, verdict, injected, anchor, last>>
      /\ ~Busy(t) /\ (pc = "up" \/ (pc = "form" /\ t = Main))
      /\ group_pubkey \in {None, s.master} /\ s.epoch <= cluster + 1
      /\ cluster' = (IF s.epoch > cluster THEN s.epoch ELSE cluster)
      /\ overlapped' = (overlapped \/ \E o \in Task : Busy(o))
  BY Zenon DEF Begin, disk
<1>2. PICK a \in {"open", "baseline"} :
         /\ task' = [task EXCEPT ![t] = [at |-> a, share |-> s, fd |-> "tmp"]]
         /\ a = "open" => path
         /\ \/ sealed_share' = Sealed(s) /\ UNCHANGED <<persist_fail, faults>>
               /\ (path => a = "open")
            \/ sealed_share' = sealed_share /\ persist_fail' = TRUE /\ Fault
  BY Zenon DEF Begin
<1>3. /\ task' \in [Task -> Tasks]
      /\ task'[t].at = a /\ task'[t].share = s /\ task'[t].fd = "tmp"
      /\ \A o \in Task : o # t => task'[o] = task[o]
  BY <1>2, PutFacts, TaskType, StepNames, Zenon
<1>4. cluster' \in 0..MaxEpoch /\ cluster' >= cluster
  BY <1>1, ShareFields, StoreAssumption DEF SInv, TypeOK
<1>5. faults' \in Nat /\ (faults' = 0 => faults = 0) /\ persist_fail' \in BOOLEAN
      /\ (~persist_fail' => ~persist_fail)
  <2>1. faults' \in Nat /\ (faults' = 0 => faults = 0)
    BY <1>2 DEF Fault, SInv, TypeOK
  <2>2. persist_fail' \in BOOLEAN /\ (~persist_fail' => ~persist_fail)
    <3>1. CASE persist_fail' = TRUE
      BY <3>1, Zenon
    <3>2. CASE persist_fail' = persist_fail
      BY <3>2, Zenon DEF SInv, TypeOK
    <3> QED
      BY <1>2, <3>1, <3>2, Zenon
  <2> QED
    BY <2>1, <2>2, Zenon
<1>6. TypeOK'
  <2>1. sealed_share' \in Blob \cup {None}
    BY <1>2, SealedIsBlob, Zenon DEF SInv, TypeOK, Sealed
  <2>2. overlapped' \in BOOLEAN
    BY <1>1, Zenon DEF SInv, TypeOK
  <2> QED
    BY <1>1, <1>3, <1>4, <1>5, <2>1, <2>2 DEF SInv, TypeOK
<1>7. Busy(t)' /\ \A o \in Task : o # t => (Busy(o)' <=> Busy(o))
  BY <1>3, Zenon DEF Busy
<1>8. Phases'
  BY <1>1, <1>3, <1>7, Zenon DEF SInv, Phases, At, Busy
<1>9. Alone'
  BY <1>1, <1>3, <1>7, Zenon DEF Alone, At, Busy, Early
<1>10. Anchored'
  BY <1>1, <1>3, <1>5, Zenon DEF SInv, Anchored, Judged, At
<1>11. Current'
  <2> SUFFICES ASSUME pc = "up", Persisted', \A o \in Task : task'[o].at \notin Late
               PROVE  file = Sealed(shard)
    BY <1>1, <1>7, Zenon DEF Current, Sealed
  <2>1. Persisted /\ \A o \in Task : ~Busy(o)
    BY <1>1, <1>5, Zenon DEF Persisted
  <2> QED
    BY <2>1, Zenon DEF SInv, Current, Busy, Late
<1>12. Left'
  <2>1. Storing \subseteq Storing'
    BY <1>3, <1>7, <1>1, Zenon DEF Storing
  <2>2. ASSUME NEW r \in last, r.epoch < cluster PROVE r.epoch < cluster'
    <3>1. r.epoch \in Nat /\ cluster \in Nat /\ cluster' \in Nat
      BY <1>4, ShareFields, StoreAssumption DEF SInv, TypeOK
    <3> QED
      BY <1>4, <2>2, <3>1
  <2> QED
    BY <1>1, <2>1, <2>2, Zenon DEF SInv, Left, Sealed
<1>13. ASSUME NEW o \in Task PROVE Working(o)' /\ Filed(o)'
  <2>1. CASE o = t
    <3>1. Working(o)'
      BY <1>1, <1>2, <1>3, <2>1, Zenon DEF Working, At, Early
    <3>2. Filed(o)'
      BY <1>1, <1>2, <1>3, <2>1, Zenon DEF Filed, Sealed, Late
    <3> QED
      BY <3>1, <3>2, Zenon
  <2>2. CASE o # t
    <3>1. Working(o)'
      BY <1>1, <1>3, <1>7, <2>2, Zenon DEF SInv, Working, At, Source, Sealed
    <3>2. Filed(o)'
      BY <1>1, <1>7, <2>2, Zenon DEF Filed
    <3> QED
      BY <3>1, <3>2, Zenon
  <2> QED
    BY <2>1, <2>2, Zenon
<1> QED
  BY <1>6, <1>8, <1>9, <1>10, <1>11, <1>12, <1>13, Zenon DEF SInv

(* A step within store_share, up to the rename, keeps what the other parts of
   the invariant say. *)
LEMMA EarlyStep ==
    ASSUME SInv, NEW t \in Task, task[t].at \in Early,
           task' \in [Task -> Tasks],
           task'[t].share = task[t].share,
           task'[t].at \in {"write", "rename", "baseline"},
           \A o \in Task : o # t => task'[o].at = task[o].at /\ task'[o].share = task[o].share,
           UNCHANGED <<path, id, captured, explicit, cluster, crashes, baseline, pc, shard,
                       group_pubkey, sealed_share, verdict, injected, overlapped, anchor, last>>,
           faults' \in Nat, faults' = 0 => faults = 0
    PROVE  /\ Phases' /\ Anchored' /\ Storing' = Storing
           /\ \A o \in Task : Working(o)' /\ (Busy(o)' <=> Busy(o))
           /\ pc # "boot" /\ path /\ pc # "down"
<1>1. Busy(t)
  BY Zenon DEF Busy, Early
<1>2. pc # "boot" /\ path /\ pc # "down"
  BY <1>1, Zenon DEF SInv, Working, Phases, Early, Late
<1>3. \A o \in Task : Busy(o)' <=> Busy(o)
  BY <1>1, Zenon DEF Busy
<1>4. Phases'
  BY <1>1, <1>2, <1>3, Zenon DEF SInv, Phases, At, Early
<1>5. Anchored'
  <2>1. Main \in Task /\ (pc # "up" => t = Main)
    BY <1>1, StoreAssumption, Zenon DEF SInv, Phases
  <2>2. ASSUME NEW o \in Task, At(o, "record")' PROVE At(o, "record") /\ task'[o].share = task[o].share
    BY <2>2, Zenon DEF At
  <2> QED
    BY <2>1, <2>2, Zenon DEF SInv, Anchored, Judged
<1>6. Storing' = Storing
  BY <1>3, Zenon DEF Storing
<1>7. ASSUME NEW o \in Task PROVE Working(o)'
  <2>1. CASE o = t
    BY <1>1, <1>2, <2>1, Zenon DEF SInv, Working, Busy, At
  <2>2. CASE o # t
    BY <1>2, <2>2, Zenon DEF SInv, Working, Busy, At
  <2> QED
    BY <2>1, <2>2, Zenon
<1> QED
  BY <1>2, <1>3, <1>4, <1>5, <1>6, <1>7, Zenon

(* The .tmp is opened. *)
LEMMA OpenTmpKeeps ==
    ASSUME SInv, NEW t \in Task, OpenTmp(t)
    PROVE  SInv'
<1>1. /\ UNCHANGED <<path, id, captured, explicit, cluster, crashes, file, baseline, pc, shard,
                     group_pubkey, sealed_share, verdict, persist_fail, injected, overlapped,
                     anchor, last, faults>>
      /\ task[t].at = "open" /\ task[t].at \in Early /\ tmp' = Torn /\ Goto(t, "write")
  BY Zenon DEF OpenTmp, outside, memory, metrics, history, At, Early
<1>2. /\ task' \in [Task -> Tasks]
      /\ task'[t].at = "write" /\ task'[t].share = task[t].share /\ task'[t].fd = task[t].fd
      /\ \A o \in Task : o # t => task'[o] = task[o]
  BY <1>1, GotoFacts, Zenon DEF SInv, TypeOK, Steps
<1>3. /\ Phases' /\ Anchored' /\ Storing' = Storing
      /\ \A o \in Task : Working(o)' /\ (Busy(o)' <=> Busy(o))
      /\ pc # "boot" /\ path /\ pc # "down"
  BY <1>1, <1>2, EarlyStep, Zenon DEF SInv, TypeOK
<1>4. TypeOK'
  BY <1>1, <1>2 DEF SInv, TypeOK
<1>5. Alone'
  <2> SUFFICES ASSUME ~overlapped, NEW o \in Task
               PROVE  /\ \A q \in Task : Busy(o) /\ Busy(q) => q = o
                      /\ task'[o].at \in Early => task'[o].fd = "tmp"
                      /\ ~At(o, "rename")'
    BY <1>1, <1>3, Zenon DEF Alone
  <2>1. Busy(t)
    BY <1>1, Zenon DEF Busy
  <2> QED
    BY <1>1, <1>2, <2>1, Zenon DEF SInv, Alone, At, Busy, Early
<1>6. Current'
  BY <1>1, <1>2, <1>3, Zenon DEF SInv, Current, Persisted, Sealed, Late
<1>7. Left'
  BY <1>1, <1>3, StoreAssumption, Zenon DEF SInv, Left, Sealed
<1>8. ASSUME NEW o \in Task PROVE Filed(o)'
  BY <1>1, <1>2, <1>3, Zenon DEF SInv, Filed, Sealed, Late
<1> QED
  BY <1>3, <1>4, <1>5, <1>6, <1>7, <1>8, Zenon DEF SInv

(* The .tmp is filled. *)
LEMMA WriteTmpKeeps ==
    ASSUME SInv, NEW t \in Task, WriteTmp(t)
    PROVE  SInv'
<1>1. /\ UNCHANGED <<path, id, captured, explicit, cluster, crashes, baseline, pc, shard,
                     group_pubkey, sealed_share, verdict, persist_fail, injected, overlapped,
                     anchor, last, faults>>
      /\ task[t].at = "write" /\ task[t].at \in Early /\ Goto(t, "rename")
      /\ tmp' = (IF task[t].fd = "tmp" THEN Sealed(task[t].share) ELSE tmp)
      /\ file' = (IF task[t].fd = "file" THEN Sealed(task[t].share) ELSE file)
  BY Zenon DEF WriteTmp, outside, memory, metrics, history, At, Early
<1>2. /\ task' \in [Task -> Tasks]
      /\ task'[t].at = "rename" /\ task'[t].share = task[t].share /\ task'[t].fd = task[t].fd
      /\ \A o \in Task : o # t => task'[o] = task[o]
  BY <1>1, GotoFacts, Zenon DEF SInv, TypeOK, Steps
<1>3. /\ Phases' /\ Anchored' /\ Storing' = Storing
      /\ \A o \in Task : Working(o)' /\ (Busy(o)' <=> Busy(o))
      /\ pc # "boot" /\ path /\ pc # "down"
  BY <1>1, <1>2, EarlyStep, Zenon DEF SInv, TypeOK
<1>4. task[t].share \in Share /\ Busy(t)
  BY <1>1, Zenon DEF SInv, Working, Busy
<1>5. TypeOK'
  <2>1. Sealed(task[t].share) \in Blob
    BY <1>4, SealedIsBlob, Zenon DEF Sealed, SInv, TypeOK
  <2>2. tmp' \in Blob \cup {None, Torn} /\ file' \in Blob \cup {None, Torn}
    BY <1>1, <2>1, Zenon DEF SInv, TypeOK
  <2> QED
    BY <1>1, <1>2, <2>2 DEF SInv, TypeOK
<1>6. ~overlapped => task[t].fd = "tmp" /\ file' = file /\ tmp' = Sealed(task[t].share)
  BY <1>1, Zenon DEF SInv, Alone
<1>7. Alone'
  <2> SUFFICES ASSUME ~overlapped, NEW o \in Task
               PROVE  /\ \A q \in Task : Busy(o) /\ Busy(q) => q = o
                      /\ task'[o].at \in Early => task'[o].fd = "tmp"
                      /\ At(o, "rename")' => tmp' = Sealed(task'[o].share)
    BY <1>1, <1>3, Zenon DEF Alone, Sealed
  <2> QED
    BY <1>1, <1>2, <1>4, <1>6, Zenon DEF SInv, Alone, At, Busy
<1>8. Current'
  BY <1>1, <1>2, <1>3, <1>6, Zenon DEF SInv, Current, Persisted, Sealed, Late
<1>9. Left'
  <2>1. pc # "up" => ~overlapped
    BY Zenon DEF SInv, Phases
  <2>2. pc # "up" => Busy(Main)'
    BY <1>1, <1>2, Zenon DEF SInv, Phases, Busy, Early
  <2> QED
    BY <1>1, <1>3, <1>6, <2>1, <2>2, Zenon DEF SInv, Left, Sealed
<1>10. ASSUME NEW o \in Task PROVE Filed(o)'
  BY <1>1, <1>2, <1>3, <1>6, Zenon DEF SInv, Filed, Sealed, Late
<1> QED
  BY <1>3, <1>5, <1>7, <1>8, <1>9, <1>10, Zenon DEF SInv

(* The disk fails. *)
LEMMA PersistFailsKeeps ==
    ASSUME SInv, NEW t \in Task, PersistFails(t)
    PROVE  SInv'
<1>1. /\ UNCHANGED <<path, id, captured, explicit, cluster, crashes, file, tmp, baseline, pc,
                     shard, group_pubkey, sealed_share, verdict, injected, overlapped,
                     anchor, last>>
      /\ task[t].at \in Early /\ Goto(t, "baseline") /\ persist_fail' = TRUE
      /\ faults' \in Nat /\ faults' # 0
  BY DEF PersistFails, Fault, outside, disk, memory, history, Early, SInv, TypeOK
<1>2. /\ task' \in [Task -> Tasks]
      /\ task'[t].at = "baseline" /\ task'[t].share = task[t].share
      /\ \A o \in Task : o # t => task'[o] = task[o]
  BY <1>1, GotoFacts, Zenon DEF SInv, TypeOK, Steps
<1>3. /\ Phases' /\ Anchored' /\ Storing' = Storing
      /\ \A o \in Task : Working(o)' /\ (Busy(o)' <=> Busy(o))
      /\ pc # "boot" /\ path /\ pc # "down"
  BY <1>1, <1>2, EarlyStep, Zenon
<1>4. TypeOK'
  BY <1>1, <1>2 DEF SInv, TypeOK
<1>5. Alone'
  BY <1>1, <1>2, <1>3, Zenon DEF SInv, Alone, At, Sealed, Early
<1>6. Current'
  BY <1>1, Zenon DEF Current, Persisted
<1>7. Left'
  BY <1>1, <1>3, StoreAssumption, Zenon DEF SInv, Left, Sealed
<1>8. ASSUME NEW o \in Task PROVE Filed(o)'
  BY <1>1, <1>3, Zenon DEF Filed
<1> QED
  BY <1>3, <1>4, <1>5, <1>6, <1>7, <1>8, Zenon DEF SInv

(* The .tmp takes the place of the file. *)
LEMMA RenameKeeps ==
    ASSUME SInv, NEW t \in Task, Rename(t)
    PROVE  SInv'
<1>1. /\ UNCHANGED <<path, id, captured, explicit, cluster, crashes, baseline, pc, shard,
                     group_pubkey, sealed_share, verdict, injected, overlapped, anchor, last,
                     faults>>
      /\ task[t].at = "rename" /\ task[t].at \in Early
  BY Zenon DEF Rename, outside, memory, history, At, Early
<1>2. /\ task' \in [Task -> Tasks]
      /\ task'[t].at = "baseline" /\ task'[t].share = task[t].share
      /\ \A o \in Task : o # t => task'[o].at = task[o].at /\ task'[o].share = task[o].share
  <2>1. CASE tmp = None
    BY <2>1, GotoFacts, Zenon DEF Rename, SInv, TypeOK, Steps
  <2>2. CASE tmp # None
    <3>1. task \in [Task -> Tasks]
      BY Zenon DEF SInv, TypeOK
    <3>2. ASSUME NEW o \in Task, o # t
          PROVE  \E d \in {"tmp", "file", "gone"} : task'[o] = [task[o] EXCEPT !.fd = d]
      <4>1. task[o].fd \in {"tmp", "file", "gone"}
        BY <3>1, Zenon DEF Tasks
      <4> QED
        BY <2>2, <3>2, <4>1, Zenon DEF Rename
    <3>3. task'[t] = [task[t] EXCEPT !.at = "baseline"] /\ DOMAIN task' = Task
      BY <2>2, Zenon DEF Rename
    <3>4. ASSUME NEW o \in Task
          PROVE  /\ task'[o] \in Tasks /\ task'[o].share = task[o].share
                 /\ task'[o].at = IF o = t THEN "baseline" ELSE task[o].at
      <4>1. CASE o = t
        BY <3>1, <3>3, <4>1, Zenon DEF Tasks, Steps
      <4>2. CASE o # t
        <5>1. PICK d \in {"tmp", "file", "gone"} : task'[o] = [task[o] EXCEPT !.fd = d]
          BY <3>2, <4>2, Zenon
        <5> QED
          BY <3>1, <4>2, <5>1, Zenon DEF Tasks
      <4> QED
        BY <4>1, <4>2, Zenon
    <3>5. task' = [o \in Task |-> task'[o]]
      BY <2>2, Zenon DEF Rename
    <3> QED
      BY <3>4, <3>5, Zenon
  <2> QED
    BY <2>1, <2>2, Zenon
<1>3. task[t].share \in Share /\ Busy(t)
  BY <1>1, Zenon DEF SInv, Working, Busy
<1>4. /\ Phases' /\ Anchored' /\ Storing' = Storing
      /\ \A o \in Task : Working(o)' /\ (Busy(o)' <=> Busy(o))
      /\ pc # "boot" /\ path /\ pc # "down"
  BY <1>1, <1>2, EarlyStep, Zenon DEF SInv, TypeOK
<1>5. TypeOK'
  <2>1. /\ tmp' \in Blob \cup {None, Torn} /\ file' \in Blob \cup {None, Torn}
        /\ persist_fail' \in BOOLEAN
    BY Zenon DEF Rename, SInv, TypeOK
  <2> QED
    BY <1>1, <1>2, <2>1 DEF SInv, TypeOK
<1>6. ASSUME ~overlapped
      PROVE  file' = Sealed(task[t].share) /\ persist_fail' = persist_fail
  <2>1. tmp = Sealed(task[t].share) /\ tmp # None
    BY <1>1, <1>3, <1>6, SealedIsBlob, Zenon DEF SInv, Alone, At, Sealed, TypeOK
  <2> QED
    BY <2>1, Zenon DEF Rename
<1>7. Alone'
  <2> SUFFICES ASSUME ~overlapped, NEW o \in Task
               PROVE  /\ \A q \in Task : Busy(o) /\ Busy(q) => q = o
                      /\ task'[o].at \notin Early
    BY <1>1, <1>4, Zenon DEF Alone, At, Early
  <2> QED
    BY <1>2, <1>3, Zenon DEF SInv, Alone, Busy, Early
<1>8. Current'
  BY <1>2, <1>3, <1>4, Zenon DEF Current, Late, Busy
<1>9. Left'
  <2>1. pc # "up" => ~overlapped
    BY Zenon DEF SInv, Phases
  <2>2. task[t].share \in Storing
    BY <1>3, Zenon DEF Storing
  <2>3. pc # "up" => Busy(Main)'
    BY <1>2, <1>3, Zenon DEF SInv, Phases, Busy
  <2> QED
    BY <1>1, <1>4, <1>6, <2>1, <2>2, <2>3, Zenon DEF SInv, Left, Sealed
<1>10. ASSUME NEW o \in Task PROVE Filed(o)'
  <2>1. CASE ~overlapped /\ Busy(o)
    <3>1. o = t /\ task'[t].share = task[t].share
      BY <1>2, <1>3, <2>1, Zenon DEF SInv, Alone
    <3>2. file' = Sealed(task[t].share) /\ persist_fail' = persist_fail
      BY <1>6, <2>1, Zenon
    <3>3. ~persist_fail => sealed_share = Sealed(task[t].share)
      BY <1>3, <1>4, <2>1, Zenon DEF SInv, Filed
    <3> QED
      BY <1>1, <1>4, <2>1, <3>1, <3>2, <3>3, Zenon DEF Filed, Sealed
  <2>2. CASE overlapped \/ ~Busy(o)
    BY <1>1, <1>4, <2>2, Zenon DEF Filed
  <2> QED
    BY <2>1, <2>2, Zenon
<1> QED
  BY <1>4, <1>5, <1>7, <1>8, <1>9, <1>10, Zenon DEF SInv

(* A step after the file leaves the file and the blobs alone. *)
LEMMA LateStep ==
    ASSUME SInv, NEW t \in Task, task[t].at \in Late,
           task' \in [Task -> Tasks],
           task'[t].share = task[t].share,
           task'[t].at \in Late,
           \A o \in Task : o # t => task'[o] = task[o],
           UNCHANGED <<path, id, captured, explicit, cluster, crashes, file, tmp, pc, shard,
                       sealed_share, persist_fail, injected, overlapped, last>>
    PROVE  /\ Alone' /\ Current' /\ Left'
           /\ \A o \in Task : Filed(o)' /\ (Busy(o)' <=> Busy(o))
           /\ Busy(t) /\ task[t].share \in Share /\ pc # "down"
<1>1. Busy(t) /\ task[t].share \in Share
  BY Zenon DEF SInv, Working, Busy, Late
<1>2. \A o \in Task : Busy(o)' <=> Busy(o)
  BY <1>1, Zenon DEF Busy, Late
<1>3. Alone'
  <2> SUFFICES ASSUME ~overlapped, NEW o \in Task
               PROVE  /\ \A q \in Task : Busy(o) /\ Busy(q) => q = o
                      /\ task'[o].at \notin Early
    BY <1>2, Zenon DEF Alone, At, Early
  <2> QED
    BY <1>1, Zenon DEF SInv, Alone, Busy, Early, Late
<1>4. Current'
  BY <1>1, <1>2, Zenon DEF Current
<1>5. Left'
  <2>1. Storing' = Storing
    BY <1>2, Zenon DEF Storing
  <2> QED
    BY <1>2, <2>1, StoreAssumption, Zenon DEF SInv, Left, Sealed
<1>6. ASSUME NEW o \in Task PROVE Filed(o)'
  <2>1. CASE o = t
    BY <1>1, <2>1, Zenon DEF SInv, Filed, Sealed
  <2>2. CASE o # t
    BY <1>2, <2>2, Zenon DEF SInv, Filed, Sealed
  <2> QED
    BY <2>1, <2>2, Zenon
<1>7. pc # "down"
  BY <1>1, Zenon DEF SInv, Phases
<1> QED
  BY <1>1, <1>2, <1>3, <1>4, <1>5, <1>6, <1>7, Zenon

(* The session works on the master that the node has or will have. *)
LEMMA StoredMaster ==
    ASSUME SInv, NEW t \in Task, Busy(t)
    PROVE  /\ pc = "up" => task[t].share.master = group_pubkey /\ group_pubkey # None
           /\ pc # "up" => t = Main
           /\ task[t].share \in Share
<1>1. task[t].share \in Share
  BY Zenon DEF SInv, Working
<1>2. pc = "up" => group_pubkey # None
  BY ShareFields, Zenon DEF SInv, Phases
<1> QED
  BY <1>1, <1>2, Zenon DEF SInv, Working, Phases

(* The baseline is compared. *)
LEMMA CheckBaselineKeeps ==
    ASSUME SInv, NEW t \in Task, CheckBaseline(t)
    PROVE  SInv'
<1>1. /\ UNCHANGED <<path, id, captured, explicit, cluster, crashes, file, tmp, baseline, pc,
                     shard, group_pubkey, sealed_share, persist_fail, injected, overlapped,
                     anchor, last>>
      /\ task[t].at = "baseline" /\ task[t].at \in Late /\ Busy(t)
  BY Zenon DEF CheckBaseline, outside, disk, memory, history, At, Late, Busy
<1>2. PICK a \in {"gpk", "record"} :
         /\ Goto(t, a)
         /\ a = "record" => baseline = None /\ verdict' = verdict
         /\ a = "gpk" /\ path =>
               \/ verdict' = (IF baseline = task[t].share.master THEN 1 ELSE 0) /\ baseline # None
               \/ verdict' = -1 /\ faults' # 0
         /\ verdict' \in {-1, 0, 1} /\ faults' \in Nat /\ (faults' = 0 => faults = 0)
  BY DEF CheckBaseline, Fault, SInv, TypeOK
<1>3. /\ task' \in [Task -> Tasks]
      /\ task'[t].at = a /\ task'[t].share = task[t].share
      /\ \A o \in Task : o # t => task'[o] = task[o]
  BY <1>2, GotoFacts, Zenon DEF SInv, TypeOK, Steps
<1>4. /\ Alone' /\ Current' /\ Left'
      /\ \A o \in Task : Filed(o)' /\ (Busy(o)' <=> Busy(o))
  BY <1>1, <1>3, LateStep, Zenon DEF Late
<1>5. TypeOK'
  BY <1>1, <1>2, <1>3 DEF SInv, TypeOK
<1>6. Phases'
  BY <1>1, <1>3, <1>4, StoredMaster, Zenon DEF SInv, Phases, At
<1>7. Anchored'
  <2>1. ASSUME path PROVE a = "gpk" => Judged(task[t].share.master)'
    <3>1. anchor = baseline
      BY Zenon DEF SInv, Anchored
    <3>2. task'[t].share.master = task[t].share.master /\ anchor' = anchor
      BY <1>1, <1>3, Zenon
    <3>3. ASSUME a = "gpk"
          PROVE  \/ verdict' = 1 /\ baseline = task[t].share.master
                 \/ verdict' = 0 /\ baseline \notin {None, task[t].share.master}
                 \/ verdict' = -1 /\ faults' # 0
      BY <1>2, <2>1, <3>3, Zenon
    <3> QED
      BY <3>1, <3>2, <3>3 DEF Judged
  <2>2. ASSUME path, pc = "up" PROVE Judged(group_pubkey)'
    <3>1. Judged(group_pubkey) /\ task[t].share.master = group_pubkey
      BY <1>1, <2>2, StoredMaster, Zenon DEF SInv, Anchored
    <3>2. CASE a = "gpk"
      BY <1>1, <1>3, <2>1, <2>2, <3>1, <3>2, Zenon DEF Judged
    <3>3. CASE a = "record"
      BY <1>1, <1>2, <3>1, <3>3, Zenon DEF Judged
    <3> QED
      BY <3>2, <3>3, Zenon
  <2>3. ASSUME path, pc # "up", task'[Main].at \in {"gpk", "shard"}
        PROVE  Judged(task[Main].share.master)'
    BY <1>1, <1>3, <2>1, <2>3, StoredMaster, Zenon DEF Judged
  <2>4. ASSUME NEW o \in Task, At(o, "record")', baseline # None
        PROVE  baseline = task'[o].share.master
    BY <1>1, <1>2, <1>3, <2>4, Zenon DEF SInv, Anchored, At
  <2> QED
    BY <1>1, <2>2, <2>3, <2>4, Zenon DEF SInv, Anchored
<1>8. ASSUME NEW o \in Task PROVE Working(o)'
  BY <1>1, <1>3, <1>4, Zenon DEF SInv, Working, At, Source, Sealed, Late, Early
<1> QED
  BY <1>4, <1>5, <1>6, <1>7, <1>8, Zenon DEF SInv

(* The baseline is recorded. *)
LEMMA RecordBaselineKeeps ==
    ASSUME SInv, NEW t \in Task, RecordBaseline(t)
    PROVE  SInv'
<1> DEFINE m == task[t].share.master
<1>1. /\ UNCHANGED <<path, id, captured, explicit, cluster, crashes, file, tmp, pc,
                     shard, group_pubkey, sealed_share, persist_fail, injected, overlapped, last>>
      /\ task[t].at = "record" /\ task[t].at \in Late /\ Busy(t) /\ Goto(t, "gpk")
  BY Zenon DEF RecordBaseline, outside, memory, At, Late, Busy
<1>2. baseline = anchor /\ (baseline # None => baseline = m) /\ m \in Master /\ m # None
  BY <1>1, StoredMaster, ShareFields, Zenon DEF SInv, Anchored, At
<1>3. /\ \/ baseline' = m /\ anchor' = m /\ verdict' = 1
         \/ baseline' = baseline /\ anchor' = anchor /\ verdict' = -1 /\ faults' # 0
      /\ faults' \in Nat
  BY <1>2 DEF RecordBaseline, Fault, SInv, TypeOK
<1>4. /\ task' \in [Task -> Tasks]
      /\ task'[t].at = "gpk" /\ task'[t].share = task[t].share
      /\ \A o \in Task : o # t => task'[o] = task[o]
  BY <1>1, GotoFacts, Zenon DEF SInv, TypeOK, Steps
<1>5. /\ Alone' /\ Current' /\ Left'
      /\ \A o \in Task : Filed(o)' /\ (Busy(o)' <=> Busy(o))
  BY <1>1, <1>4, LateStep, Zenon DEF Late
<1>6. TypeOK'
  BY <1>1, <1>2, <1>3, <1>4 DEF SInv, TypeOK
<1>7. Phases'
  BY <1>1, <1>4, <1>5, StoredMaster, Zenon DEF SInv, Phases, At
<1>8. Anchored'
  <2>1. Judged(m)'
    BY <1>3, <1>4 DEF Judged
  <2>2. task'[t].share.master = m
    BY <1>4, Zenon
  <2> HIDE DEF m
  <2>3. pc = "up" => m = group_pubkey
    BY <1>1, StoredMaster, Zenon DEF m
  <2>4. pc # "up" => t = Main
    BY <1>1, StoredMaster, Zenon
  <2>5. ASSUME NEW o \in Task, At(o, "record")' PROVE task'[o].share.master = m
    <3>1. Busy(o) /\ o # t /\ task'[o] = task[o]
      BY <1>4, <2>5, Zenon DEF At, Busy
    <3>2. pc = "up"
      BY <2>4, <3>1, StoredMaster, Zenon
    <3> QED
      BY <2>3, <3>1, <3>2, StoredMaster, Zenon
  <2>6. baseline' = anchor' /\ (baseline' # None => baseline' = m)
    BY <1>2, <1>3, Zenon DEF m
  <2>7. path /\ pc = "up" => Judged(group_pubkey)'
    BY <1>1, <1>3, <2>3 DEF Judged, m
  <2>8. path /\ pc # "up" => Judged(task[Main].share.master)'
    BY <1>3, <1>4, <2>2, <2>4 DEF Judged, m
  <2> QED
    BY <1>1, <2>5, <2>6, <2>7, <2>8, Zenon DEF Anchored
<1>9. ASSUME NEW o \in Task PROVE Working(o)'
  BY <1>1, <1>4, <1>5, Zenon DEF SInv, Working, At, Source, Sealed, Late, Early
<1> QED
  BY <1>5, <1>6, <1>7, <1>8, <1>9, Zenon DEF SInv

(* The group pubkey is set. *)
LEMMA SetKeyKeeps ==
    ASSUME SInv, NEW t \in Task, SetKey(t)
    PROVE  SInv'
<1>1. /\ UNCHANGED <<path, id, captured, explicit, cluster, crashes, file, tmp, baseline, pc,
                     shard, sealed_share, verdict, persist_fail, injected, overlapped, anchor,
                     last, faults>>
      /\ task[t].at = "gpk" /\ task[t].at \in Late /\ Busy(t) /\ Goto(t, "shard")
      /\ group_pubkey' = task[t].share.master
  BY Zenon DEF SetKey, outside, disk, metrics, history, At, Late, Busy
<1>2. /\ task' \in [Task -> Tasks]
      /\ task'[t].at = "shard" /\ task'[t].share = task[t].share
      /\ \A o \in Task : o # t => task'[o] = task[o]
  BY <1>1, GotoFacts, Zenon DEF SInv, TypeOK, Steps
<1>3. /\ Alone' /\ Current' /\ Left'
      /\ \A o \in Task : Filed(o)' /\ (Busy(o)' <=> Busy(o))
      /\ task[t].share \in Share /\ pc # "down"
  BY <1>1, <1>2, LateStep, Zenon DEF Late
<1>4. (pc = "up" => group_pubkey' = group_pubkey) /\ (pc # "up" => t = Main)
  BY <1>1, StoredMaster, Zenon
<1>5. TypeOK'
  BY <1>1, <1>2, <1>3, ShareFields DEF SInv, TypeOK
<1>6. Phases'
  BY <1>1, <1>2, <1>3, <1>4, Zenon DEF SInv, Phases, At
<1>7. Anchored'
  BY <1>1, <1>2, <1>4, Zenon DEF SInv, Anchored, Judged, At
<1>8. ASSUME NEW o \in Task PROVE Working(o)'
  <2>1. CASE o = t
    BY <1>1, <1>2, <1>3, <2>1, Zenon DEF SInv, Working, Busy, At, Early, Late
  <2>2. CASE o # t
    <3>1. Busy(o) => pc = "up"
      BY <1>4, <2>2, StoredMaster, Zenon
    <3> QED
      BY <1>1, <1>2, <1>3, <1>4, <2>2, <3>1, Zenon DEF SInv, Working, At, Source, Sealed
  <2> QED
    BY <2>1, <2>2, Zenon
<1> QED
  BY <1>3, <1>5, <1>6, <1>7, <1>8, Zenon DEF SInv

(* The share is set. *)
LEMMA SetShardKeeps ==
    ASSUME SInv, NEW t \in Task, SetShard(t)
    PROVE  SInv'
<1>1. /\ UNCHANGED <<path, id, captured, cluster, crashes, file, tmp, baseline,
                     group_pubkey, sealed_share, verdict, persist_fail, overlapped, anchor,
                     last, faults>>
      /\ explicit' = None
      /\ task[t].at = "shard" /\ task[t].at \in Late /\ Busy(t)
      /\ shard' = task[t].share /\ pc' = "up" /\ injected' = (injected /\ pc = "boot")
  BY Zenon DEF SetShard, outside, disk, metrics, At, Late, Busy
<1>2. /\ task' \in [Task -> Tasks]
      /\ task'[t].at = "idle"
      /\ \A o \in Task : o # t => task'[o] = task[o]
  BY PutFacts, TaskType, StepNames, Zenon DEF SetShard, Idle
<1>3. task[t].share \in Share /\ group_pubkey = task[t].share.master
      /\ (pc # "up" => t = Main)
  BY <1>1, StoredMaster, Zenon DEF SInv, Working, At
<1>4. \A o \in Task : Busy(o)' => Busy(o) /\ o # t /\ task'[o] = task[o]
  BY <1>2, Zenon DEF Busy
<1>5. TypeOK'
  <2>1. injected' \in BOOLEAN /\ pc' \in {"down", "boot", "form", "up"}
    BY <1>1, Zenon
  <2>2. /\ path' \in BOOLEAN /\ persist_fail' \in BOOLEAN /\ overlapped' \in BOOLEAN
        /\ shard' \in Share \cup {None} /\ explicit' \in Blob \cup {None}
    BY <1>1, <1>3, Zenon DEF SInv, TypeOK
  <2>3. UNCHANGED <<id, captured, cluster, crashes, file, tmp, baseline, group_pubkey,
                    sealed_share, verdict, anchor, last, faults>>
    BY <1>1, Zenon
  <2> QED
    BY <1>2, <2>1, <2>2, <2>3, Zenon DEF SInv, TypeOK
<1>6. Phases' /\ Left'
  BY <1>1, <1>3, Zenon DEF Phases, Left
<1>7. Anchored'
  BY <1>1, <1>2, <1>3, Zenon DEF SInv, Anchored, Judged, At
<1>8. Alone'
  BY <1>1, <1>2, <1>4, Zenon DEF SInv, Alone, At, Sealed, Busy, Early
<1>9. Current'
  <2> SUFFICES ASSUME Persisted'
               PROVE  file = Sealed(task[t].share) /\ sealed_share = Sealed(task[t].share)
    BY <1>1, Zenon DEF Current, Sealed
  <2>1. path /\ ~persist_fail /\ ~overlapped /\ (pc = "boot" => ~injected)
    BY <1>1, Zenon DEF Persisted
  <2> QED
    BY <1>1, <2>1, Zenon DEF SInv, Filed
<1>10. ASSUME NEW o \in Task PROVE Working(o)' /\ Filed(o)'
  <2>1. CASE ~Busy(o)'
    BY <2>1, Zenon DEF Working, Filed
  <2>2. CASE Busy(o)'
    <3>1. Busy(o) /\ o # t /\ task'[o] = task[o] /\ pc = "up"
      BY <1>3, <1>4, <2>2, StoredMaster, Zenon
    <3>2. overlapped
      BY <1>1, <3>1, Zenon DEF SInv, Alone
    <3>3. Working(o)'
      BY <1>1, <3>1, Zenon DEF SInv, Working, At
    <3> QED
      BY <1>1, <3>2, <3>3, Zenon DEF Filed
  <2> QED
    BY <2>1, <2>2, Zenon
<1> QED
  BY <1>5, <1>6, <1>7, <1>8, <1>9, <1>10, Zenon DEF SInv

----------------------------------------------------------------------------
(* Crashes, restarts and clean-ups *)

(* A node without sessions and without a share. *)
LEMMA QuietKeeps ==
    ASSUME TypeOK', pc' \in {"down", "boot"}, shard' = None, group_pubkey' = None,
           \A t \in Task : task'[t].at = "idle", overlapped' = FALSE,
           pc' = "down" => persist_fail' = FALSE /\ injected' = FALSE /\ explicit' = None,
           baseline' = anchor', Left'
    PROVE  SInv'
<1>1. \A t \in Task : ~Busy(t)'
  BY Zenon DEF Busy
<1>2. Phases'
  BY <1>1, Zenon DEF Phases
<1>3. Main \in Task
  BY StoreAssumption, Zenon
<1>4. Anchored'
  BY <1>3, Zenon DEF Anchored, At
<1>5. Alone'
  BY Zenon DEF Alone, Busy, At, Early
<1>6. Current'
  BY Zenon DEF Current
<1>7. \A t \in Task : Working(t)' /\ Filed(t)'
  BY <1>1, Zenon DEF Working, Filed
<1> QED
  BY <1>2, <1>4, <1>5, <1>6, <1>7, Zenon DEF SInv

(* The shares being stored are shares. *)
LEMMA StoringShares == ASSUME SInv PROVE Storing \subseteq Share
  BY Zenon DEF SInv, Working, Storing

(* The process dies. *)
LEMMA CrashKeeps == ASSUME SInv, Crash PROVE SInv'
<1>1. /\ pc' = "down" /\ task' = [t \in Task |-> Idle]
      /\ shard' = None /\ group_pubkey' = None /\ sealed_share' = None
      /\ verdict' = -1 /\ persist_fail' = FALSE
      /\ injected' = FALSE /\ overlapped' = FALSE /\ explicit' = None
      /\ crashes' = crashes + 1
      /\ UNCHANGED <<path, id, captured, cluster, file, tmp, baseline, anchor, faults>>
  BY Zenon DEF Crash, disk
<1>2. last' = IF shard = None THEN IF last = {} THEN {} ELSE last \cup Storing
              ELSE IF Persisted THEN {shard} \cup Storing ELSE {}
  BY Zenon DEF Crash, Storing
<1>3. Idle \in Tasks /\ Idle.at = "idle"
  BY Zenon DEF Idle, Tasks, Steps
<1>4. \A t \in Task : task'[t].at = "idle"
  BY <1>1, <1>3, Zenon
<1>5. last' \subseteq Share
  BY <1>2, StoringShares, Zenon DEF SInv, TypeOK
<1>6. TypeOK'
  <2>1. task' \in [Task -> Tasks]
    BY <1>1, <1>3, Zenon
  <2>2. crashes' \in Nat /\ -1 \in {-1, 0, 1}
    BY <1>1 DEF SInv, TypeOK
  <2> QED
    BY <1>1, <1>5, <2>1, <2>2, Zenon DEF SInv, TypeOK
<1>7. Left'
  <2> SUFFICES ASSUME last' # {} PROVE path /\ \E s \in last' : file = Sealed(s)
    BY <1>1, Zenon DEF Left, Sealed
  <2>1. CASE shard = None
    <3>1. pc # "up"
      BY <2>1, ShareFields, Zenon DEF SInv, Phases
    <3>2. last # {} /\ last' = last \cup Storing
      BY <1>2, <2>1, Zenon
    <3> QED
      BY <3>1, <3>2, Zenon DEF SInv, Left
  <2>2. CASE shard # None
    <3>1. pc = "up"
      BY <2>2, Zenon DEF SInv, Phases
    <3>2. Persisted /\ last' = {shard} \cup Storing
      BY <1>2, <2>2, Zenon
    <3>3. CASE \A t \in Task : task[t].at \notin Late
      BY <3>1, <3>2, <3>3, Zenon DEF SInv, Current, Persisted
    <3>4. ASSUME NEW t \in Task, task[t].at \in Late
          PROVE  path /\ \E s \in last' : file = Sealed(s)
      <4>1. Busy(t)
        BY <3>4, Zenon DEF Busy, Late
      <4>2. file = Sealed(task[t].share) /\ path
        BY <3>1, <3>2, <3>4, <4>1, Zenon DEF SInv, Filed, Persisted
      <4>3. task[t].share \in last'
        BY <3>2, <4>1, Zenon DEF Storing
      <4> QED
        BY <4>2, <4>3, Zenon
    <3> QED
      BY <3>3, <3>4, Zenon
  <2> QED
    BY <2>1, <2>2, Zenon
<1> QED
  BY <1>1, <1>4, <1>6, <1>7, QuietKeeps, Zenon DEF SInv, Anchored

(* The process starts. *)
LEMMA RestartKeeps ==
    ASSUME SInv, NEW i \in Identity, NEW b \in Blob \cup {None}, Restart(i, b)
    PROVE  SInv'
<1>1. /\ pc = "down" /\ pc' = "boot" /\ id' = i /\ explicit' = b
      /\ last' = IF i = id /\ b = None THEN last ELSE {}
      /\ UNCHANGED <<path, captured, cluster, crashes, file, tmp, baseline, task, shard,
                     group_pubkey, sealed_share, verdict, persist_fail, injected, overlapped,
                     anchor, faults>>
  BY Zenon DEF Restart, disk, memory, metrics
<1>2. TypeOK'
  BY <1>1 DEF SInv, TypeOK
<1>3. /\ shard = None /\ group_pubkey = None /\ overlapped = FALSE
      /\ \A t \in Task : task[t].at = "idle"
  BY <1>1, StoreAssumption, Zenon DEF SInv, Phases, Busy, At, TypeOK
<1>4. Storing = {} /\ Storing' = {}
  BY <1>1, <1>3, Zenon DEF Storing, Busy
<1>5. Left'
  <2> SUFFICES ASSUME last' # {}
               PROVE  path /\ b = None /\ id' = id /\ last' = last
                      /\ \E s \in last : file = Sealed(s)
    BY <1>1, <1>4, Zenon DEF Left, Sealed
  <2>1. b = None /\ i = id /\ last' = last
    BY <1>1, Zenon
  <2> QED
    BY <1>1, <1>4, <2>1, Zenon DEF SInv, Left
<1> QED
  BY <1>1, <1>2, <1>3, <1>5, QuietKeeps, Zenon DEF SInv, Anchored

(* The operator cleans up. *)
LEMMA CleanUpKeeps == ASSUME SInv, CleanUp PROVE SInv'
<1>1. /\ pc = "down" /\ pc' = "down" /\ file' = None /\ captured' = None /\ last' = {}
      /\ UNCHANGED <<path, id, explicit, cluster, crashes, tmp, task, shard, group_pubkey,
                     sealed_share, verdict, persist_fail, injected, overlapped, faults>>
      /\ baseline' = anchor' /\ baseline' \in Master \cup {None}
  BY Zenon DEF CleanUp, memory, metrics, SInv, Anchored, TypeOK
<1>2. TypeOK'
  BY <1>1 DEF SInv, TypeOK
<1>3. /\ shard = None /\ group_pubkey = None /\ overlapped = FALSE
      /\ persist_fail = FALSE /\ injected = FALSE /\ explicit = None
      /\ \A t \in Task : task[t].at = "idle"
  BY <1>1, StoreAssumption, Zenon DEF SInv, Phases, Busy, At, TypeOK
<1>4. Left'
  BY <1>1, Zenon DEF Left
<1> QED
  BY <1>1, <1>2, <1>3, <1>4, QuietKeeps, Zenon

(* GET /sealed-share. *)
LEMMA CaptureKeeps == ASSUME SInv, Capture PROVE SInv'
<1>1. TypeOK'
  BY DEF SInv, TypeOK, Capture, disk, memory, metrics, history
<1>2. cluster' >= cluster
  BY DEF SInv, TypeOK, Capture
<1> QED
  BY <1>1, <1>2, OutsideKeeps, Zenon DEF Capture, disk, memory, metrics, history

(* The others reshare. *)
LEMMA ClusterMovesKeeps == ASSUME SInv, ClusterMoves PROVE SInv'
<1>1. cluster \in Nat /\ cluster' \in 0..MaxEpoch /\ cluster' >= cluster
  BY StoreAssumption DEF SInv, TypeOK, ClusterMoves
<1>2. TypeOK'
  BY <1>1 DEF SInv, TypeOK, ClusterMoves, disk, memory, metrics, history
<1> QED
  BY <1>1, <1>2, OutsideKeeps, Zenon DEF ClusterMoves, disk, memory, metrics, history

(* Nothing happens. *)
LEMMA StutterKeeps == ASSUME SInv, UNCHANGED vars PROVE SInv'
<1>1. TypeOK'
  BY DEF SInv, TypeOK, vars, outside, disk, memory, metrics, history
<1>2. cluster' >= cluster
  BY DEF SInv, TypeOK, vars, outside
<1> QED
  BY <1>1, <1>2, OutsideKeeps, Zenon DEF vars, outside, disk, memory, metrics, history

----------------------------------------------------------------------------
(* Theorems *)

(* Every step of the node, of its sessions and of the operator preserves the
   invariant. *)
LEMMA SInvStep == SInv /\ [Next]_vars => SInv'
<1> SUFFICES ASSUME SInv, [Next]_vars PROVE SInv'
  BY Zenon
<1>1. CASE NothingToReload \/ Unreadable \/ Unseal \/ Discard \/ Reload
  BY <1>1, NothingToReloadKeeps, UnreadableKeeps, UnsealKeeps, DiscardKeeps, ReloadKeeps, Zenon
<1>2. ASSUME NEW t \in Task, Stores(t) PROVE SInv'
  BY <1>2, OpenTmpKeeps, WriteTmpKeeps, RenameKeeps, PersistFailsKeeps, CheckBaselineKeeps,
     RecordBaselineKeeps, SetKeyKeeps, SetShardKeeps, Zenon DEF Stores
<1>3. ASSUME NEW t \in Task, NEW s \in Share, Begin(t, s) PROVE SInv'
  BY <1>3, BeginKeeps, Zenon
<1>4. CASE Crash
  BY <1>4, CrashKeeps, Zenon
<1>5. ASSUME NEW i \in Identity, NEW b \in Blob \cup {None}, Restart(i, b) PROVE SInv'
  BY <1>5, RestartKeeps, Zenon
<1>6. CASE Capture \/ CleanUp \/ ClusterMoves
  BY <1>6, CaptureKeeps, CleanUpKeeps, ClusterMovesKeeps, Zenon
<1>7. CASE UNCHANGED vars
  BY <1>7, StutterKeeps, Zenon
<1> QED
  BY <1>1, <1>2, <1>3, <1>4, <1>5, <1>6, <1>7, Zenon DEF Next

(* The invariant holds from the first start on. *)
LEMMA SInvAlways == Spec => []SInv
  BY SInvInit, SInvStep, PTL DEF Spec

(* store_share, try_reload_sealed and the baseline keep to their types: no
   torn blob is ever adopted, captured or exposed. *)
THEOREM StoreTypeCorrect == Spec => []TypeOK
<1>1. SInv => TypeOK
  BY Zenon DEF SInv
<1> QED
  BY <1>1, SInvAlways, PTL

(* While no persist failure is counted and stores do not overlap, the sealed
   file and GET /sealed-share hold the share in memory. *)
THEOREM FileAlwaysCurrent == Spec => []FileCurrent
<1>1. SInv => FileCurrent
  BY Zenon DEF SInv, Current, FileCurrent, Late, Busy
<1> QED
  BY <1>1, SInvAlways, PTL

(* A restart under the same TEE key comes back with the share held before the
   crash or the one being stored, unless its epoch is behind. *)
THEOREM RestartAlwaysKeepsShare == Spec => []RestartKeepsShare
<1>1. ASSUME SInv, last # {}, At(Main, "wait") PROVE task[Main].share \in last
  <2>1. Main \in Task /\ Busy(Main)
    BY <1>1, StoreAssumption, Zenon DEF At, Busy
  <2>2. pc = "boot"
    BY <1>1, <2>1, Zenon DEF SInv, Working
  <2>3. Storing \subseteq last
    BY <1>1, <2>2, Zenon DEF SInv, Left
  <2> QED
    BY <2>1, <2>3, Zenon DEF Storing
<1>2. SInv => RestartKeepsShare
  BY <1>1, Zenon DEF SInv, Left, RestartKeepsShare
<1> QED
  BY <1>2, SInvAlways, PTL

(* The verdict of check_master_baseline is the truth about the master first
   recorded. *)
THEOREM BaselineAlwaysHonest == Spec => []BaselineHonest
<1>1. ASSUME SInv, shard # None, path PROVE Judged(group_pubkey)
  BY <1>1, Zenon DEF SInv, Phases, Anchored
<1>2. SInv => BaselineHonest
  BY <1>1, Zenon DEF BaselineHonest, Judged
<1> QED
  BY <1>2, SInvAlways, PTL
=============================================================================
