----------------------------- MODULE ShareStore -----------------------------
(***************************************************************************)
(* What one node keeps of its share over its restarts: the sealed blob in  *)
(* memory and in the file, the blob that the deploy pipeline captures and  *)
(* injects again, and the master baseline next to the file.                *)
(*                                                                         *)
(* The store_share of two sessions can overlap, and the process can die    *)
(* between any two of its steps.  Task Main is form_cluster: it reloads a  *)
(* share, and it alone stores one while the node has none.  A share is its *)
(* epoch and its master; the identity of a blob is the TEE key it is       *)
(* sealed to.                                                              *)
(***************************************************************************)
EXTENDS Integers, FiniteSets

CONSTANTS
    Task,       \* sessions that may store a share
    Main,       \* the one of form_cluster
    Identity,   \* TEE keys of the node
    Master,
    None, Torn, \* no blob; a file cut short
    MaxEpoch,
    MaxMishaps  \* bound: crashes and failing disk accesses

ASSUME StoreAssumption ==
    /\ Main \in Task
    /\ MaxEpoch \in Nat /\ MaxMishaps \in Nat

VARIABLES
    path,          \* a durable path is configured
    id,            \* the TEE key of this life
    file, tmp,     \* the share file and its .tmp
    baseline,      \* the master.baseline file
    captured,      \* the blob the pipeline has captured
    explicit,      \* the blob injected into this life, until boot is over
    pc,            \* form_cluster: "down", "boot", "form" or "up"
    task,          \* the store_share of each session
    shard, group_pubkey, sealed_share,
    verdict,       \* master_matches_baseline
    persist_fail,  \* sealed_persist_fail > 0
    cluster,       \* the largest epoch among the peers
    faults, crashes,
    injected,      \* history: the share in memory came from explicit
    overlapped,    \* history: two store_share overlapped in this life
    anchor,        \* history: the first master recorded since a clean-up
    last           \* history: the shares a restart may come back with

disk    == <<file, tmp, baseline>>
memory  == <<shard, group_pubkey, sealed_share>>
metrics == <<verdict, persist_fail>>
history == <<injected, overlapped, anchor, last>>
outside == <<path, id, captured, explicit, cluster, crashes>>
vars    == <<outside, disk, pc, task, memory, metrics, history, faults>>

Share == [epoch : 1..MaxEpoch, master : Master]
Blob  == [id : Identity, share : Share]
Steps == {"idle", "wait", "open", "write", "rename", "baseline", "record", "gpk", "shard"}
Idle  == [at |-> "idle", share |-> None, fd |-> "tmp"]
Tasks == [at : Steps, share : Share \cup {None}, fd : {"tmp", "file", "gone"}]

ASSUME BlobAssumption ==
    /\ None \notin Share \cup Blob \cup Master /\ Torn \notin Blob /\ Torn # None

TypeOK ==
    /\ path \in BOOLEAN /\ id \in Identity
    /\ file \in Blob \cup {None, Torn} /\ tmp \in Blob \cup {None, Torn}
    /\ baseline \in Master \cup {None} /\ anchor \in Master \cup {None}
    /\ captured \in Blob \cup {None} /\ explicit \in Blob \cup {None}
    /\ sealed_share \in Blob \cup {None}
    /\ pc \in {"down", "boot", "form", "up"}
    /\ task \in [Task -> Tasks]
    /\ shard \in Share \cup {None} /\ group_pubkey \in Master \cup {None}
    /\ verdict \in {-1, 0, 1} /\ persist_fail \in BOOLEAN
    /\ cluster \in 0..MaxEpoch /\ faults \in Nat /\ crashes \in Nat
    /\ injected \in BOOLEAN /\ overlapped \in BOOLEAN
    /\ last \subseteq Share

(* A node that has never run. *)
Init ==
    /\ path \in BOOLEAN /\ id \in Identity
    /\ file = None /\ tmp = None /\ baseline = None
    /\ captured = None /\ explicit = None
    /\ pc = "down" /\ task = [t \in Task |-> Idle]
    /\ shard = None /\ group_pubkey = None /\ sealed_share = None
    /\ verdict = -1 /\ persist_fail = FALSE
    /\ cluster = 0 /\ faults = 0 /\ crashes = 0
    /\ injected = FALSE /\ overlapped = FALSE /\ anchor = None /\ last = {}

Mishap == crashes + faults < MaxMishaps
Fault  == Mishap /\ faults' = faults + 1

Busy(t) == task[t].at # "idle"

At(t, step) == task[t].at = step

(* The shares that are being reloaded or stored. *)
Storing == {task[t].share : t \in {b \in Task : Busy(b)}}

Goto(t, step) == task' = [task EXCEPT ![t].at = step]

SealedTo(i, s) == [id |-> i, share |-> s]

Sealed(s) == SealedTo(id, s)

----------------------------------------------------------------------------
(* try_reload_sealed *)

(* The injected blob, and only without one the file. *)
Source == IF explicit # None THEN explicit ELSE IF path THEN file ELSE None

(* There is no blob, it is not one, or it is sealed to another identity: the
   node will rejoin. *)
NothingToReload ==
    /\ pc = "boot" /\ ~Busy(Main)
    /\ Source \notin {Sealed(s) : s \in Share}
    /\ pc' = "form" /\ explicit' = None
    /\ UNCHANGED <<path, id, captured, cluster, crashes, disk, task, memory,
                   metrics, history, faults>>

(* Reading the file fails. *)
Unreadable ==
    /\ pc = "boot" /\ ~Busy(Main)
    /\ explicit = None /\ path /\ Fault
    /\ persist_fail' = TRUE
    /\ pc' = "form" /\ last' = {}
    /\ UNCHANGED <<outside, disk, task, memory, verdict, injected, overlapped, anchor>>

Unseal ==
    /\ pc = "boot" /\ ~Busy(Main)
    /\ Source \in {Sealed(s) : s \in Share}
    /\ task' = [task EXCEPT ![Main] = [at |-> "wait", share |-> Source.share, fd |-> "tmp"]]
    /\ UNCHANGED <<outside, disk, pc, memory, metrics, history, faults>>

(* After the wait for peers: known_epoch is some peer's epoch, or 0 if none is
   heard of. *)
Discard ==
    /\ At(Main, "wait")
    /\ \E known \in 0..cluster : task[Main].share.epoch < known
    /\ pc' = "form" /\ task' = [task EXCEPT ![Main] = Idle] /\ explicit' = None
    /\ UNCHANGED <<path, id, captured, cluster, crashes, disk, memory, metrics,
                   history, faults>>

Reload ==
    /\ At(Main, "wait")
    /\ \E known \in 0..cluster : task[Main].share.epoch >= known
    /\ sealed_share' = Sealed(task[Main].share)
    /\ injected' = (explicit # None)
    /\ Goto(Main, "baseline")
    /\ UNCHANGED <<outside, disk, pc, shard, group_pubkey, metrics, overlapped,
                   anchor, last, faults>>

----------------------------------------------------------------------------
(* store_share *)

(* A session ends with share s.  The node has checked that it is of the
   master it knows, if it knows one. *)
Begin(t, s) ==
    /\ ~Busy(t)
    /\ pc = "up" \/ (pc = "form" /\ t = Main)
    /\ group_pubkey \in {None, s.master}
    /\ s.epoch <= cluster + 1
    /\ cluster' = (IF s.epoch > cluster THEN s.epoch ELSE cluster)
    /\ \/ /\ sealed_share' = Sealed(s)
          /\ task' = [task EXCEPT ![t] =
                         [at |-> IF path THEN "open" ELSE "baseline", share |-> s, fd |-> "tmp"]]
          /\ UNCHANGED <<persist_fail, faults>>
       \/ /\ Fault /\ persist_fail' = TRUE
          /\ task' = [task EXCEPT ![t] = [at |-> "baseline", share |-> s, fd |-> "tmp"]]
          /\ UNCHANGED sealed_share
    /\ overlapped' = (overlapped \/ \E o \in Task : Busy(o))
    /\ UNCHANGED <<path, id, captured, explicit, crashes, disk, pc, shard, group_pubkey,
                   verdict, injected, anchor, last>>

(* Mutant: the file is written in place. *)
OpenTmpInPlace(t) ==
    /\ At(t, "open")
    /\ file' = Torn
    /\ task' = [task EXCEPT ![t].at = "write", ![t].fd = "file"]
    /\ UNCHANGED <<outside, tmp, baseline, pc, memory, metrics, history, faults>>

(* write_blob_file creates or truncates the .tmp, *)
OpenTmp(t) ==
    /\ At(t, "open")
    /\ tmp' = Torn
    /\ Goto(t, "write")
    /\ UNCHANGED <<outside, file, baseline, pc, memory, metrics, history, faults>>

(* fills it, wherever another session has moved it meanwhile, *)
WriteTmp(t) ==
    /\ At(t, "write")
    /\ tmp' = (IF task[t].fd = "tmp" THEN Sealed(task[t].share) ELSE tmp)
    /\ file' = (IF task[t].fd = "file" THEN Sealed(task[t].share) ELSE file)
    /\ Goto(t, "rename")
    /\ UNCHANGED <<outside, baseline, pc, memory, metrics, history, faults>>

(* and renames it.  Without a .tmp the rename fails. *)
Rename(t) ==
    /\ At(t, "rename")
    /\ IF tmp = None
       THEN /\ persist_fail' = TRUE /\ Goto(t, "baseline")
            /\ UNCHANGED <<file, tmp>>
       ELSE /\ file' = tmp /\ tmp' = None
            /\ task' = [o \in Task |->
                  IF o = t THEN [task[t] EXCEPT !.at = "baseline"]
                  ELSE [task[o] EXCEPT !.fd = CASE At(o, "write") /\ @ = "tmp" -> "file"
                                               [] At(o, "write") /\ @ = "file" -> "gone"
                                               [] OTHER -> @]]
            /\ UNCHANGED persist_fail
    /\ UNCHANGED <<outside, baseline, pc, memory, verdict, history, faults>>

(* Mutant: the failure is not counted. *)
PersistFailsSilently(t) ==
    /\ task[t].at \in {"open", "write", "rename"} /\ Fault
    /\ Goto(t, "baseline")
    /\ UNCHANGED <<outside, disk, pc, memory, metrics, history>>

(* A full or read-only disk. *)
PersistFails(t) ==
    /\ task[t].at \in {"open", "write", "rename"} /\ Fault
    /\ persist_fail' = TRUE
    /\ Goto(t, "baseline")
    /\ UNCHANGED <<outside, disk, pc, memory, verdict, history>>

----------------------------------------------------------------------------
(* check_master_baseline *)

(* Mutant: a new master is recorded over the old one. *)
CheckBaselineAgain(t) ==
    /\ At(t, "baseline")
    /\ Goto(t, IF path THEN "record" ELSE "gpk")
    /\ UNCHANGED <<outside, disk, pc, memory, metrics, history, faults>>

(* What is recorded is compared, *)
CheckBaseline(t) ==
    /\ At(t, "baseline")
    /\ \/ /\ ~path /\ Goto(t, "gpk") /\ UNCHANGED <<verdict, faults>>
       \/ /\ path /\ baseline = None /\ Goto(t, "record") /\ UNCHANGED <<verdict, faults>>
       \/ /\ path /\ baseline # None /\ Goto(t, "gpk")
          /\ verdict' = (IF baseline = task[t].share.master THEN 1 ELSE 0)
          /\ UNCHANGED faults
       \/ /\ path /\ Fault /\ verdict' = -1 /\ Goto(t, "gpk")
    /\ UNCHANGED <<outside, disk, pc, memory, persist_fail, history>>

(* and if nothing is, the master is recorded. *)
RecordBaseline(t) ==
    /\ At(t, "record")
    /\ \/ /\ baseline' = task[t].share.master /\ verdict' = 1
          /\ anchor' = (IF anchor = None THEN task[t].share.master ELSE anchor)
          /\ UNCHANGED faults
       \/ /\ Fault /\ verdict' = -1 /\ UNCHANGED <<baseline, anchor>>
    /\ Goto(t, "gpk")
    /\ UNCHANGED <<outside, file, tmp, pc, memory, persist_fail, injected,
                   overlapped, last>>

----------------------------------------------------------------------------
(* The end of store_share and of try_reload_sealed *)

SetKey(t) ==
    /\ At(t, "gpk")
    /\ group_pubkey' = task[t].share.master
    /\ Goto(t, "shard")
    /\ UNCHANGED <<outside, disk, pc, shard, sealed_share, metrics, history, faults>>

SetShard(t) ==
    /\ At(t, "shard")
    /\ shard' = task[t].share
    /\ injected' = (injected /\ pc = "boot")
    /\ pc' = "up"
    /\ task' = [task EXCEPT ![t] = Idle] /\ explicit' = None
    /\ UNCHANGED <<path, id, captured, cluster, crashes, disk, group_pubkey,
                   sealed_share, metrics, overlapped, anchor, last, faults>>

----------------------------------------------------------------------------
(* Crashes, the pipeline and the operator *)

(* Nothing has been reported that would keep the file from being current. *)
Persisted == path /\ ~persist_fail /\ ~overlapped /\ ~injected

Crash ==
    /\ pc # "down" /\ Mishap
    /\ crashes' = crashes + 1
    /\ pc' = "down" /\ task' = [t \in Task |-> Idle]
    /\ shard' = None /\ group_pubkey' = None /\ sealed_share' = None
    /\ verdict' = -1 /\ persist_fail' = FALSE
    /\ injected' = FALSE /\ overlapped' = FALSE
    /\ last' = IF shard = None THEN IF last = {} THEN {} ELSE last \cup Storing
               ELSE IF Persisted THEN {shard} \cup Storing ELSE {}
    /\ explicit' = None
    /\ UNCHANGED <<path, id, captured, cluster, disk, anchor, faults>>

(* The process is started, maybe under a new TEE key, with or without the
   captured blob. *)
Restart(i, b) ==
    /\ pc = "down"
    /\ b \in {None, captured}
    /\ pc' = "boot" /\ id' = i /\ explicit' = b
    /\ last' = IF i = id /\ b = None THEN last ELSE {}
    /\ UNCHANGED <<path, captured, cluster, crashes, disk, task, memory, metrics,
                   injected, overlapped, anchor, faults>>

(* Mutant: GET /sealed-share answers with the file. *)
CaptureFile ==
    /\ pc # "down" /\ file # None
    /\ captured' = file
    /\ UNCHANGED <<path, id, explicit, cluster, crashes, disk, pc, task, memory, metrics,
                   history, faults>>

(* GET /sealed-share by the deploy pipeline. *)
Capture ==
    /\ pc # "down" /\ sealed_share # None
    /\ captured' = sealed_share
    /\ UNCHANGED <<path, id, explicit, cluster, crashes, disk, pc, task, memory, metrics,
                   history, faults>>

(* The operator clears the blobs before a re-genesis, and deletes the baseline
   or forgets to. *)
CleanUp ==
    /\ pc = "down"
    /\ file' = None /\ captured' = None /\ last' = {}
    /\ \/ baseline' = None /\ anchor' = None
       \/ UNCHANGED <<baseline, anchor>>
    /\ UNCHANGED <<path, id, explicit, cluster, crashes, tmp, pc, task, memory, metrics,
                   injected, overlapped, faults>>

(* The others reshare. *)
ClusterMoves ==
    /\ cluster < MaxEpoch
    /\ cluster' = cluster + 1
    /\ UNCHANGED <<path, id, captured, explicit, crashes, disk, pc, task, memory, metrics,
                   history, faults>>

Stores(t) ==
    \/ OpenTmp(t) \/ WriteTmp(t) \/ Rename(t) \/ PersistFails(t)
    \/ CheckBaseline(t) \/ RecordBaseline(t) \/ SetKey(t) \/ SetShard(t)

Next ==
    \/ NothingToReload \/ Unreadable \/ Unseal \/ Discard \/ Reload
    \/ \E t \in Task : Stores(t) \/ \E s \in Share : Begin(t, s)
    \/ Crash \/ \E i \in Identity, b \in Blob \cup {None} : Restart(i, b)
    \/ Capture \/ CleanUp \/ ClusterMoves

Spec == Init /\ [][Next]_vars

----------------------------------------------------------------------------
(* Properties *)

(* kms_sealed_persist_failures_total says when a restart will have to rejoin:
   as long as it is 0 and stores do not overlap, the file and GET
   /sealed-share hold the very share that is in memory, after stores and after
   reloads from the file. *)
FileCurrent ==
    pc = "up" /\ Persisted /\ (\A t \in Task : ~Busy(t))
        => file = Sealed(shard) /\ sealed_share = Sealed(shard)

(* A crash between any two steps of store_share leaves the old or the new
   share in the file, whole and sealed to this node, and a node that restarts
   comes back with it: it joins anew only if the share in the file is behind
   the cluster. *)
RestartKeepsShare ==
    pc # "up" /\ last # {} =>
       /\ \E s \in last \cup Storing : file = Sealed(s)
       /\ pc = "form" /\ ~Busy(Main) => \E s \in last : file = Sealed(s) /\ s.epoch < cluster
       /\ At(Main, "wait") => task[Main].share \in last

(* "Is this still the same cluster I originally joined?"  A node with a share
   reports a match only if its master is the one first recorded, and a change
   only if it is not, over identity changes and forgotten clean-ups; it knows
   unless a disk access failed. *)
BaselineHonest ==
    shard # None /\ path =>
       /\ verdict = 1 => anchor = group_pubkey
       /\ verdict = 0 => anchor \notin {None, group_pubkey}
       /\ faults = 0 => verdict # -1
=============================================================================
