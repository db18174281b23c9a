---------------------------- MODULE GossipProofs ----------------------------
(***************************************************************************)
(* Proofs about Gossip for any committee, any seeds and any window: a dead *)
(* host drops out of every table, and no table shows an epoch its node has *)
(* not had.                                                                *)
(***************************************************************************)
EXTENDS Gossip, TLAPS

(* An entry of a dead host is at least as old as its death, and no entry has
   an epoch its node has not held. *)
Sound(t) ==
    \A a \in Addr : t[a] # None =>
       /\ ~up[HostOf[a]] => t[a].age >= down[HostOf[a]]
       /\ t[a].epoch <= best[a]

(* What a round announces was the epoch of its own node. *)
Announced(h) ==
    /\ HostOf[id[h]] = h
    /\ epoch[h] <= best[id[h]] /\ round[h].epoch <= best[id[h]]

(* The count of a host's down time starts at its crash, which leaves no share
   and no round behind. *)
DownCounted(h) ==
    /\ up[h] => down[h] = 0
    /\ ~up[h] => epoch[h] = 0 /\ round[h].epoch = 0

GInv ==
    /\ TypeOK
    /\ \A h \in Node : Announced(h) /\ DownCounted(h) /\ Sound(table[h])

----------------------------------------------------------------------------
(* Tables *)

(* Epochs are numbers. *)
LEMMA EpochsNat == Epoch0 \subseteq Nat
  BY GossipAssumption DEF Epoch0

(* An entry of a table has the fields of an entry. *)
LEMMA EntryFields ==
    ASSUME NEW t \in Tables, NEW a \in Addr, t[a] # None
    PROVE  t[a] \in Entry /\ t[a].age \in 0..Never /\ t[a].epoch \in Epoch0
           /\ t[a].gpk \in Master0
  BY DEF Tables, Entry

(* Registering a caller gives a table. *)
LEMMA RegisterType ==
    ASSUME NEW t \in Tables, NEW a \in Addr, NEW e \in Epoch0, NEW m \in Master0
    PROVE  Register(t, a, e, m) \in Tables
<1>1. [age |-> 0, epoch |-> e, gpk |-> m] \in Entry
  BY GossipAssumption DEF Entry, Never
<1> QED
  BY <1>1 DEF Register, Tables

(* Marking contact with a host gives a table. *)
LEMMA ContactedType ==
    ASSUME NEW t \in Tables, NEW d \in Node
    PROVE  Contacted(t, d) \in Tables
<1>1. ASSUME NEW a \in Addr, t[a] # None
      PROVE  [t[a] EXCEPT !.age = 0] \in Entry
  <2>1. t[a] \in Entry
    BY <1>1, EntryFields
  <2> QED
    BY <2>1, GossipAssumption DEF Entry, Never
<1> QED
  BY <1>1 DEF Contacted, Tables

(* What becomes of an entry on relay is an entry that is no younger. *)
LEMMA RelayedType ==
    ASSUME NEW e \in Entry \cup {None}, NEW o \in Entry
    PROVE  /\ Relayed(e, o) \in Entry
           /\ Relayed(e, o).age = IF e = None THEN Never ELSE e.age
           /\ Relayed(e, o).epoch = o.epoch \/ (e # None /\ Relayed(e, o).epoch = e.epoch)
<1>1. CASE e = None
  <2>1. Relayed(e, o) = [o EXCEPT !.age = Never]
    BY <1>1 DEF Relayed
  <2>2. o = [age |-> o.age, epoch |-> o.epoch, gpk |-> o.gpk]
        /\ o.epoch \in Epoch0 /\ o.gpk \in Master0
    BY DEF Entry
  <2>3. [o EXCEPT !.age = Never] = [age |-> Never, epoch |-> o.epoch, gpk |-> o.gpk]
    BY <2>2
  <2>4. Never \in 0..Never
    BY GossipAssumption DEF Never
  <2> QED
    BY <1>1, <2>1, <2>2, <2>3, <2>4 DEF Entry
<1>2. CASE e # None
  <2>1. Relayed(e, o) = [age   |-> e.age,
                         epoch |-> IF o.epoch > e.epoch THEN o.epoch ELSE e.epoch,
                         gpk   |-> IF o.gpk = None THEN e.gpk ELSE o.gpk]
    BY <1>2 DEF Relayed
  <2>2. e \in Entry
    BY <1>2
  <2> QED
    BY <1>2, <2>1, <2>2 DEF Entry
<1> QED
  BY <1>1, <1>2

(* Merging an answer gives a table. *)
LEMMA MergedType ==
    ASSUME NEW h \in Node, NEW t \in Tables, NEW o \in Tables
    PROVE  Merged(h, t, o) \in Tables
<1>1. ASSUME NEW a \in Addr, o[a] # None
      PROVE  Relayed(t[a], o[a]) \in Entry
  <2>1. o[a] \in Entry /\ t[a] \in Entry \cup {None}
    BY <1>1, EntryFields DEF Tables
  <2> QED
    BY <2>1, RelayedType
<1> QED
  BY <1>1 DEF Merged, Tables

(* A caller that runs and announces an epoch it has held keeps a table sound. *)
LEMMA RegisterSound ==
    ASSUME NEW t \in Tables, NEW a \in Addr, NEW e \in Epoch0, NEW m \in Master0,
           Sound(t), up[HostOf[a]], e <= best[a]
    PROVE  Sound(Register(t, a, e, m))
<1> DEFINE r == Register(t, a, e, m)
<1>1. r[a] = [age |-> 0, epoch |-> e, gpk |-> m] /\ \A b \in Addr \ {a} : r[b] = t[b]
  BY DEF Register, Tables
<1>2. ASSUME NEW b \in Addr, r[b] # None
      PROVE  (~up[HostOf[b]] => r[b].age >= down[HostOf[b]]) /\ r[b].epoch <= best[b]
  <2>1. CASE b = a
    BY <1>1, <2>1
  <2>2. CASE b # a
    BY <1>1, <1>2, <2>2 DEF Sound
  <2> QED
    BY <2>1, <2>2
<1> QED
  BY <1>2 DEF Sound

(* Contact with a host that runs keeps a table sound. *)
LEMMA ContactedSound ==
    ASSUME NEW t \in Tables, NEW d \in Node, Sound(t), up[d]
    PROVE  Sound(Contacted(t, d))
<1> DEFINE r == Contacted(t, d)
<1>1. ASSUME NEW a \in Addr, r[a] # None
      PROVE  (~up[HostOf[a]] => r[a].age >= down[HostOf[a]]) /\ r[a].epoch <= best[a]
  <2>1. CASE t[a] # None /\ HostOf[a] = d
    <3>1. r[a] = [t[a] EXCEPT !.age = 0]
      BY <2>1 DEF Contacted
    <3>2. t[a] \in Entry
      BY <2>1, EntryFields
    <3>3. r[a].epoch = t[a].epoch
      BY <3>1, <3>2 DEF Entry
    <3> QED
      BY <2>1, <3>3 DEF Sound
  <2>2. CASE ~(t[a] # None /\ HostOf[a] = d)
    <3>1. r[a] = t[a]
      BY <2>2 DEF Contacted
    <3> QED
      BY <1>1, <3>1 DEF Sound
  <2> QED
    BY <2>1, <2>2
<1> QED
  BY <1>1 DEF Sound

(* Merging one sound table into another gives a sound one. *)
LEMMA MergedSound ==
    ASSUME NEW h \in Node, NEW t \in Tables, NEW o \in Tables, Sound(t), Sound(o),
           down \in [Node -> 0..Never]
    PROVE  Sound(Merged(h, t, o))
<1> DEFINE r == Merged(h, t, o)
<1>1. ASSUME NEW a \in Addr, r[a] # None
      PROVE  (~up[HostOf[a]] => r[a].age >= down[HostOf[a]]) /\ r[a].epoch <= best[a]
  <2>1. CASE HostOf[a] = h \/ o[a] = None
    <3>1. r[a] = t[a]
      BY <2>1 DEF Merged
    <3> QED
      BY <1>1, <3>1 DEF Sound
  <2>2. CASE ~(HostOf[a] = h \/ o[a] = None)
    <3>1. r[a] = Relayed(t[a], o[a])
      BY <2>2 DEF Merged
    <3>2. o[a] \in Entry /\ t[a] \in Entry \cup {None}
      BY <2>2, EntryFields DEF Tables
    <3>3. /\ r[a].age = IF t[a] = None THEN Never ELSE t[a].age
          /\ r[a].epoch = o[a].epoch \/ (t[a] # None /\ r[a].epoch = t[a].epoch)
      BY <3>1, <3>2, RelayedType
    <3>4. down[HostOf[a]] \in 0..Never
      BY GossipAssumption
    <3>5. r[a].epoch <= best[a]
      BY <2>2, <3>3 DEF Sound
    <3>6. ASSUME ~up[HostOf[a]] PROVE r[a].age >= down[HostOf[a]]
      <4>1. CASE t[a] = None
        BY <3>3, <3>4, <4>1, GossipAssumption DEF Never
      <4>2. CASE t[a] # None
        BY <3>3, <3>6, <4>2 DEF Sound
      <4> QED
        BY <4>1, <4>2
    <3> QED
      BY <3>5, <3>6
  <2> QED
    BY <2>1, <2>2
<1> QED
  BY <1>1 DEF Sound

----------------------------------------------------------------------------
(* Steps *)

(* A new cluster satisfies the invariant. *)
LEMMA GInvInit == Init => GInv
<1> SUFFICES ASSUME Init PROVE GInv
  OBVIOUS
<1>1. PICK e \in Epochs, m \in Master :
         /\ epoch = [h \in Node |-> e]
         /\ group_pubkey = [h \in Node |-> m]
         /\ best = [a \in Addr |-> IF id[HostOf[a]] = a THEN e ELSE 0]
  BY DEF Init
<1>2. e \in Nat \ {0} /\ Never \in Nat
  BY <1>1, GossipAssumption DEF Never
<1>3. NoTable \in Tables /\ Resting("idle") \in Rounds
  BY DEF NoTable, Tables, Resting, Rounds, Epoch0, Master0
<1>4. TypeOK
  BY <1>1, <1>2, <1>3 DEF Init, TypeOK, Epoch0, Master0
<1>5. ASSUME NEW h \in Node PROVE Announced(h) /\ DownCounted(h) /\ Sound(table[h])
  <2>1. HostOf[id[h]] = h /\ id[h] \in Addr /\ round[h].epoch = 0
    BY DEF Init, Resting
  <2>2. best[id[h]] = e /\ epoch[h] = e
    BY <1>1, <2>1
  <2>3. Announced(h)
    BY <1>2, <2>1, <2>2 DEF Announced
  <2>4. DownCounted(h)
    BY DEF Init, DownCounted
  <2>5. Sound(table[h])
    BY DEF Init, NoTable, Sound
  <2> QED
    BY <2>3, <2>4, <2>5
<1> QED
  BY <1>4, <1>5 DEF GInv

(* The round after a push is a round that announces the same epoch or none. *)
LEMMA AdvanceRound ==
    ASSUME GInv, NEW h \in Node, NEW d \in Node, Advance(h, d)
    PROVE  /\ round' \in [Node -> Rounds]
           /\ \A g \in Node : round'[g].epoch \in {0, round[g].epoch}
<1>1. round[h] \in Rounds /\ round \in [Node -> Rounds]
  BY DEF GInv, TypeOK
<1>2. Resting("done") \in Rounds /\ Resting("done").epoch = 0
  BY DEF Resting, Rounds, Epoch0, Master0
<1>3. [round[h] EXCEPT !.todo = @ \ {d}] \in Rounds
      /\ [round[h] EXCEPT !.todo = @ \ {d}].epoch = round[h].epoch
  BY <1>1 DEF Rounds
<1>4. round'[h] \in Rounds /\ round'[h].epoch \in {0, round[h].epoch}
  BY <1>1, <1>2, <1>3 DEF Advance
<1>5. \A g \in Node : g # h => round'[g] = round[g]
  BY <1>1 DEF Advance
<1> QED
  BY <1>1, <1>4, <1>5 DEF Advance

(* Steps that change rounds and tables only keep the invariant if the tables
   stay sound and the rounds announce nothing new. *)
LEMMA GossipKeeps ==
    ASSUME GInv, UNCHANGED <<up, shareVars, down, adopts>>, faults' \in Nat,
           table' \in [Node -> Tables], \A h \in Node : Sound(table'[h]),
           round' \in [Node -> Rounds],
           \A h \in Node : round'[h].epoch \in {0, round[h].epoch, epoch[h]}
    PROVE  GInv'
<1>1. TypeOK'
  BY DEF GInv, TypeOK, shareVars
<1>2. ASSUME NEW h \in Node PROVE Announced(h)' /\ DownCounted(h)' /\ Sound(table[h])'
  <2>1. best[id[h]] \in Nat
    <3>1. best \in [Addr -> Epoch0] /\ id[h] \in Addr
      BY DEF GInv, TypeOK
    <3> QED
      BY <3>1, EpochsNat
  <2>5. Announced(h) /\ round'[h].epoch \in {0, round[h].epoch, epoch[h]}
        /\ id' = id /\ epoch' = epoch /\ best' = best
    BY DEF GInv, shareVars
  <2>2. Announced(h)'
    BY <2>1, <2>5 DEF Announced
  <2>3. DownCounted(h)'
    BY DEF GInv, DownCounted, shareVars
  <2>4. Sound(table[h])'
    BY DEF Sound, shareVars
  <2> QED
    BY <2>2, <2>3, <2>4
<1> QED
  BY <1>1, <1>2 DEF GInv

(* The start of a round. *)
LEMMA BeginRoundKeeps ==
    ASSUME GInv, NEW h \in Node, BeginRound(h)
    PROVE  GInv'
<1> DEFINE r == [state |-> "pushing", todo |-> Targets(h),
                 epoch |-> epoch[h], gpk |-> group_pubkey[h]]
<1>1. Targets(h) \subseteq Node
  BY GossipAssumption DEF Targets, Known
<1>2. r \in Rounds /\ Resting("done") \in Rounds /\ Resting("done").epoch = 0
  BY <1>1 DEF GInv, TypeOK, Rounds, Resting, Epoch0, Master0
<1>3. round' \in [Node -> Rounds]
      /\ \A g \in Node : round'[g].epoch \in {0, round[g].epoch, epoch[g]}
  BY <1>2 DEF BeginRound, GInv, TypeOK
<1>4. \A g \in Node : Sound(table'[g])
  BY DEF BeginRound, GInv
<1>5. table' \in [Node -> Tables] /\ faults' \in Nat
  BY DEF BeginRound, GInv, TypeOK
<1> QED
  BY <1>3, <1>4, <1>5, GossipKeeps DEF BeginRound

(* A push, with its answer merged or lost. *)
LEMMA PushKeeps ==
    ASSUME GInv, NEW h \in Node, NEW d \in Node, Push(h, d)
    PROVE  GInv'
<1> DEFINE t == Register(table[d], id[h], round[h].epoch, round[h].gpk)
           c == Contacted(table[h], d)
           m == Merged(h, c, t)
<1>1. /\ table[d] \in Tables /\ table[h] \in Tables /\ id[h] \in Addr
      /\ round[h].epoch \in Epoch0 /\ round[h].gpk \in Master0
      /\ table \in [Node -> Tables] /\ down \in [Node -> 0..Never]
  BY DEF GInv, TypeOK, Rounds
<1>2. up[HostOf[id[h]]] /\ round[h].epoch <= best[id[h]] /\ up[d]
      /\ Sound(table[d]) /\ Sound(table[h])
  BY DEF Push, GInv, Announced
<1>3. t \in Tables /\ Sound(t)
  BY <1>1, <1>2, RegisterType, RegisterSound
<1>4. c \in Tables /\ Sound(c)
  BY <1>1, <1>2, ContactedType, ContactedSound
<1>5. m \in Tables /\ Sound(m)
  BY <1>1, <1>3, <1>4, MergedType, MergedSound
<1>6. \/ table' = [table EXCEPT ![d] = t, ![h] = m] /\ UNCHANGED faults
      \/ table' = [table EXCEPT ![d] = t] /\ Fault
  BY DEF Push
<1>7. \A g \in Node : table'[g] \in {table[g], t, m}
  BY <1>1, <1>6
<1>8. table' \in [Node -> Tables] /\ \A g \in Node : Sound(table'[g])
  BY <1>1, <1>3, <1>5, <1>6, <1>7 DEF GInv
<1>9. faults' \in Nat
  BY <1>6 DEF Fault, GInv, TypeOK
<1>10. round' \in [Node -> Rounds]
       /\ \A g \in Node : round'[g].epoch \in {0, round[g].epoch, epoch[g]}
  BY AdvanceRound DEF Push
<1> QED
  BY <1>8, <1>9, <1>10, GossipKeeps DEF Push

(* A push that fails. *)
LEMMA PushFailsKeeps ==
    ASSUME GInv, NEW h \in Node, NEW d \in Node, PushFails(h, d)
    PROVE  GInv'
<1>1. round' \in [Node -> Rounds]
      /\ \A g \in Node : round'[g].epoch \in {0, round[g].epoch, epoch[g]}
  BY AdvanceRound DEF PushFails
<1>2. table' \in [Node -> Tables] /\ faults' \in Nat
  BY DEF PushFails, Fault, GInv, TypeOK
<1>3. \A g \in Node : Sound(table'[g])
  BY DEF PushFails, GInv
<1> QED
  BY <1>1, <1>2, <1>3, GossipKeeps DEF PushFails

(* A node stores a share. *)
LEMMA AdoptKeeps ==
    ASSUME GInv, NEW h \in Node, NEW e \in Epochs, NEW m \in Master, Adopt(h, e, m)
    PROVE  GInv'
<1>1. /\ best \in [Addr -> Epoch0] /\ id[h] \in Addr /\ e \in Epoch0
      /\ epoch \in [Node -> Epoch0] /\ group_pubkey \in [Node -> Master0]
      /\ m \in Master0 /\ adopts \in Nat
  BY DEF GInv, TypeOK, Epoch0, Master0
<1>2. best' \in [Addr -> Epoch0] /\ best'[id[h]] >= e
      /\ \A a \in Addr : best'[a] >= best[a]
  <2>1. best[id[h]] \in Epoch0 /\ best[id[h]] \in Nat /\ e \in Nat
    BY <1>1, EpochsNat
  <2>2. best' = [best EXCEPT ![id[h]] = IF e > best[id[h]] THEN e ELSE best[id[h]]]
    BY DEF Adopt
  <2>3. best' \in [Addr -> Epoch0] /\ best'[id[h]] >= e /\ best'[id[h]] >= best[id[h]]
    BY <1>1, <2>1, <2>2
  <2>4. ASSUME NEW a \in Addr PROVE best'[a] >= best[a]
    <3>1. best[a] \in Nat
      BY <1>1, EpochsNat
    <3> QED
      BY <1>1, <2>2, <2>3, <3>1
  <2> QED
    BY <2>3, <2>4
<1>3. TypeOK'
  <2>1. epoch' \in [Node -> Epoch0] /\ group_pubkey' \in [Node -> Master0] /\ adopts' \in Nat
    BY <1>1 DEF Adopt
  <2> QED
    BY <1>2, <2>1 DEF GInv, TypeOK, Adopt
<1>4. ASSUME NEW g \in Node PROVE Announced(g)' /\ DownCounted(g)' /\ Sound(table[g])'
  <2>1. Announced(g) /\ DownCounted(g) /\ Sound(table[g])
    BY DEF GInv
  <2>2. /\ id[g] \in Addr /\ epoch[g] \in Nat /\ round[g].epoch \in Nat
        /\ best[id[g]] \in Nat /\ best'[id[g]] \in Nat /\ e \in Nat
    BY <1>1, <1>2, EpochsNat DEF GInv, TypeOK, Rounds
  <2>3. epoch'[g] = (IF g = h THEN e ELSE epoch[g]) /\ id' = id /\ round' = round
    BY <1>1 DEF Adopt
  <2>4. Announced(g)'
    BY <1>2, <2>1, <2>2, <2>3 DEF Announced
  <2>5. DownCounted(g)'
    BY <2>1, <2>3 DEF DownCounted, Adopt
  <2>6. Sound(table[g])'
    <3>1. ASSUME NEW a \in Addr, table[g][a] # None PROVE table[g][a].epoch <= best'[a]
      <4>1. table[g][a].epoch \in Nat /\ best[a] \in Nat /\ best'[a] \in Nat
        BY <1>1, <1>2, <3>1, EpochsNat, EntryFields DEF GInv, TypeOK
      <4> QED
        BY <1>2, <2>1, <3>1, <4>1 DEF Sound
    <3> QED
      BY <2>1, <3>1 DEF Sound, Adopt
  <2> QED
    BY <2>4, <2>5, <2>6
<1> QED
  BY <1>3, <1>4 DEF GInv

(* A process dies. *)
LEMMA CrashKeeps ==
    ASSUME GInv, NEW h \in Node, Crash(h)
    PROVE  GInv'
<1>1. NoTable \in Tables /\ Resting("idle") \in Rounds /\ Resting("idle").epoch = 0
      /\ 0 \in Epoch0 /\ None \in Master0
  BY DEF NoTable, Tables, Resting, Rounds, Epoch0, Master0
<1>2. TypeOK'
  BY <1>1 DEF GInv, TypeOK, Crash, Fault
<1>3. ASSUME NEW g \in Node PROVE Announced(g)' /\ DownCounted(g)' /\ Sound(table[g])'
  <2>1. Announced(g) /\ DownCounted(g) /\ Sound(table[g])
    BY DEF GInv
  <2>2. best[id[g]] \in Nat
    BY EpochsNat DEF GInv, TypeOK
  <2>3. /\ epoch'[g] = (IF g = h THEN 0 ELSE epoch[g]) /\ id' = id /\ best' = best
        /\ round'[g] = (IF g = h THEN Resting("idle") ELSE round[g])
        /\ table'[g] = (IF g = h THEN NoTable ELSE table[g])
        /\ up'[g] = (IF g = h THEN FALSE ELSE up[g]) /\ down' = down
    BY DEF Crash, GInv, TypeOK
  <2>4. Announced(g)'
    BY <1>1, <2>1, <2>2, <2>3 DEF Announced
  <2>5. DownCounted(g)'
    BY <1>1, <2>1, <2>3 DEF DownCounted
  <2>6. ASSUME NEW a \in Addr, table'[g][a] # None
        PROVE  (~up'[HostOf[a]] => table'[g][a].age >= down'[HostOf[a]])
               /\ table'[g][a].epoch <= best'[a]
    <3>1. table'[g] = table[g] /\ table[g][a].age \in 0..Never
      BY <2>3, <2>6, EntryFields DEF NoTable, GInv, TypeOK
    <3>2. CASE HostOf[a] = h
      <4>1. down[h] = 0
        BY DEF GInv, DownCounted, Crash
      <4> QED
        BY <2>1, <2>3, <2>6, <3>1, <3>2, <4>1 DEF Sound
    <3>3. CASE HostOf[a] # h
      <4>1. up'[HostOf[a]] = up[HostOf[a]]
        BY <3>3, GossipAssumption DEF Crash, GInv, TypeOK
      <4> QED
        BY <2>1, <2>3, <2>6, <3>1, <4>1 DEF Sound
    <3> QED
      BY <3>2, <3>3
  <2> QED
    BY <2>4, <2>5, <2>6 DEF Sound
<1> QED
  BY <1>2, <1>3 DEF GInv

(* A process is started again. *)
LEMMA RestartKeeps ==
    ASSUME GInv, NEW h \in Node, NEW a \in Addr, Restart(h, a)
    PROVE  GInv'
<1>1. 0 \in 0..Never
  BY GossipAssumption DEF Never
<1>2. TypeOK'
  BY <1>1 DEF GInv, TypeOK, Restart
<1>3. ASSUME NEW g \in Node PROVE Announced(g)' /\ DownCounted(g)' /\ Sound(table[g])'
  <2>1. Announced(g) /\ DownCounted(g) /\ Sound(table[g])
    BY DEF GInv
  <2>2. /\ id'[g] = (IF g = h THEN a ELSE id[g]) /\ up'[g] = (IF g = h THEN TRUE ELSE up[g])
        /\ down'[g] = (IF g = h THEN 0 ELSE down[g])
        /\ UNCHANGED <<epoch, best, table, round>>
    BY DEF Restart, GInv, TypeOK
  <2>3. best[a] \in Nat
    BY EpochsNat DEF GInv, TypeOK
  <2>4. Announced(g)'
    <3>1. CASE g = h
      BY <2>1, <2>2, <2>3, <3>1 DEF Announced, DownCounted, Restart
    <3>2. CASE g # h
      BY <2>1, <2>2, <3>2 DEF Announced
    <3> QED
      BY <3>1, <3>2
  <2>5. DownCounted(g)'
    BY <2>1, <2>2 DEF DownCounted
  <2>6. ASSUME NEW b \in Addr, table[g][b] # None, ~up'[HostOf[b]]
        PROVE  table[g][b].age >= down'[HostOf[b]]
    <3>1. HostOf[b] # h /\ HostOf[b] \in Node
      BY <2>6, GossipAssumption DEF Restart, GInv, TypeOK
    <3>2. up'[HostOf[b]] = up[HostOf[b]] /\ down'[HostOf[b]] = down[HostOf[b]]
      BY <3>1 DEF Restart, GInv, TypeOK
    <3> QED
      BY <2>1, <2>6, <3>2 DEF Sound
  <2> QED
    BY <2>1, <2>2, <2>4, <2>5, <2>6 DEF Sound
<1> QED
  BY <1>2, <1>3 DEF GInv

(* Growing older keeps the order of ages. *)
LEMMA OlderMonotone ==
    ASSUME NEW n \in 0..Never, NEW k \in 0..Never
    PROVE  Older(n) \in 0..Never /\ (n >= k => Older(n) >= Older(k))
  BY GossipAssumption DEF Older, Never

(* A period passes. *)
LEMMA TickKeeps ==
    ASSUME GInv, Tick
    PROVE  GInv'
<1>1. Resting("idle") \in Rounds /\ Resting("idle").epoch = 0 /\ 0 \in 0..Never
  BY GossipAssumption DEF Resting, Rounds, Epoch0, Master0, Never
<1>2. ASSUME NEW g \in Node, NEW a \in Addr, table[g][a] # None
      PROVE  /\ table'[g][a] \in Entry
             /\ table'[g][a].age = Older(table[g][a].age)
             /\ table'[g][a].epoch = table[g][a].epoch
             /\ table[g][a].age \in 0..Never
  <2>1. table[g][a] \in Entry /\ table[g][a].age \in 0..Never
    BY <1>2, EntryFields DEF GInv, TypeOK
  <2>2. table'[g][a] = [table[g][a] EXCEPT !.age = Older(table[g][a].age)]
    BY <1>2 DEF Tick
  <2>3. Older(table[g][a].age) \in 0..Never
    BY <2>1, OlderMonotone
  <2> QED
    BY <2>1, <2>2, <2>3 DEF Entry
<1>3. ASSUME NEW g \in Node, NEW a \in Addr, table[g][a] = None
      PROVE  table'[g][a] = None
  BY <1>3 DEF Tick
<1>4. table' \in [Node -> Tables]
  <2>1. \A g \in Node, a \in Addr : table'[g][a] \in Entry \cup {None}
    BY <1>2, <1>3
  <2>2. table' = [g \in Node |-> [a \in Addr |-> table'[g][a]]]
    BY DEF Tick
  <2> QED
    BY <2>1, <2>2 DEF Tables
<1>5. ASSUME NEW g \in Node
      PROVE  /\ down'[g] \in 0..Never
             /\ ~up[g] => down'[g] = Older(down[g]) /\ down[g] \in 0..Never
             /\ up[g] => down'[g] = 0
  BY <1>1, OlderMonotone DEF Tick, GInv, TypeOK
<1>6. TypeOK'
  <2>1. down' \in [Node -> 0..Never]
    BY <1>5 DEF Tick
  <2>2. round' \in [Node -> Rounds]
    BY <1>1 DEF Tick
  <2> QED
    BY <1>4, <2>1, <2>2 DEF Tick, GInv, TypeOK, shareVars
<1>7. ASSUME NEW g \in Node PROVE Announced(g)' /\ DownCounted(g)' /\ Sound(table[g])'
  <2>1. Announced(g) /\ DownCounted(g) /\ Sound(table[g])
    BY DEF GInv
  <2>2. UNCHANGED <<up, id, epoch, best>> /\ round'[g].epoch = 0 /\ best[id[g]] \in Nat
    BY <1>1, EpochsNat DEF Tick, shareVars, GInv, TypeOK
  <2>3. Announced(g)'
    BY <2>1, <2>2 DEF Announced
  <2>4. DownCounted(g)'
    BY <1>5, <2>1, <2>2 DEF DownCounted
  <2>5. ASSUME NEW a \in Addr, table'[g][a] # None
        PROVE  (~up[HostOf[a]] => table'[g][a].age >= down'[HostOf[a]])
               /\ table'[g][a].epoch <= best[a]
    <3>1. table[g][a] # None /\ HostOf[a] \in Node
      BY <1>3, <2>5, GossipAssumption
    <3>2. /\ table'[g][a].age = Older(table[g][a].age)
          /\ table'[g][a].epoch = table[g][a].epoch
          /\ table[g][a].age \in 0..Never
      BY <1>2, <3>1
    <3>3. ASSUME ~up[HostOf[a]] PROVE table'[g][a].age >= down'[HostOf[a]]
      <4>1. /\ down'[HostOf[a]] = Older(down[HostOf[a]])
            /\ down[HostOf[a]] \in 0..Never
        BY <1>5, <3>1, <3>3
      <4>2. table[g][a].age >= down[HostOf[a]]
        BY <2>1, <3>1, <3>3 DEF Sound
      <4> QED
        BY <3>2, <4>1, <4>2, OlderMonotone
    <3> QED
      BY <2>1, <3>1, <3>2, <3>3 DEF Sound
  <2> QED
    BY <2>2, <2>3, <2>4, <2>5 DEF Sound
<1> QED
  BY <1>6, <1>7 DEF GInv

(* The invariant is inductive. *)
LEMMA GInvStep == GInv /\ [Next]_vars => GInv'
<1> SUFFICES ASSUME GInv, [Next]_vars PROVE GInv'
  OBVIOUS
<1>1. ASSUME NEW h \in Node, Gossips(h) PROVE GInv'
  BY <1>1, BeginRoundKeeps, PushKeeps, PushFailsKeeps DEF Gossips
<1>2. ASSUME NEW h \in Node, Crash(h) PROVE GInv'
  BY <1>2, CrashKeeps
<1>3. ASSUME NEW h \in Node, NEW e \in Epochs, NEW m \in Master, Adopt(h, e, m) PROVE GInv'
  BY <1>3, AdoptKeeps
<1>4. ASSUME NEW h \in Node, NEW a \in Addr, Restart(h, a) PROVE GInv'
  BY <1>4, RestartKeeps
<1>5. CASE Tick
  BY <1>5, TickKeeps
<1>6. CASE UNCHANGED vars
  <2>1. TypeOK'
    BY <1>6 DEF GInv, TypeOK, vars
  <2> QED
    BY <1>6, <2>1 DEF GInv, vars, Announced, DownCounted, Sound
<1> QED
  BY <1>1, <1>2, <1>3, <1>4, <1>5, <1>6 DEF Next

(* The invariant holds in every reachable state. *)
LEMMA GInvAlways == Spec => []GInv
  BY GInvInit, GInvStep, PTL DEF Spec

----------------------------------------------------------------------------
(* Theorems *)

(* The peer tables and rounds of gossip keep their types. *)
THEOREM GossipTypeCorrect == Spec => []TypeOK
<1>1. GInv => TypeOK
  BY DEF GInv
<1> QED
  BY <1>1, GInvAlways, PTL

(* A host that is down for longer than PEER_LIVENESS_WINDOW_SECS is live in
   nobody's table, for any committee, seeds and window. *)
THEOREM DeadAlwaysExpires == Spec => []DeadExpires
<1>1. GInv => DeadExpires
  <2> SUFFICES ASSUME GInv, NEW h \in Node, NEW a \in Addr,
                      ~up[HostOf[a]], down[HostOf[a]] > Window, table[h][a] # None
               PROVE  ~(table[h][a].age <= Window)
    BY DEF DeadExpires, IsLive
  <2>1. table[h][a].age \in 0..Never /\ down[HostOf[a]] \in 0..Never
    BY EntryFields, GossipAssumption DEF GInv, TypeOK
  <2>2. table[h][a].age >= down[HostOf[a]]
    BY DEF GInv, Sound
  <2> QED
    BY <2>1, <2>2, GossipAssumption DEF Never
<1> QED
  BY <1>1, GInvAlways, PTL

(* No entry of a peer table has an epoch that its identity never held. *)
THEOREM EpochsAlwaysHeld == Spec => []EpochsHeld
<1>1. GInv => EpochsHeld
  BY DEF GInv, Sound, EpochsHeld
<1> QED
  BY <1>1, GInvAlways, PTL
============================================================================
