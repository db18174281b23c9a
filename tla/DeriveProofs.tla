---------------------------- MODULE DeriveProofs ----------------------------
(***************************************************************************)
(* Proofs about Derive for any committee, threshold and urls: what is      *)
(* combined comes from one polynomial unless the cluster has split, and    *)
(* enough healthy nodes always give an answer.                             *)
(***************************************************************************)
EXTENDS Derive, FiniteSetTheorems, TLAPS

(* The nodes whose partials are in the bucket of epoch e. *)
Idx(e) == {bucket[e][i].idx : i \in DOMAIN bucket[e]}

(* The bucket of e has one partial of each of its nodes, all of them counted
   as heard from, and it has every healthy node that was heard from. *)
Counted(e) ==
    /\ IsFiniteSet(Idx(e)) /\ Cardinality(Idx(e)) = Len(bucket[e])
    /\ Idx(e) \subseteq seen[e]
    /\ seen[e] \cap healthy \subseteq Idx(e)

(* An answer is of the node it came from, a healthy one's is usable, and a
   healthy node whose call is over has been heard from. *)
Answered(u) ==
    /\ call[u] = "answered" => /\ reply[u] # None
                               /\ reply[u].partial.idx = NodeAt[u]
                               /\ NodeAt[u] \in healthy => reply[u].ok
    /\ ready = None /\ call[u] = "over" /\ NodeAt[u] \in healthy
          => \E e \in Epoch : NodeAt[u] \in seen[e]

(* Where the derivation stands. *)
Phase ==
    /\ ~started => /\ ready = None /\ result = "none"
                   /\ \A e \in Epoch : bucket[e] = <<>> /\ seen[e] = {}
                   /\ \A u \in Url : call[u] = "unsent"
    /\ started /\ result # "not_ready" => \E e \in Epoch : Self \in seen[e]
    /\ ready = None => \A e \in Epoch : Len(bucket[e]) < Threshold
    /\ ready # None => Len(bucket[ready]) >= Threshold
    /\ result = "short" => started /\ ready = None /\ \A u \in Url : call[u] = "over"

(* The healthy nodes hold shares; once the calls are out, so does Self. *)
PeersHold ==
    /\ \A n \in healthy \ {Self} : shard[n] # None
    /\ started /\ result # "not_ready" =>
          shard[Self] # None /\ \A u \in Url : call[u] # "unsent"

DInv ==
    /\ TypeOK
    /\ \A e \in Epoch : Counted(e)
    /\ \A u \in Url : Answered(u)
    /\ Phase

----------------------------------------------------------------------------
(* Nothing is collected yet. *)
LEMMA DInvInit == Init => DInv
<1> SUFFICES ASSUME Init PROVE DInv
  BY Zenon
<1>1. TypeOK
  <2>1. <<>> \in Seq(Partial)
    OBVIOUS
  <2> QED
    BY <2>1, Zenon DEF Init, TypeOK
<1>2. ASSUME NEW e \in Epoch PROVE Counted(e)
  <2>1. bucket[e] = <<>> /\ seen[e] = {}
    BY Zenon DEF Init
  <2>2. Idx(e) = {} /\ Len(bucket[e]) = 0
    BY <2>1 DEF Idx
  <2> QED
    BY <2>1, <2>2, FS_EmptySet, Zenon DEF Counted
<1>3. ASSUME NEW u \in Url PROVE Answered(u)
  BY Zenon DEF Init, Answered
<1>4. Phase
  BY DeriveAssumption DEF Init, Phase
<1> QED
  BY <1>1, <1>2, <1>3, <1>4, Zenon DEF DInv

(* A partial of an epoch belongs to a node with a share. *)
LEMMA PartialType ==
    ASSUME TypeOK, NEW n \in Node, shard[n] # None
    PROVE  PartialOf(n) \in Partial
<1>1. shard[n] \in Epoch /\ branch[n] \in Branch
  BY Zenon DEF TypeOK
<1> QED
  BY <1>1, Zenon DEF PartialOf, Partial

(* Appending a partial adds its node to the nodes of a bucket. *)
LEMMA AppendIndices ==
    ASSUME NEW b \in Seq(Partial), NEW p \in Partial
    PROVE  LET c == Append(b, p) IN
           /\ c \in Seq(Partial) /\ Len(b) \in Nat /\ Len(c) = Len(b) + 1
           /\ {c[i].idx : i \in DOMAIN c} = {b[i].idx : i \in DOMAIN b} \cup {p.idx}
<1> DEFINE c == Append(b, p)
           I == {b[i].idx : i \in DOMAIN b}
           J == {c[i].idx : i \in DOMAIN c}
<1>1. /\ c \in Seq(Partial) /\ Len(c) = Len(b) + 1
      /\ Len(b) \in Nat
      /\ DOMAIN b = 1..Len(b) /\ DOMAIN c = 1..(Len(b) + 1)
      /\ c[Len(b) + 1] = p
      /\ \A i \in 1..Len(b) : c[i] = b[i]
  OBVIOUS
<1> HIDE DEF c
<1>2. DOMAIN c = DOMAIN b \cup {Len(b) + 1} /\ \A i \in DOMAIN b : c[i] = b[i]
  BY <1>1
<1>3. J = I \cup {p.idx}
  <2>1. ASSUME NEW i \in DOMAIN c PROVE c[i].idx \in I \cup {p.idx}
    <3>1. CASE i \in DOMAIN b
      BY <1>2, <3>1, Zenon
    <3>2. CASE i = Len(b) + 1
      BY <1>1, <3>2, Zenon
    <3> QED
      BY <1>2, <3>1, <3>2, Zenon
  <2>2. ASSUME NEW i \in DOMAIN b PROVE b[i].idx \in J
    <3>1. i \in DOMAIN c /\ c[i].idx = b[i].idx
      BY <1>2, Zenon
    <3> QED
      BY <3>1, Zenon
  <2>3. p.idx \in J
    <3>1. Len(b) + 1 \in DOMAIN c /\ c[Len(b) + 1].idx = p.idx
      BY <1>1, <1>2, Zenon
    <3> QED
      BY <3>1, Zenon
  <2> QED
    BY <2>1, <2>2, <2>3, Zenon
<1> QED
  BY <1>1, <1>3, Zenon DEF c

(* A partial of a node that is not in a bucket yet adds one to its count. *)
LEMMA OneMore ==
    ASSUME NEW S, NEW x, IsFiniteSet(S), x \notin S
    PROVE  IsFiniteSet(S \cup {x}) /\ Cardinality(S \cup {x}) = Cardinality(S) + 1
  BY FS_AddElement, Zenon

(* Steps that collect nothing leave the counts as they are. *)
LEMMA CountedKept ==
    ASSUME NEW e \in Epoch, Counted(e), UNCHANGED <<bucket, seen, healthy>>
    PROVE  Counted(e)'
  BY Zenon DEF Counted, Idx

----------------------------------------------------------------------------
(* The steps *)

(* Self adds its own partial. *)
LEMMA BeginKeeps ==
    ASSUME DInv, Begin
    PROVE  DInv'
<1> DEFINE p == PartialOf(Self)
           f == shard[Self]
<1>1. Self \in Node /\ f \in Epoch /\ p \in Partial /\ p.idx = Self
  <2>1. Self \in Node
    BY DeriveAssumption, Zenon DEF DInv, TypeOK
  <2> QED
    BY <2>1, PartialType, Zenon DEF DInv, TypeOK, Begin, PartialOf
<1>2. <<p>> \in Seq(Partial) /\ Len(<<p>>) = 1 /\ DOMAIN <<p>> = {1} /\ <<p>>[1] = p
  BY <1>1
<1>3. /\ ready = None /\ result = "none" /\ result' = "none" /\ started'
      /\ UNCHANGED <<shard, branch, healthy, reply>>
      /\ \A u \in Url : call'[u] = "sent"
      /\ \A e \in Epoch : bucket[e] = <<>> /\ seen[e] = {}
  BY Zenon DEF DInv, Phase, Begin, fixed
<1>4. /\ bucket' = [bucket EXCEPT ![f] = <<p>>]
      /\ seen' = [seen EXCEPT ![f] = {Self}]
      /\ ready' = (IF Len(<<p>>) >= Threshold THEN f ELSE None)
  BY Zenon DEF Begin, Enough
<1> HIDE DEF p, f
<1>5. ASSUME NEW e \in Epoch
      PROVE  /\ bucket'[e] = (IF e = f THEN <<p>> ELSE <<>>)
             /\ seen'[e] = (IF e = f THEN {Self} ELSE {})
  BY <1>3, <1>4, Zenon DEF DInv, TypeOK
<1>6. TypeOK'
  <2>1. bucket' \in [Epoch -> Seq(Partial)] /\ seen' \in [Epoch -> SUBSET Node]
    BY <1>1, <1>2, <1>4, Zenon DEF DInv, TypeOK
  <2>2. ready' \in Epoch \cup {None}
    BY <1>1, <1>4, Zenon
  <2>3. call' \in [Url -> {"unsent", "sent", "answered", "over"}]
    BY Zenon DEF Begin
  <2> QED
    BY <1>3, <2>1, <2>2, <2>3, Zenon DEF DInv, TypeOK
<1>7. ASSUME NEW e \in Epoch PROVE Counted(e)'
  <2>1. CASE e = f
    <3>1. Idx(e)' = {Self}
      BY <1>1, <1>2, <1>5, <2>1 DEF Idx
    <3> QED
      BY <1>2, <1>5, <2>1, <3>1, FS_Singleton, Zenon DEF Counted
  <2>2. CASE e # f
    <3>1. bucket'[e] = <<>> /\ seen'[e] = {}
      BY <1>5, <2>2, Zenon
    <3>2. Idx(e)' = {} /\ Len(bucket'[e]) = 0
      BY <3>1 DEF Idx
    <3> QED
      BY <3>1, <3>2, FS_EmptySet, Zenon DEF Counted
  <2> QED
    BY <2>1, <2>2, Zenon
<1>8. ASSUME NEW u \in Url PROVE Answered(u)'
  BY <1>3, Zenon DEF Answered
<1>9. Phase'
  <2>1. Self \in seen'[f]
    BY <1>1, <1>5, Zenon
  <2>2. ready' = None => \A e \in Epoch : Len(bucket'[e]) < Threshold
    <3>1. ASSUME ready' = None, NEW e \in Epoch PROVE Len(bucket'[e]) < Threshold
      <4>1. Len(<<p>>) < Threshold
        BY <1>1, <1>2, <1>4, <3>1, NoneAssumption, DeriveAssumption
      <4>2. Len(<<>>) < Threshold
        BY DeriveAssumption
      <4> QED
        BY <1>5, <4>1, <4>2, Zenon
    <3> QED
      BY <3>1, Zenon
  <2>3. ready' # None => Len(bucket'[ready']) >= Threshold
    BY <1>1, <1>4, <1>5, Zenon
  <2> QED
    BY <1>1, <1>3, <2>1, <2>2, <2>3, Zenon DEF Phase
<1> QED
  BY <1>6, <1>7, <1>8, <1>9, Zenon DEF DInv

(* Self has no share. *)
LEMMA BeginNoShareKeeps ==
    ASSUME DInv, BeginNoShare
    PROVE  DInv'
<1>1. /\ UNCHANGED <<shard, branch, healthy, call, reply, bucket, seen, ready>>
      /\ started' = TRUE /\ result' = "not_ready" /\ ready = None
  BY Zenon DEF BeginNoShare, fixed, DInv, Phase
<1>2. TypeOK'
  BY <1>1, Zenon DEF DInv, TypeOK
<1>3. \A e \in Epoch : Counted(e)'
  BY <1>1, CountedKept, Zenon DEF DInv
<1>4. \A u \in Url : Answered(u)'
  BY <1>1, Zenon DEF DInv, Answered
<1>5. Phase'
  BY <1>1, Zenon DEF DInv, Phase
<1> QED
  BY <1>2, <1>3, <1>4, <1>5, Zenon DEF DInv

(* While collecting, steps that neither collect nor end the derivation. *)
LEMMA PhaseKept ==
    ASSUME Phase, Collecting, UNCHANGED <<bucket, seen, started, ready, result>>
    PROVE  Phase'
  BY Zenon DEF Phase, Collecting

(* A node answers. *)
LEMMA ServeKeeps ==
    ASSUME DInv, NEW u \in Url, Serve(u)
    PROVE  DInv'
<1>1. PICK ok \in BOOLEAN :
         /\ NodeAt[u] \in healthy => ok
         /\ reply' = [reply EXCEPT ![u] = [partial |-> PartialOf(NodeAt[u]), ok |-> ok]]
  BY Zenon DEF Serve
<1>2. /\ UNCHANGED <<shard, branch, healthy, bucket, seen, started, ready, result>>
      /\ call' = [call EXCEPT ![u] = "answered"] /\ Collecting
  BY Zenon DEF Serve, fixed
<1> DEFINE p == PartialOf(NodeAt[u])
           r == [partial |-> p, ok |-> ok]
<1>3. NodeAt[u] \in Node /\ shard[NodeAt[u]] # None
  BY DeriveAssumption, Zenon DEF Serve
<1>4. p \in Partial /\ p.idx = NodeAt[u]
  BY <1>3, PartialType, Zenon DEF DInv, PartialOf
<1> HIDE DEF p
<1>5. r \in Reply /\ r # None /\ r.partial = p /\ r.ok = ok
  BY <1>4, NoneAssumption DEF Reply
<1>6. reply' = [reply EXCEPT ![u] = r]
  BY <1>1, Zenon DEF p
<1> HIDE DEF r
<1>7. TypeOK'
  BY <1>2, <1>5, <1>6, Zenon DEF DInv, TypeOK
<1>8. \A e \in Epoch : Counted(e)'
  BY <1>2, CountedKept, Zenon DEF DInv
<1>9. ASSUME NEW v \in Url PROVE Answered(v)'
  <2>1. CASE v = u
    <3>1. reply'[v] = r /\ call'[v] = "answered"
      BY <1>2, <1>6, <2>1, Zenon DEF DInv, TypeOK
    <3> QED
      BY <1>1, <1>2, <1>4, <1>5, <2>1, <3>1, Zenon DEF Answered
  <2>2. CASE v # u
    <3>1. reply'[v] = reply[v] /\ call'[v] = call[v]
      BY <1>2, <1>6, <2>2, Zenon DEF DInv, TypeOK
    <3> QED
      BY <1>2, <3>1, Zenon DEF DInv, Answered
  <2> QED
    BY <2>1, <2>2, Zenon
<1>10. Phase'
  BY <1>2, PhaseKept, Zenon DEF DInv
<1> QED
  BY <1>7, <1>8, <1>9, <1>10, Zenon DEF DInv

(* A call fails. *)
LEMMA CallFailsKeeps ==
    ASSUME DInv, PeersHold, NEW u \in Url, CallFails(u)
    PROVE  DInv'
<1>1. /\ UNCHANGED <<shard, branch, healthy, reply, bucket, seen, started, ready, result>>
      /\ call' = [call EXCEPT ![u] = "over"] /\ Collecting
      /\ NodeAt[u] \notin healthy \/ shard[NodeAt[u]] = None
  BY Zenon DEF CallFails, fixed
<1>6. NodeAt[u] \notin healthy
  BY <1>1, Zenon DEF Collecting, PeersHold
<1>2. TypeOK'
  BY <1>1, Zenon DEF DInv, TypeOK
<1>3. \A e \in Epoch : Counted(e)'
  BY <1>1, CountedKept, Zenon DEF DInv
<1>4. ASSUME NEW v \in Url PROVE Answered(v)'
  <2>1. call'[v] = (IF v = u THEN "over" ELSE call[v])
    BY <1>1, Zenon DEF DInv, TypeOK
  <2> QED
    BY <1>1, <1>6, <2>1 DEF DInv, Answered
<1>5. Phase'
  BY <1>1, PhaseKept, Zenon DEF DInv
<1> QED
  BY <1>2, <1>3, <1>4, <1>5, Zenon DEF DInv

(* An answer is taken out of peer_futures. *)
LEMMA CollectKeeps ==
    ASSUME DInv, NEW u \in Url, Collect(u)
    PROVE  DInv'
<1> DEFINE p == reply[u].partial
           g == p.epoch
           b == Append(bucket[g], p)
           take == IsNew(p) /\ reply[u].ok
<1>1. /\ p \in Partial /\ g \in Epoch /\ p.idx = NodeAt[u] /\ p.idx \in Node
      /\ NodeAt[u] \in healthy => reply[u].ok
  <2>1. reply[u] \in Reply /\ Answered(u) /\ call[u] = "answered"
    BY Zenon DEF DInv, TypeOK, Answered, Collect
  <2>2. p \in Partial
    BY <2>1, Zenon DEF Reply
  <2> QED
    BY <2>1, <2>2, Zenon DEF Partial, Answered
<1>2. /\ UNCHANGED <<shard, branch, healthy, started, result>>
      /\ Collecting /\ ready = None /\ started /\ result = "none"
  BY Zenon DEF Collect, fixed, Collecting
<1>3. /\ seen' = [seen EXCEPT ![g] = @ \cup {p.idx}]
      /\ take => /\ bucket' = [bucket EXCEPT ![g] = b]
                 /\ ready' = IF Len(b) >= Threshold THEN g ELSE None
      /\ ~take => UNCHANGED <<bucket, ready>>
  BY Zenon DEF Collect, Enough
<1>4. /\ call' = [v \in Url |-> IF v \in (IF ready' = None THEN {u} ELSE Url)
                                THEN "over" ELSE call[v]]
      /\ reply' = [v \in Url |-> IF v \in (IF ready' = None THEN {u} ELSE Url)
                                 THEN None ELSE reply[v]]
  BY Zenon DEF Collect, EndCalls
<1>5. take <=> p.idx \notin seen[g] /\ reply[u].ok
  BY Zenon DEF IsNew
<1> HIDE DEF p, g, take
<1>6. /\ b \in Seq(Partial) /\ Len(bucket[g]) \in Nat /\ Len(b) = Len(bucket[g]) + 1
      /\ {b[i].idx : i \in DOMAIN b} = Idx(g) \cup {p.idx}
  <2>1. bucket[g] \in Seq(Partial)
    BY <1>1, Zenon DEF DInv, TypeOK
  <2> QED
    BY <1>1, <2>1, AppendIndices, Zenon DEF Idx
<1> HIDE DEF b
<1>7. ready' \in Epoch \cup {None} /\ (ready' # None => take /\ ready' = g /\ Len(b) >= Threshold)
  BY <1>1, <1>2, <1>3, Zenon
<1>8. TypeOK'
  <2>1. seen' \in [Epoch -> SUBSET Node]
    BY <1>1, <1>3, Zenon DEF DInv, TypeOK
  <2>2. bucket' \in [Epoch -> Seq(Partial)]
    BY <1>1, <1>3, <1>6, Zenon DEF DInv, TypeOK
  <2>3. call' \in [Url -> {"unsent", "sent", "answered", "over"}]
    BY <1>4, Zenon DEF DInv, TypeOK
  <2>4. reply' \in [Url -> Reply \cup {None}]
    BY <1>4, Zenon DEF DInv, TypeOK
  <2> QED
    BY <1>2, <1>7, <2>1, <2>2, <2>3, <2>4, Zenon DEF DInv, TypeOK
<1>9. ASSUME NEW e \in Epoch
      PROVE  /\ seen'[e] = (IF e = g THEN seen[e] \cup {p.idx} ELSE seen[e])
             /\ bucket'[e] = (IF e = g /\ take THEN b ELSE bucket[e])
  BY <1>3, Zenon DEF DInv, TypeOK
<1>10. ASSUME NEW e \in Epoch PROVE Counted(e)'
  <2>1. Counted(e)
    BY Zenon DEF DInv
  <2>2. CASE e # g
    <3>1. Idx(e)' = Idx(e) /\ bucket'[e] = bucket[e] /\ seen'[e] = seen[e]
      BY <1>9, <2>2, Zenon DEF Idx
    <3> QED
      BY <1>2, <2>1, <3>1, Zenon DEF Counted
  <2>3. CASE e = g /\ ~take
    <3>1. Idx(e)' = Idx(e) /\ bucket'[e] = bucket[e]
      BY <1>9, <2>3, Zenon DEF Idx
    <3>2. p.idx \in healthy => p.idx \in seen[g]
      BY <1>1, <1>5, <2>3, Zenon
    <3> QED
      BY <1>2, <1>9, <2>1, <2>3, <3>1, <3>2, Zenon DEF Counted
  <2>4. CASE e = g /\ take
    <3>1. bucket'[e] = b /\ seen'[e] = seen[e] \cup {p.idx}
      BY <1>9, <2>4, Zenon
    <3>2. Idx(e)' = Idx(e) \cup {p.idx}
      <4>1. Idx(e)' = {b[i].idx : i \in DOMAIN b}
        BY <3>1, Zenon DEF Idx
      <4> QED
        BY <1>6, <2>4, <4>1, Zenon
    <3>3. p.idx \notin Idx(e)
      BY <1>5, <2>1, <2>4, Zenon DEF Counted
    <3>4. IsFiniteSet(Idx(e)') /\ Cardinality(Idx(e)') = Cardinality(Idx(e)) + 1
      <4>1. IsFiniteSet(Idx(e))
        BY <2>1, Zenon DEF Counted
      <4> QED
        BY <3>2, <3>3, <4>1, OneMore, Zenon
    <3>5. Cardinality(Idx(e)') = Len(bucket'[e])
      BY <1>6, <2>1, <2>4, <3>1, <3>4, Zenon DEF Counted
    <3> QED
      BY <1>2, <2>1, <3>1, <3>2, <3>4, <3>5, Zenon DEF Counted
  <2> QED
    BY <2>2, <2>3, <2>4, Zenon
<1>11. ASSUME NEW v \in Url PROVE Answered(v)'
  <2>1. CASE v = u \/ ready' # None
    <3>1. call'[v] = "over"
      BY <1>4, <2>1, Zenon
    <3>2. CASE ready' # None
      BY <3>1, <3>2, Zenon DEF Answered
    <3>3. CASE v = u
      <4>1. NodeAt[v] \in seen'[g]
        BY <1>1, <1>9, <3>3, Zenon
      <4> QED
        BY <1>1, <3>1, <4>1, Zenon DEF Answered
    <3> QED
      BY <2>1, <3>2, <3>3, Zenon
  <2>2. CASE v # u /\ ready' = None
    <3>1. call'[v] = call[v] /\ reply'[v] = reply[v]
      BY <1>4, <2>2, Zenon
    <3>2. \A e \in Epoch : seen[e] \subseteq seen'[e]
      BY <1>9, Zenon
    <3> QED
      BY <1>2, <3>1, <3>2 DEF DInv, Answered
  <2> QED
    BY <2>1, <2>2, Zenon
<1>12. Phase'
  <2>1. \E e \in Epoch : Self \in seen'[e]
    BY <1>2, <1>9, Zenon DEF DInv, Phase
  <2>2. ASSUME ready' = None, NEW e \in Epoch PROVE Len(bucket'[e]) < Threshold
    <3>1. Len(bucket[e]) < Threshold
      BY <1>2, Zenon DEF DInv, Phase
    <3>2. take => Len(b) < Threshold
      BY <1>1, <1>3, <1>6, <2>2, NoneAssumption, DeriveAssumption
    <3> QED
      BY <1>9, <3>1, <3>2, Zenon
  <2>3. ready' # None => Len(bucket'[ready']) >= Threshold
    BY <1>1, <1>7, <1>9, Zenon
  <2> QED
    BY <1>2, <2>1, <2>2, <2>3, Zenon DEF Phase
<1> QED
  BY <1>8, <1>10, <1>11, <1>12, Zenon DEF DInv

(* peer_futures is exhausted. *)
LEMMA ShortKeeps ==
    ASSUME DInv, Short
    PROVE  DInv'
<1>1. /\ UNCHANGED <<shard, branch, healthy, call, reply, bucket, seen, started, ready>>
      /\ result' = "short" /\ started /\ ready = None /\ \A u \in Url : call[u] = "over"
      /\ result = "none"
  BY Zenon DEF Short, fixed, Collecting
<1>2. TypeOK'
  BY <1>1, Zenon DEF DInv, TypeOK
<1>3. \A e \in Epoch : Counted(e)'
  BY <1>1, CountedKept, Zenon DEF DInv
<1>4. \A u \in Url : Answered(u)'
  BY <1>1, Zenon DEF DInv, Answered
<1>5. Phase'
  BY <1>1, Zenon DEF DInv, Phase
<1> QED
  BY <1>2, <1>3, <1>4, <1>5, Zenon DEF DInv

(* The partials are combined. *)
LEMMA CombineKeeps ==
    ASSUME DInv, Combine
    PROVE  DInv'
<1>1. /\ UNCHANGED <<shard, branch, healthy, call, reply, bucket, seen, started, ready>>
      /\ result' \in {"key", "rejected"} /\ ready # None /\ result = "none"
  BY Zenon DEF Combine, fixed
<1>2. TypeOK'
  BY <1>1, Zenon DEF DInv, TypeOK
<1>3. \A e \in Epoch : Counted(e)'
  BY <1>1, CountedKept, Zenon DEF DInv
<1>4. \A u \in Url : Answered(u)'
  BY <1>1, Zenon DEF DInv, Answered
<1>5. Phase'
  BY <1>1, Zenon DEF DInv, Phase
<1> QED
  BY <1>2, <1>3, <1>4, <1>5, Zenon DEF DInv

(* A reshare stores a share of some epoch. *)
LEMMA StoreShareKeeps ==
    ASSUME DInv, NEW n \in Node, NEW e \in Epoch, StoreShare(n, e)
    PROVE  DInv'
<1>1. /\ UNCHANGED <<branch, healthy, call, reply, bucket, seen, started, ready, result>>
      /\ Collecting
  BY Zenon DEF StoreShare, fixed
<1>2. TypeOK'
  <2>1. shard' \in [Node -> Epoch \cup {None}]
    BY Zenon DEF DInv, TypeOK, StoreShare
  <2> QED
    BY <1>1, <2>1, Zenon DEF DInv, TypeOK
<1>3. \A d \in Epoch : Counted(d)'
  BY <1>1, CountedKept, Zenon DEF DInv
<1>4. \A u \in Url : Answered(u)'
  BY <1>1, Zenon DEF DInv, Answered
<1>5. Phase'
  BY <1>1, PhaseKept, Zenon DEF DInv
<1> QED
  BY <1>2, <1>3, <1>4, <1>5, Zenon DEF DInv

(* The invariant is inductive. *)
LEMMA DInvStep == DInv /\ PeersHold /\ [Next]_vars => DInv'
<1> SUFFICES ASSUME DInv, PeersHold, [Next]_vars PROVE DInv'
  BY Zenon
<1>1. CASE Begin
  BY <1>1, BeginKeeps, Zenon
<1>2. CASE BeginNoShare
  BY <1>2, BeginNoShareKeeps, Zenon
<1>3. ASSUME NEW u \in Url, Serve(u) \/ CallFails(u) \/ Collect(u) PROVE DInv'
  BY <1>3, ServeKeeps, CallFailsKeeps, CollectKeeps, Zenon
<1>4. CASE Short
  BY <1>4, ShortKeeps, Zenon
<1>5. CASE Combine
  BY <1>5, CombineKeeps, Zenon
<1>6. ASSUME NEW n \in Node, NEW e \in Epoch, StoreShare(n, e) PROVE DInv'
  BY <1>6, StoreShareKeeps, Zenon
<1>7. CASE UNCHANGED vars
  <2>1. UNCHANGED <<shard, branch, healthy, call, reply, bucket, seen, started, ready, result>>
    BY <1>7, Zenon DEF vars, fixed
  <2>2. TypeOK'
    BY <2>1, Zenon DEF DInv, TypeOK
  <2>3. \A e \in Epoch : Counted(e)'
    BY <2>1, CountedKept, Zenon DEF DInv
  <2>4. \A u \in Url : Answered(u)'
    BY <2>1, Zenon DEF DInv, Answered
  <2>5. Phase'
    BY <2>1, Zenon DEF DInv, Phase
  <2> QED
    BY <2>2, <2>3, <2>4, <2>5, Zenon DEF DInv
<1> QED
  BY <1>1, <1>2, <1>3, <1>4, <1>5, <1>6, <1>7, Zenon DEF Next, Derivation

----------------------------------------------------------------------------
(* A rejected combination *)

(* A partial is on the branch of the node that made it, which no node leaves
   during a derivation, and it is collected under its own epoch. *)
PartialsHonest ==
    /\ \A u \in Url : reply[u] # None =>
          reply[u].partial.branch = branch[reply[u].partial.idx]
    /\ \A e \in Epoch : \A i \in DOMAIN bucket[e] :
          bucket[e][i].epoch = e /\ bucket[e][i].branch = branch[bucket[e][i].idx]

(* Only a value that does not verify is rejected. *)
RejectedUnverified == result = "rejected" => ready # None /\ ~Verifies

RInv == DInv /\ PartialsHonest /\ RejectedUnverified /\ PeersHold

(* RInv holds before the derivation begins. *)
LEMMA RInvInit == Init => RInv
<1> SUFFICES ASSUME Init PROVE RInv
  BY Zenon
<1>1. PartialsHonest
  <2>1. \A e \in Epoch : DOMAIN bucket[e] = {}
    BY DEF Init
  <2> QED
    BY <2>1, Zenon DEF Init, PartialsHonest
<1>2. RejectedUnverified /\ PeersHold
  BY Zenon DEF Init, RejectedUnverified, PeersHold
<1> QED
  BY <1>1, <1>2, DInvInit, Zenon DEF RInv

(* A partial that is served is on the branch of its node, and what is in
   peer_futures or in a bucket stays as it is. *)
LEMMA HonestStep ==
    ASSUME DInv, PartialsHonest, Next
    PROVE  PartialsHonest'
<1>0. TypeOK /\ branch' = branch
  BY Zenon DEF DInv, Next, Derivation, Begin, BeginNoShare, Serve, CallFails, Collect, Short,
     Combine, StoreShare, fixed
<1>1. CASE UNCHANGED <<reply, bucket>>
  BY <1>0, <1>1, Zenon DEF PartialsHonest
<1>2. CASE Begin
  <2>1. Self \in Node /\ shard[Self] \in Epoch
    BY <1>0, <1>2, DeriveAssumption, Zenon DEF TypeOK, Begin
  <2>2. reply' = reply /\ bucket' = [bucket EXCEPT ![shard[Self]] = <<PartialOf(Self)>>]
    BY <1>2, Zenon DEF Begin
  <2>3. \A e \in Epoch : \/ bucket'[e] = bucket[e]
                         \/ e = shard[Self] /\ bucket'[e] = <<PartialOf(Self)>>
    BY <1>0, <2>2, Zenon DEF TypeOK
  <2>4. ASSUME NEW e \in Epoch, NEW i \in DOMAIN bucket'[e]
        PROVE  bucket'[e][i].epoch = e /\ bucket'[e][i].branch = branch[bucket'[e][i].idx]
    <3>1. CASE bucket'[e] = bucket[e]
      BY <2>4, <3>1 DEF PartialsHonest
    <3>2. CASE e = shard[Self] /\ bucket'[e] = <<PartialOf(Self)>>
      <4>1. bucket'[e][i] = PartialOf(Self)
        BY <2>4, <3>2
      <4> QED
        BY <3>2, <4>1 DEF PartialOf
    <3> QED
      BY <2>3, <3>1, <3>2, Zenon
  <2> QED
    BY <1>0, <2>2, <2>4 DEF PartialsHonest
<1>3. ASSUME NEW u \in Url, Serve(u)
      PROVE  PartialsHonest'
  <2>1. PICK ok \in BOOLEAN :
           reply' = [reply EXCEPT ![u] = [partial |-> PartialOf(NodeAt[u]), ok |-> ok]]
    BY <1>3, Zenon DEF Serve
  <2>2. /\ bucket' = bucket
        /\ \A v \in Url : \/ reply'[v] = reply[v]
                          \/ reply'[v].partial = PartialOf(NodeAt[u])
    BY <1>0, <1>3, <2>1, Zenon DEF Serve, TypeOK
  <2>3. PartialOf(NodeAt[u]).branch = branch[PartialOf(NodeAt[u]).idx]
    BY Zenon DEF PartialOf
  <2> QED
    BY <1>0, <2>2, <2>3, Zenon DEF PartialsHonest
<1>4. ASSUME NEW u \in Url, Collect(u)
      PROVE  PartialsHonest'
  <2> DEFINE p == reply[u].partial
  <2>1. \A v \in Url : reply'[v] \in {None, reply[v]}
    BY <1>4, Zenon DEF Collect, EndCalls
  <2>2. reply[u] # None /\ p \in Partial
    <3>1. reply[u] # None
      BY <1>4, Zenon DEF DInv, Answered, Collect
    <3> QED
      BY <1>0, <3>1, Zenon DEF TypeOK, Reply
  <2>3. p.branch = branch[p.idx]
    BY <2>2, Zenon DEF PartialsHonest
  <2>4. \/ bucket' = bucket
        \/ bucket' = [bucket EXCEPT ![p.epoch] = Append(bucket[p.epoch], p)]
    BY <1>4, Zenon DEF Collect
  <2> HIDE DEF p
  <2>5. \A e \in Epoch : \/ bucket'[e] = bucket[e]
                         \/ e = p.epoch /\ bucket'[e] = Append(bucket[e], p)
    BY <1>0, <2>4, Zenon DEF TypeOK
  <2>6. ASSUME NEW e \in Epoch, NEW i \in DOMAIN bucket'[e]
        PROVE  bucket'[e][i].epoch = e /\ bucket'[e][i].branch = branch[bucket'[e][i].idx]
    <3>1. CASE bucket'[e] = bucket[e]
      BY <2>6, <3>1 DEF PartialsHonest
    <3>2. CASE e = p.epoch /\ bucket'[e] = Append(bucket[e], p)
      <4>1. bucket[e] \in Seq(Partial)
        BY <1>0, Zenon DEF TypeOK
      <4>2. (i \in DOMAIN bucket[e] /\ bucket'[e][i] = bucket[e][i]) \/ bucket'[e][i] = p
        BY <2>2, <2>6, <3>2, <4>1
      <4> QED
        BY <2>3, <3>2, <4>2, Zenon DEF PartialsHonest
    <3> QED
      BY <2>5, <3>1, <3>2, Zenon
  <2> QED
    BY <1>0, <2>1, <2>6 DEF PartialsHonest
<1> QED
  BY <1>1, <1>2, <1>3, <1>4, Zenon DEF Next, Derivation, BeginNoShare, CallFails, Short,
     Combine, StoreShare

(* What is rejected did not verify, and no healthy node loses its share. *)
LEMMA HoldStep ==
    ASSUME DInv, RejectedUnverified, PeersHold, Next
    PROVE  RejectedUnverified' /\ PeersHold'
<1>0. TypeOK
  BY Zenon DEF DInv
<1>1. CASE Begin
  BY <1>1, Zenon DEF Begin, DInv, Phase, RejectedUnverified, PeersHold, fixed
<1>2. CASE BeginNoShare
  BY <1>2, Zenon DEF BeginNoShare, DInv, Phase, RejectedUnverified, PeersHold, fixed
<1>3. ASSUME NEW u \in Url, Serve(u) \/ CallFails(u)
      PROVE  RejectedUnverified' /\ PeersHold'
  <2>1. /\ UNCHANGED <<shard, healthy, started, result>> /\ result = "none"
        /\ \E x \in {"answered", "over"} : call' = [call EXCEPT ![u] = x]
    BY <1>3, Zenon DEF Serve, CallFails, Collecting, fixed
  <2>2. \A v \in Url : call'[v] \in {call[v], "answered", "over"}
    BY <1>0, <2>1, Zenon DEF TypeOK
  <2> QED
    BY <2>1, <2>2, Zenon DEF RejectedUnverified, PeersHold
<1>4. ASSUME NEW u \in Url, Collect(u)
      PROVE  RejectedUnverified' /\ PeersHold'
  <2>1. /\ UNCHANGED <<shard, healthy, started, result>> /\ result = "none"
        /\ \A v \in Url : call'[v] \in {call[v], "over"}
    BY <1>4, Zenon DEF Collect, Collecting, EndCalls, fixed
  <2> QED
    BY <2>1, Zenon DEF RejectedUnverified, PeersHold
<1>5. CASE Short
  BY <1>5, Zenon DEF Short, Collecting, RejectedUnverified, PeersHold, fixed
<1>6. CASE Combine
  <2>1. /\ UNCHANGED <<shard, branch, healthy, call, bucket, started, ready>>
        /\ ready # None /\ result = "none" /\ result' # "not_ready"
        /\ result' = "rejected" => ~Verifies
    BY <1>6, Zenon DEF Combine, fixed
  <2>2. Verifies' <=> Verifies
    BY <2>1 DEF Verifies, Sigma, Servers
  <2> QED
    BY <2>1, <2>2, Zenon DEF RejectedUnverified, PeersHold
<1>7. ASSUME NEW n \in Node, NEW e \in Epoch, StoreShare(n, e)
      PROVE  RejectedUnverified' /\ PeersHold'
  <2>1. /\ UNCHANGED <<healthy, call, started, result>> /\ result = "none"
        /\ shard' = [shard EXCEPT ![n] = e]
    BY <1>7, Zenon DEF StoreShare, Collecting, fixed
  <2>2. \A m \in Node : shard[m] # None => shard'[m] # None
    BY <1>0, <2>1, NoneAssumption, Zenon DEF TypeOK
  <2>3. healthy \subseteq Node /\ Self \in Node
    BY <1>0, DeriveAssumption, Zenon DEF TypeOK
  <2> QED
    BY <2>1, <2>2, <2>3, Zenon DEF RejectedUnverified, PeersHold
<1> QED
  BY <1>1, <1>2, <1>3, <1>4, <1>5, <1>6, <1>7, Zenon DEF Next, Derivation

(* RInv is inductive. *)
LEMMA RInvStep == RInv /\ [Next]_vars => RInv'
<1> SUFFICES ASSUME RInv, [Next]_vars PROVE RInv'
  BY Zenon
<1>1. DInv /\ DInv'
  BY DInvStep, Zenon DEF RInv
<1>2. CASE Next
  BY <1>1, <1>2, HonestStep, HoldStep, Zenon DEF RInv
<1>3. CASE UNCHANGED vars
  <2>1. UNCHANGED <<shard, branch, healthy, call, reply, bucket, started, ready, result>>
    BY <1>3, Zenon DEF vars, fixed
  <2>2. PartialsHonest' /\ PeersHold'
    BY <2>1 DEF RInv, PartialsHonest, PeersHold
  <2>3. RejectedUnverified'
    BY <2>1 DEF RInv, RejectedUnverified, Verifies, Sigma, Servers
  <2> QED
    BY <1>1, <2>2, <2>3, Zenon DEF RInv
<1> QED
  BY <1>2, <1>3, Zenon

(* RInv holds in every reachable state. *)
LEMMA RInvAlways == Spec => []RInv
  BY RInvInit, RInvStep, PTL DEF Spec

LEMMA DInvAlways == Spec => []DInv
<1>1. RInv => DInv
  BY Zenon DEF RInv
<1> QED
  BY <1>1, RInvAlways, PTL

----------------------------------------------------------------------------
(* Theorems *)

(* Buckets, replies and calls of a derivation keep their types. *)
THEOREM DeriveTypeCorrect == Spec => []TypeOK
<1>1. DInv => TypeOK
  BY Zenon DEF DInv
<1> QED
  BY <1>1, DInvAlways, PTL

(* With one reshare under way, 2t - 1 healthy nodes are enough for an answer:
   the healthy nodes are split over two buckets, and one of them gets t. *)
THEOREM NeverFallsShort ==
    ASSUME MaxEpoch \in {0, 1}
    PROVE  Spec => []NeverShort
<1>1. DInv => NeverShort
  <2> SUFFICES ASSUME DInv, EnoughHealthy, result = "short" PROVE FALSE
    BY Zenon DEF NeverShort
  <2>1. /\ ready = None /\ started /\ \A u \in Url : call[u] = "over"
        /\ \A e \in Epoch : Len(bucket[e]) < Threshold
        /\ \E e \in Epoch : Self \in seen[e]
    BY Zenon DEF DInv, Phase
  <2>2. ASSUME NEW n \in healthy PROVE \E e \in Epoch : n \in Idx(e)
    <3>1. \E e \in Epoch : n \in seen[e]
      <4>1. CASE n = Self
        BY <2>1, <4>1, Zenon
      <4>2. CASE n # Self
        <5>1. healthy \in HealthySets
          BY Zenon DEF DInv, TypeOK
        <5>2. PICK u \in Url : n = NodeAt[u]
          BY <4>2, <5>1, DeriveAssumption, Zenon
        <5> QED
          BY <2>1, <2>2, <5>2, Zenon DEF DInv, Answered
      <4> QED
        BY <4>1, <4>2, Zenon
    <3> QED
      BY <2>2, <3>1, Zenon DEF DInv, Counted
  <2>3. PICK S, T : /\ healthy \subseteq S \cup T
                    /\ IsFiniteSet(S) /\ Cardinality(S) < Threshold
                    /\ IsFiniteSet(T) /\ Cardinality(T) < Threshold
    <3>1. \A e \in Epoch : IsFiniteSet(Idx(e)) /\ Cardinality(Idx(e)) < Threshold
      BY <2>1, Zenon DEF DInv, Counted
    <3>2. Epoch = {0, MaxEpoch}
      BY DEF Epoch
    <3>3. healthy \subseteq Idx(0) \cup Idx(MaxEpoch)
      BY <2>2, <3>2, Zenon
    <3> QED
      BY <3>1, <3>2, <3>3, Zenon
  <2>4. /\ IsFiniteSet(S \cup T)
        /\ Cardinality(S \cup T) = Cardinality(S) + Cardinality(T) - Cardinality(S \cap T)
    BY <2>3, FS_Union, Zenon
  <2>5. /\ Cardinality(S) \in Nat /\ Cardinality(T) \in Nat
        /\ Cardinality(S \cap T) \in Nat
    <3>1. IsFiniteSet(S \cap T)
      BY <2>3, FS_Subset, Zenon
    <3> QED
      BY <2>3, <3>1, FS_CardinalityType, Zenon
  <2>6. IsFiniteSet(healthy) /\ Cardinality(healthy) <= Cardinality(S \cup T)
    BY <2>3, <2>4, FS_Subset, Zenon
  <2>7. Cardinality(healthy) \in Nat /\ Cardinality(healthy) >= 2 * Threshold - 1
    BY <2>6, FS_CardinalityType, Zenon DEF EnoughHealthy
  <2> QED
    BY <2>3, <2>4, <2>5, <2>6, <2>7, DeriveAssumption
<1> QED
  BY <1>1, DInvAlways, PTL

(* A value that the coordinator refuses was made with a partial of a node on
   another polynomial, for any committee, urls and epochs: neither a node that
   answers under two urls nor a reshare under way makes dprf_verify fail. *)
THEOREM NoFalseAlarm == Spec => []RejectionMeansSplit
<1>1. RInv => RejectionMeansSplit
  <2> SUFFICES ASSUME RInv, result = "rejected", \A n \in Servers : branch[n] = branch[Self]
               PROVE  FALSE
    BY Zenon DEF RejectionMeansSplit
  <2> DEFINE ps == bucket[ready]
  <2>1. ready \in Epoch /\ ~Verifies /\ Len(ps) >= Threshold
    BY Zenon DEF RInv, RejectedUnverified, DInv, TypeOK, Phase
  <2>2. ps \in Seq(Partial) /\ 1 \in DOMAIN ps
    <3>1. ps \in Seq(Partial)
      BY <2>1, Zenon DEF RInv, DInv, TypeOK
    <3>2. Len(ps) \in Nat /\ DOMAIN ps = 1..Len(ps)
      BY <3>1
    <3> QED
      BY <2>1, <3>1, <3>2, DeriveAssumption
  <2>3. \A i \in DOMAIN ps : ps[i].epoch = ready /\ ps[i].branch = branch[Self]
    BY <2>1 DEF RInv, PartialsHonest, Servers
  <2>4. Cardinality(Servers) = Len(ps)
    BY <2>1, Zenon DEF RInv, DInv, Counted, Idx, Servers
  <2>5. Sigma = Master(branch[Self])
    BY <2>2, <2>3, <2>4, Zenon DEF Sigma
  <2> QED
    BY <2>1, <2>5, Zenon DEF Verifies
<1> QED
  BY <1>1, RInvAlways, PTL

----------------------------------------------------------------------------
(* Termination: with the weak fairness of Spec, WorkShrinks is the argument
   that every derivation ends. *)

(* Fewer calls are counted when some are done with. *)
LEMMA FewerCalls ==
    ASSUME NEW S \in SUBSET Url, NEW T \in SUBSET S
    PROVE  /\ Cardinality(S) \in Nat /\ Cardinality(T) \in Nat
           /\ Cardinality(T) <= Cardinality(S)
           /\ S # T => Cardinality(T) < Cardinality(S)
<1>1. IsFiniteSet(S)
  BY DeriveAssumption, FS_Subset, Zenon
<1>2. IsFiniteSet(T) /\ Cardinality(T) <= Cardinality(S)
      /\ (Cardinality(S) = Cardinality(T) => S = T)
  BY <1>1, FS_Subset, Zenon
<1>3. Cardinality(S) \in Nat /\ Cardinality(T) \in Nat
  BY <1>1, <1>2, FS_CardinalityType, Zenon
<1> QED
  BY <1>2, <1>3

(* A step that puts no call, start or result back and moves one of them on
   leaves less work. *)
LEMMA LessWork ==
    ASSUME \A u \in Url : /\ call'[u] = "unsent" => call[u] = "unsent"
                          /\ call'[u] = "sent" => call[u] \in {"unsent", "sent"}
                          /\ call'[u] # "over" => call[u] # "over",
           started => started', result # "none" => result' # "none",
           \/ ~started /\ started'
           \/ result = "none" /\ result' # "none"
           \/ \E u \in Url : \/ call[u] = "sent" /\ call'[u] = "answered"
                             \/ call[u] # "over" /\ call'[u] = "over"
    PROVE  Work' < Work
<1> DEFINE A == {u \in Url : call[u] = "unsent"}
           B == {u \in Url : call[u] \in {"unsent", "sent"}}
           C == {u \in Url : call[u] # "over"}
           D == {u \in Url : call'[u] = "unsent"}
           E == {u \in Url : call'[u] \in {"unsent", "sent"}}
           F == {u \in Url : call'[u] # "over"}
           i == IF started THEN 0 ELSE 1
           j == IF started' THEN 0 ELSE 1
           k == IF result = "none" THEN 1 ELSE 0
           l == IF result' = "none" THEN 1 ELSE 0
<1>1. D \subseteq A /\ E \subseteq B /\ F \subseteq C
  BY Zenon
<1>2. /\ A \in SUBSET Url /\ B \in SUBSET Url /\ C \in SUBSET Url
  BY Zenon
<1>3. /\ Cardinality(A) \in Nat /\ Cardinality(D) \in Nat /\ Cardinality(D) <= Cardinality(A)
      /\ Cardinality(B) \in Nat /\ Cardinality(E) \in Nat /\ Cardinality(E) <= Cardinality(B)
      /\ Cardinality(C) \in Nat /\ Cardinality(F) \in Nat /\ Cardinality(F) <= Cardinality(C)
      /\ B # E => Cardinality(E) < Cardinality(B)
      /\ C # F => Cardinality(F) < Cardinality(C)
  <2> HIDE DEF A, B, C, D, E, F
  <2> QED
    BY <1>1, <1>2, FewerCalls, Zenon
<1>4. i \in {0, 1} /\ j \in {0, 1} /\ k \in {0, 1} /\ l \in {0, 1} /\ j <= i /\ l <= k
  <2>1. i \in {0, 1} /\ j \in {0, 1} /\ (j = i \/ (j = 0 /\ i = 1))
    BY Zenon
  <2>2. k \in {0, 1} /\ l \in {0, 1} /\ (l = k \/ (l = 0 /\ k = 1))
    BY Zenon
  <2> HIDE DEF i, j, k, l
  <2> QED
    BY <2>1, <2>2
<1>5. (j = 0 /\ i = 1) \/ (l = 0 /\ k = 1) \/ B # E \/ C # F
  <2>1. ASSUME ~started, started' PROVE j = 0 /\ i = 1
    BY <2>1, Zenon
  <2>2. ASSUME result = "none", result' # "none" PROVE l = 0 /\ k = 1
    BY <2>2, Zenon
  <2>3. ASSUME NEW u \in Url, call[u] = "sent", call'[u] = "answered" PROVE B # E
    <3>1. u \in B /\ u \notin E
      BY <2>3, Zenon
    <3> QED
      BY <3>1, Zenon
  <2>4. ASSUME NEW u \in Url, call[u] # "over", call'[u] = "over" PROVE C # F
    <3>1. u \in C /\ u \notin F
      BY <2>4, Zenon
    <3> QED
      BY <3>1, Zenon
  <2> QED
    BY <2>1, <2>2, <2>3, <2>4, Zenon
<1>6. /\ Work = Cardinality(A) + Cardinality(B) + Cardinality(C) + i + k
      /\ Work' = Cardinality(D) + Cardinality(E) + Cardinality(F) + j + l
  BY Zenon DEF Work
<1> HIDE DEF A, B, C, D, E, F, i, j, k, l
<1> QED
  BY <1>3, <1>4, <1>5, <1>6

(* Every step of a derivation leaves less of it. *)
LEMMA DerivationShrinks ==
    ASSUME DInv, Derivation
    PROVE  Work' < Work
<1>0. TypeOK
  BY Zenon DEF DInv
<1>1. CASE Begin
  <2>1. /\ ~started /\ started' /\ result' = result
        /\ \A u \in Url : call[u] = "unsent" /\ call'[u] = "sent"
    BY <1>1, Zenon DEF Begin, DInv, Phase
  <2> QED
    BY <2>1, LessWork, Zenon
<1>2. CASE BeginNoShare
  <2>1. ~started /\ started' /\ result' = "not_ready" /\ call' = call
    BY <1>2, Zenon DEF BeginNoShare
  <2> QED
    BY <2>1, LessWork, Zenon
<1>3. ASSUME NEW u \in Url, Serve(u) \/ CallFails(u)
      PROVE  Work' < Work
  <2>1. /\ started' = started /\ result' = result /\ call[u] = "sent"
        /\ \E x \in {"answered", "over"} : call' = [call EXCEPT ![u] = x]
    BY <1>3, Zenon DEF Serve, CallFails
  <2>2. /\ call'[u] \in {"answered", "over"}
        /\ \A v \in Url \ {u} : call'[v] = call[v]
    BY <1>0, <2>1, Zenon DEF TypeOK
  <2> QED
    BY <2>1, <2>2, LessWork, Zenon
<1>4. ASSUME NEW u \in Url, Collect(u)
      PROVE  Work' < Work
  <2>1. /\ started' = started /\ result' = result /\ call[u] = "answered"
        /\ call'[u] = "over" /\ \A v \in Url : call'[v] \in {call[v], "over"}
    BY <1>4, Zenon DEF Collect, EndCalls
  <2> QED
    BY <2>1, LessWork, Zenon
<1>5. CASE Short \/ Combine
  <2>1. started' = started /\ result = "none" /\ result' # "none" /\ call' = call
    BY <1>5, Zenon DEF Short, Combine, Collecting
  <2> QED
    BY <2>1, LessWork, Zenon
<1> QED
  BY <1>1, <1>2, <1>3, <1>4, <1>5, Zenon DEF Derivation

(* A derivation takes at most three steps for each url and two more, and the
   shares that reshares store meanwhile add none. *)
THEOREM WorkAlwaysShrinks == Spec => WorkShrinks
<1>1. DInv /\ [Next]_vars => [IF Derivation THEN Work' < Work ELSE Work' = Work]_vars
  <2> SUFFICES ASSUME DInv, Next PROVE IF Derivation THEN Work' < Work ELSE Work' = Work
    BY Zenon
  <2>1. CASE Derivation
    BY <2>1, DerivationShrinks, Zenon
  <2>2. CASE ~Derivation
    <3>1. UNCHANGED <<call, started, result>>
      BY <2>2, Zenon DEF Next, StoreShare
    <3> QED
      BY <2>2, <3>1, Zenon DEF Work
  <2> QED
    BY <2>1, <2>2, Zenon
<1> QED
  BY <1>1, DInvAlways, PTL DEF Spec, WorkShrinks

(* The safety half of Served, for any committee: with one reshare under way,
   2t - 1 healthy nodes and no split, a coordinator that had a share when it
   was asked has no other answer than the key. *)
THEOREM KeyIsTheAnswer ==
    ASSUME MaxEpoch \in {0, 1}
    PROVE  Spec => [](EnoughHealthy /\ (\A n \in Node : branch[n] = "main")
                         => result \in {"none", "key", "not_ready"})
<1>1. RInv /\ NeverShort /\ RejectionMeansSplit =>
         (EnoughHealthy /\ (\A n \in Node : branch[n] = "main")
             => result \in {"none", "key", "not_ready"})
  <2> SUFFICES ASSUME RInv, NeverShort, RejectionMeansSplit, EnoughHealthy,
                      \A n \in Node : branch[n] = "main"
               PROVE  result \in {"none", "key", "not_ready"}
    BY Zenon
  <2>1. result \in {"none", "key", "short", "rejected", "not_ready"} /\ Self \in Node
    BY DeriveAssumption, Zenon DEF RInv, DInv, TypeOK
  <2>2. result # "short"
    BY Zenon DEF NeverShort
  <2>3. ASSUME result = "rejected" PROVE FALSE
    <3>1. PICK n \in Servers : branch[n] # branch[Self]
      BY <2>3, Zenon DEF RejectionMeansSplit
    <3>2. bucket[ready] \in Seq(Partial)
      BY <2>3, Zenon DEF RInv, RejectedUnverified, DInv, TypeOK
    <3>3. PICK i \in DOMAIN bucket[ready] : n = bucket[ready][i].idx
      BY <3>1, Zenon DEF Servers
    <3>4. bucket[ready][i] \in Partial
      BY <3>2, <3>3
    <3>5. n \in Node
      BY <3>3, <3>4, Zenon DEF Partial
    <3> QED
      BY <2>1, <3>1, <3>5, Zenon
  <2> QED
    BY <2>1, <2>2, <2>3, Zenon
<1>2. Spec => []NeverShort
  BY NeverFallsShort, Zenon
<1> QED
  BY <1>1, <1>2, NoFalseAlarm, RInvAlways, PTL
=============================================================================
