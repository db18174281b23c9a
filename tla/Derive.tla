------------------------------- MODULE Derive -------------------------------
(***************************************************************************)
(* One derivation coordinated by node Self (collect_and_dprf), while nodes *)
(* store the shares of the next epoch.  A share lies on the polynomial of  *)
(* its epoch on the node's branch: "main"; "fork" for a second polynomial  *)
(* of the same master under the same epoch number (two concurrent          *)
(* recoveries); or "foreign" for a polynomial of another master (a genesis *)
(* in a partition).  A partial is represented by the share that made it.   *)
(***************************************************************************)
EXTENDS Naturals, FiniteSets, Sequences

CONSTANTS
    Node,       \* shard indices
    Self,       \* the coordinator
    Url,        \* the urls of peer_urls()
    NodeAt,     \* the node that answers at a url: a stale entry repeats one
    Threshold,
    HealthySets,  \* the sets of nodes that may all stay healthy
    MaxEpoch,   \* bound: reshares that store shares during the derivation
    None

ASSUME DeriveAssumption ==
    /\ IsFiniteSet(Url) /\ NodeAt \in [Url -> Node]
    /\ \A H \in HealthySets : /\ Self \in H /\ H \subseteq Node
                             /\ H \ {Self} \subseteq {NodeAt[u] : u \in Url}
    /\ Threshold \in Nat \ {0} /\ MaxEpoch \in Nat

VARIABLES
    shard,    \* epoch of each node's share, None without one
    branch,   \* the polynomials it follows
    healthy,  \* the nodes that stay up, are reached and answer well
    started,  \* the derive has read its own shard
    call,     \* the call to each url
    reply,    \* its answer
    bucket,   \* per epoch, the partials collected, in order
    seen,     \* per epoch, the indices heard from
    ready,    \* the epoch that reached the threshold
    result    \* "none", "key", "short", "rejected" or "not_ready"

fixed == <<branch, healthy>>
vars  == <<shard, fixed, started, call, reply, bucket, seen, ready, result>>

Epoch   == 0..MaxEpoch
Branch  == {"main", "fork", "foreign"}
Partial == [idx : Node, epoch : Epoch, branch : Branch]
Reply   == [partial : Partial, ok : BOOLEAN]

ASSUME NoneAssumption == None \notin Epoch /\ None \notin Reply

Master(b) == IF b = "foreign" THEN "foreign" ELSE "main"

TypeOK ==
    /\ shard \in [Node -> Epoch \cup {None}]
    /\ branch \in [Node -> Branch]
    /\ healthy \in HealthySets
    /\ started \in BOOLEAN
    /\ call \in [Url -> {"unsent", "sent", "answered", "over"}]
    /\ reply \in [Url -> Reply \cup {None}]
    /\ bucket \in [Epoch -> Seq(Partial)] /\ seen \in [Epoch -> SUBSET Node]
    /\ ready \in Epoch \cup {None}
    /\ result \in {"none", "key", "short", "rejected", "not_ready"}

(* Healthy nodes are on the coordinator's branch.  A reshare may be under way
   or have left a node behind. *)
Init ==
    /\ healthy \in HealthySets
    /\ shard \in [Node -> Epoch \cup {None}] /\ \A n \in healthy \ {Self} : shard[n] # None
    /\ branch \in [Node -> Branch]
    /\ \A n \in Node : n \in healthy \/ shard[n] = None => branch[n] = "main"
    /\ started = FALSE
    /\ call = [u \in Url |-> "unsent"] /\ reply = [u \in Url |-> None]
    /\ bucket = [e \in Epoch |-> <<>>] /\ seen = [e \in Epoch |-> {}]
    /\ ready = None
    /\ result = "none"

----------------------------------------------------------------------------
PartialOf(n) == [idx |-> n, epoch |-> shard[n], branch |-> branch[n]]

Enough(ps) == Len(ps) >= Threshold

(* The loop over peer_futures. *)
Collecting == started /\ ready = None /\ result = "none"

(* The coordinator's own partial seeds its epoch; every peer is asked. *)
Begin ==
    /\ ~started /\ shard[Self] # None
    /\ started' = TRUE
    /\ bucket' = [bucket EXCEPT ![shard[Self]] = <<PartialOf(Self)>>]
    /\ seen' = [seen EXCEPT ![shard[Self]] = {Self}]
    /\ ready' = (IF Enough(<<PartialOf(Self)>>) THEN shard[Self] ELSE None)
    /\ call' = [u \in Url |-> "sent"]
    /\ UNCHANGED <<shard, fixed, reply, result>>

BeginNoShare ==
    /\ ~started /\ shard[Self] = None
    /\ started' = TRUE
    /\ result' = "not_ready"
    /\ UNCHANGED <<shard, fixed, call, reply, bucket, seen, ready>>

(* Mutant: the handler answers without a share. *)
ServeNoShare(u) ==
    /\ Collecting /\ call[u] = "sent"
    /\ reply' = [reply EXCEPT ![u] = [partial |-> PartialOf(NodeAt[u]), ok |-> TRUE]]
    /\ call' = [call EXCEPT ![u] = "answered"]
    /\ UNCHANGED <<shard, fixed, started, bucket, seen, ready, result>>

(* The get_dprf_partial handler: index, epoch and partial of one read of the
   shard.  A node that is not healthy may answer with an unusable payload. *)
Serve(u) ==
    /\ Collecting /\ call[u] = "sent" /\ shard[NodeAt[u]] # None
    /\ \E ok \in BOOLEAN :
          /\ NodeAt[u] \in healthy => ok
          /\ reply' = [reply EXCEPT ![u] = [partial |-> PartialOf(NodeAt[u]), ok |-> ok]]
    /\ call' = [call EXCEPT ![u] = "answered"]
    /\ UNCHANGED <<shard, fixed, started, bucket, seen, ready, result>>

(* Unreachable, timed out, the signature of its answer does not verify, or the
   node has no share and says so at once. *)
CallFails(u) ==
    /\ Collecting /\ call[u] = "sent"
    /\ NodeAt[u] \notin healthy \/ shard[NodeAt[u]] = None
    /\ call' = [call EXCEPT ![u] = "over"]
    /\ UNCHANGED <<shard, fixed, started, reply, bucket, seen, ready, result>>

EndCalls(us) ==
    /\ call' = [u \in Url |-> IF u \in us THEN "over" ELSE call[u]]
    /\ reply' = [u \in Url |-> IF u \in us THEN None ELSE reply[u]]

(* Mutant: answers are not deduplicated by index. *)
IsNewAlways(p) == TRUE

IsNew(p) == p.idx \notin seen[p.epoch]

(* Mutant: partials are collected without regard to their epoch. *)
CollectMixes(u) ==
    /\ Collecting /\ call[u] = "answered"
    /\ LET p == reply[u].partial
           b == Append(bucket[0], p)
       IN  /\ seen' = [seen EXCEPT ![0] = @ \cup {p.idx}]
           /\ IF p.idx \notin seen[0] /\ reply[u].ok
              THEN /\ bucket' = [bucket EXCEPT ![0] = b]
                   /\ ready' = IF Enough(b) THEN 0 ELSE None
              ELSE UNCHANGED <<bucket, ready>>
    /\ EndCalls(IF ready' = None THEN {u} ELSE Url)
    /\ UNCHANGED <<shard, fixed, started, result>>

(* Mutant: an unusable payload ends the derivation. *)
CollectAborts(u) ==
    /\ Collecting /\ call[u] = "answered"
    /\ LET p == reply[u].partial
           b == Append(bucket[p.epoch], p)
       IN  /\ seen' = [seen EXCEPT ![p.epoch] = @ \cup {p.idx}]
           /\ IF IsNew(p) /\ reply[u].ok
              THEN /\ bucket' = [bucket EXCEPT ![p.epoch] = b]
                   /\ ready' = IF Enough(b) THEN p.epoch ELSE None
              ELSE UNCHANGED <<bucket, ready>>
    /\ result' = IF reply[u].ok THEN result ELSE "short"
    /\ EndCalls(IF ready' = None THEN {u} ELSE Url)
    /\ UNCHANGED <<shard, fixed, started>>

(* Mutant: a peer with an unusable payload is asked again. *)
CollectRetries(u) ==
    /\ Collecting /\ call[u] = "answered"
    /\ LET p == reply[u].partial
           b == Append(bucket[p.epoch], p)
       IN  /\ seen' = [seen EXCEPT ![p.epoch] = @ \cup {p.idx}]
           /\ IF IsNew(p) /\ reply[u].ok
              THEN /\ bucket' = [bucket EXCEPT ![p.epoch] = b]
                   /\ ready' = IF Enough(b) THEN p.epoch ELSE None
              ELSE UNCHANGED <<bucket, ready>>
    /\ IF reply[u].ok THEN EndCalls(IF ready' = None THEN {u} ELSE Url)
       ELSE call' = [call EXCEPT ![u] = "sent"] /\ UNCHANGED reply
    /\ UNCHANGED <<shard, fixed, started, result>>

(* One reply out of peer_futures: skip a repeated index, discard an unusable
   payload, and stop at the threshold, dropping the calls under way. *)
Collect(u) ==
    /\ Collecting /\ call[u] = "answered"
    /\ LET p == reply[u].partial
           b == Append(bucket[p.epoch], p)
       IN  /\ seen' = [seen EXCEPT ![p.epoch] = @ \cup {p.idx}]
           /\ IF IsNew(p) /\ reply[u].ok
              THEN /\ bucket' = [bucket EXCEPT ![p.epoch] = b]
                   /\ ready' = IF Enough(b) THEN p.epoch ELSE None
              ELSE UNCHANGED <<bucket, ready>>
    /\ EndCalls(IF ready' = None THEN {u} ELSE Url)
    /\ UNCHANGED <<shard, fixed, started, result>>

(* peer_futures is exhausted. *)
Short ==
    /\ Collecting /\ \A u \in Url : call[u] = "over"
    /\ result' = "short"
    /\ UNCHANGED <<shard, fixed, started, call, reply, bucket, seen, ready>>

Servers == {bucket[ready][i].idx : i \in DOMAIN bucket[ready]}

(* dprf_sigma: only shares of one polynomial, that is of one epoch on one
   branch, and each taken once, interpolate to a master. *)
Sigma ==
    LET ps == bucket[ready] IN
    IF /\ \A i, j \in DOMAIN ps : ps[i].epoch = ps[j].epoch /\ ps[i].branch = ps[j].branch
       /\ Cardinality(Servers) = Len(ps)
    THEN Master(ps[1].branch) ELSE "garbage"

(* dprf_verify against the group pubkey read at the end. *)
Verifies == Sigma = Master(branch[Self])

Combine ==
    /\ ready # None /\ result = "none"
    /\ result' = IF Verifies THEN "key" ELSE "rejected"
    /\ UNCHANGED <<shard, fixed, started, call, reply, bucket, seen, ready>>

(* A reshare reaches n: it stores a share of whatever epoch the session had.
   This has an effect on calls under way only: before them it is a choice of
   Init, and nothing reads the share of n after them. *)
StoreShare(n, e) ==
    /\ Collecting
    /\ \E u \in Url : NodeAt[u] = n /\ call[u] = "sent"
    /\ shard[n] # None
    /\ shard' = [shard EXCEPT ![n] = e]
    /\ UNCHANGED <<fixed, started, call, reply, bucket, seen, ready, result>>

Derivation ==
    \/ Begin \/ BeginNoShare
    \/ \E u \in Url : Serve(u) \/ CallFails(u) \/ Collect(u)
    \/ Short \/ Combine

Next == Derivation \/ \E n \in Node, e \in Epoch : StoreShare(n, e)

(* Every call ends, by its answer or its timeouts. *)
Spec == Init /\ [][Next]_vars /\ WF_vars(Derivation)

----------------------------------------------------------------------------
(* Properties *)

(* Enough nodes for one of two epochs to have a threshold of them. *)
EnoughHealthy == Cardinality(healthy) >= 2 * Threshold - 1

(* "A dead node must not affect normal use", nor does a reshare that is under
   way: with 2t - 1 healthy nodes one epoch always gets its threshold,
   whatever the other nodes answer and whenever shares move to the next epoch. *)
NeverShort == EnoughHealthy => result # "short"

(* The check of the combined value raises no false alarm: when it fails, one of
   the nodes whose partials were combined is on another polynomial of the same
   epoch number than the coordinator, however often a node was asked and however
   shares moved between epochs: neither a partial counted twice nor one of
   another epoch gets into the combination. *)
RejectionMeansSplit ==
    result = "rejected" => \E n \in Servers : branch[n] # branch[Self]

(* What is left of a derivation: answers to come and to be collected, and the
   two ends of the handler. *)
Work ==
    Cardinality({u \in Url : call[u] = "unsent"})
    + Cardinality({u \in Url : call[u] \in {"unsent", "sent"}})
    + Cardinality({u \in Url : call[u] # "over"})
    + (IF started THEN 0 ELSE 1) + (IF result = "none" THEN 1 ELSE 0)

(* No derivation goes on for ever: each of its steps leaves less to do, and the
   reshares that store shares meanwhile give it nothing more to do. *)
WorkShrinks ==
    [][IF Derivation THEN Work' < Work ELSE Work' = Work]_vars

(* In a cluster that has not split, a coordinator with a share and enough
   healthy peers answers every request with the key: no call or payload holds
   it up for ever. *)
Served ==
    shard[Self] # None /\ EnoughHealthy /\ (\A n \in Node : branch[n] = "main")
        ~> result = "key"
=============================================================================
