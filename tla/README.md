# 0g-kms: TLA+ models, checks and proofs

This directory holds a formal model of the 0g-kms cluster (`src/`), TLC
configurations that check it on small instances, and TLAPS proofs of the main
safety properties for every instance.

## The system

0g-kms is a threshold key management service. A committee of `n` nodes (the
on-chain nodeList) holds Shamir shares of one BLS12-381 master; any `threshold`
of them can derive an application key, and nobody ever holds the master.

| part | source | state | operations |
|---|---|---|---|
| share lifecycle | `init.rs` | share, group pubkey, epoch, sealed blob | genesis, recovery, refresh, watchdog, reload |
| session driver | `dkg.rs`, `grpc.rs` (DkgRound) | round buffers per session id | broadcast, barrier, rounds 1 to 5 |
| gossip | `grpc.rs` | peer table: url, pubkey, epoch, last contact | push, handler, merge, liveness |
| derivation | `grpc.rs` (collect_and_dprf), `server.rs` | partials bucketed by epoch | collect, combine, verify |
| membership | `chain.rs`, `auth.rs` | nodeList cache, owner lookups | cached read, refresh on miss, authenticate |
| attested admission | `verifier.rs` | per-node verdict cache | verify, cache, damp, stale positive |
| sealed share | `seal.rs`, `init.rs`, `metrics.rs` | blob in memory, file, master baseline | seal, persist, reload, compare |
| key, config, HTTP, metrics | `tee.rs`, `crypto.rs`, `config.rs`, `server.rs`, `metrics.rs` | none of its own that changes | pure functions, I/O, rendering |

A node boots, reloads its sealed share if gossip does not know a larger epoch,
and otherwise loops in `form_cluster`: assemble the live peers, probe the seeds,
then run a genesis (nobody has a share) or a reshare recovery (somebody has).
Each reshare moves its members to a new polynomial with the same intercept and
the next epoch. A node left behind notices through gossip and recovers again.

What makes it hard: shares, group pubkeys, sealed blobs and gossiped epochs are
updated by different tasks of different nodes at different times; a session has
no commit step, so its members can end differently; every message can be lost;
and several sessions of one node can be under way at once.

## Modules

| module | models | proofs |
|---|---|---|
| `Reshare` | `init.rs` with the handlers of `grpc.rs` that feed it | `ReshareProofs`, `ReshareGuardProofs` |
| `Dkg` | `dkg.rs`, the DkgRound handler and buffers, for one session id | `DkgProofs` |
| `MasterLedger` | the promise of the committee about its master; `Reshare` implements it | |
| `SessionOutcome` | the promise a session makes; `Dkg` implements it, `Reshare` uses it | |
| `MCReshare`, `MCDkg` | instances for TLC | |
| `Derive` | `collect_and_dprf` and the GetDprfPartial call | `DeriveProofs` |
| `Verifier` | `require_verified` of `verifier.rs`, one key | `VerifierProofs` |
| `NodeListCache` | the nodeList cache of `chain.rs`, one app and signer | `NodeListProofs` |
| `Gossip` | gossip rounds, the gossip handler and the peer tables of `grpc.rs` | `GossipProofs` |
| `ShareStore` | `store_share` and `try_reload_sealed` of one node, `seal.rs`, the baseline of `metrics.rs` | `ShareStoreProofs` |
| `MCDerive`, `MCNodeListCache`, `MCGossip`, `MCShareStore` | instances for TLC | |

### Reshare

State: `pc` is where the `form_cluster` task of a node is (down, boot, form,
assembled, session, watch); `shard`, `group_pubkey` are the fields of `AppState`;
`sealed` is the durable blob; `peer_table[n][m]` the epoch `n` has learned of `m`;
`snap` the membership assembled before the probe; `session` and `part` describe
each session and how far each node is in it. One action per operation; `store_share` is
three steps, `Finish` (sealing and the file), `StoreKey` and `StoreShare` (the two writes to
`AppState`), between which other sessions of the node run.

Abstractions:

- A polynomial is named by its session and a master by the session that first
  had it. A session over dealers on one polynomial keeps the master; over
  several, it ends with an unrelated one, named by the session.
- A session is *full* once all members have joined; then each finishes or leaves
  on its own. `Dkg` shows that the driver keeps this promise (`SessionOutcome`).
- Which discovered peers count as live is a free choice of `Assemble`.
- The nodeList is complete and fixed. A gossip push carries the epoch held at
  that time; the code takes it at the start of its round.
- The probe of the seeds and the decision it leads to are one step, and so are the two
  adjacent reads of the dealer's share, the steps of `trigger_refresh` up to its
  own dealer session, and the guard with the sealing. A reload writes key and share in
  one step, as no session of the node runs then.
- SUBSET_SETTLE is a wait of any length. A timeout is free if some member will
  not send, and otherwise costs one of `MaxLosses`: a message was lost, or came later than
  DKG_ROUND_TIMEOUT.
- Genesis attempts under the constant session id do not mix here; `Dkg` has them.

`MasterLedger` is what remains of "every epoch shares the same master" (run OneMaster):
`minted` are the geneses that have completed, `held` is `group_pubkey`. A genesis mints only
while nobody holds a share; a process receives a minted master, or one that nobody else
holds, and keeps it until it dies.

### Dkg

State: `attempt` counts the participants a node has created, `round` is where it
is in `run_session`, `pending` the sends under way, `buf` and `echo` the buffered
messages. A message is tagged by its sender's attempt; the last broadcast names
the polynomial by the round-1 messages it was made from (`view`). gennaro-dkg is
external: see the module's header for what is assumed of it.

### Derive

State: `shard` and `branch` say which share each node holds, `call` and `reply`
follow the call to each url, and `bucket`, `seen` and `ready` are the local
variables of `collect_and_dprf`. Reshares store
shares of another epoch while calls are under way; a node outside `healthy` may fail a call
(also because it restarted without its share), answer with an unusable payload or
follow another polynomial. Partials are represented by
the share that made them; a combine of shares of different polynomials, or with
a node twice, is `"garbage"`, which only the verification tells from a key.
A node's branch says whether it follows the common polynomials, a second
polynomial under the same epoch number, or another master.

### Verifier and NodeListCache

Both are caches with time. Instants are kept as ages in ticks that stop at the
largest duration compared with, and a tick passes only when every call waits
for a timer, a lock or the network. A call that is over stays so until the next
tick. Both let a client disconnect, which drops the future at any await together
with the locks it holds.

`Verifier`: `cache` is the key's entry; `entry` the lock in `fetch_locks`; `owner`
and `held` the lock objects, several of which exist once the map entry is removed
while calls queue; `left` and `timer` the deadline and the sleep of the poll loop.
`last` and `yesAge` record scan's verdicts for the properties; a refusal whose call is
dropped before it reaches the cache makes `last` "lost". Durations are parameters.

`NodeListCache`: a list is modelled by whether it contains the signer. `refresh`
and `miss` are the two locks; an RPC reads the registry at one moment (`Read`) and
its result is stored later, so the lists of two RPCs can be stored in the other
order. The ages and `dropped`, at the end of the variable list, are history. `MaxRpc` bounds
how long an RPC takes, with no relation to the TTL: the client sets no timeout of its own.
A list that took long is stored with the stamp of its arrival, and a forced lookup
(chain.rs:201) uses an entry that expired while it waited, so RemovalEnforced has two cases:
the TTL and one RPC, or two RPCs. There is no liveness property here: a request that
never ends holds `refresh_lock`, and nothing in the code bounds it.

### Gossip

State: `table[h]` is the peer table of host `h`, keyed by identity, each entry with
the age of the last direct contact, an epoch and a group pubkey; `round[h]` is its
gossip round, with the epoch and pubkey read at its start and the targets still to
push to. `up`, `id`, `epoch` and `group_pubkey` are the node itself; `down` and `best`
are history. `BeginRound` chooses the targets (the table, or the seeds while it is
empty), `Push` is `push_gossip` with the handler at the other end and the merge of
its answer, and `PushFails` the warning.

A url belongs to one host and an identity to one url, as the node's configuration
and key have it; a restart may change the identity, never the url. A push and its
merge are one step, which may also lose the answer. All nodes do one round per
period: the sleep of 30 s is long against a round. How shares are obtained is the
subject of `Reshare`; here `Adopt` takes one over. The pushes of a round do not age,
so the signed timestamp of a slow round, which its last targets may refuse, is a
`PushFails`.

### ShareStore

One node over its lives. `task[t]` is where the `store_share` of a session is (sealed,
the `.tmp` opened, written, renamed, baseline read, recorded, key set, share set); `fd`
says where the file it is writing has been moved by another session's rename, since all
sessions use one `.tmp` name. `pc` is `form_cluster`; its task `Main` also runs
`try_reload_sealed`. `file`, `tmp` and `baseline` are on disk; `captured` and `explicit`
are the blob that the deploy pipeline read from `/sealed-share` and the one it injects
into the next life; `cluster` is the largest epoch of the peers.

- `RecordBaseline` is one step, its own `.tmp` included: all sessions that can race
  there have the same master.
- A crash is that of the process. What the kernel has is kept; a power failure
  between the rename and the disk (there is no fsync) is not modelled.
- RestartKeepsShare is about the file that a crash leaves: it has the share of the
  previous life or one that was being stored, and form_cluster goes on without it only if its
  epoch is behind the cluster's.
- `explicit` is forgotten once boot is over, since only `try_reload_sealed` reads it.
- FileCurrent is stated for stores that did not overlap in this life and for a share
  that was not adopted from an injected blob. Both exceptions are the code's: with two
  overlapping stores the last rename decides about the file, not the last share in
  memory, and adopting an injected blob leaves the file alone.
- A reload compares epochs only. seal.rs:45-48 also speaks of the master; init.rs:425-426
  leaves that to the operator, and the baseline reports it.

### Why the modules are not composed

Each module has the interface of its neighbours as free choices: `Derive` lets any
node store a share of any epoch during its calls, `Gossip` lets any node take one over,
`ShareStore` lets the cluster move on, and `Reshare` assumes of a session what `Dkg` proves
(`SessionOutcome`). What `Reshare` can do to its neighbours, the epoch that goes back
(run EpochMonotonic) and the split over two masters (run OneMaster) included, is among
these choices, so their safety results do not rest on how it behaves. The composition
itself has too many states for TLC.

## Runs

| run | instance | shows |
|---|---|---|
| Reshare | n=3, t=2, 3 sessions: one node ahead after a refresh, 1 crash and 1 refresh to come; or all shares lost, 1 crash and 1 loss to come | types, KeyMatchesShare, DealersRejectGarbage, AlertMeansStuck, EpochsUnbroken, OneMasterUnlessMixed, NoGenesisOverHolders, MasterStable, KeepsLedger: implements MasterLedger |
| LiveRejoin | n=2, t=1, formed (1 crash) or fresh, 1 lost or late message, 4 sessions, fair | Rejoins |
| Dkg | 2 members, 4 rounds, 3 attempts, 1 loss, 1 crash | KeepsPromise: implements SessionOutcome |
| Derive | n=4, t=2, 4 urls (one node under two), 1 or 2 faulty nodes, 2 epochs, fair | NeverShort, RejectionMeansSplit, WorkShrinks, Served |
| Verifier | 2 calls, 2 locks, durations 1 to 4 ticks, fair | SingleFlight, AllowedOnVerdict, EveryCallReturns |
| NodeListCache | 3 calls, TTL 2, floor 1, RPC up to 2 ticks | RemovalEnforced, ReRegistered, ForcedRarely |
| Gossip | 3 hosts with mesh seeds, 4 identities, window 2, 2 masters, 1 crash or lost push, 1 new share, fair | DeadExpires, EpochsHeld, Discovered, ViewsCatchUp |
| ShareStore | 2 sessions, 2 identities, 2 masters, 2 epochs, 2 crashes or failing disk accesses | FileCurrent, RestartKeepsShare, BaselineHonest |

Runs that find a disagreement between a statement of the repository and the code:

| run | statement | what the code does |
|---|---|---|
| MasterSurvives | "the master survives any < threshold loss" (README.md:19-20) | one crash in the last round of a refresh leaves every polynomial with fewer than threshold shares |
| OneMaster | "Every epoch shares the same master" (grpc.rs:532-534) | a shardless node recovering from dealers on two polynomials stores a share of an unrelated master |
| EpochMonotonic | "never reshare backwards" (init.rs:674) | of two concurrent sessions of a share-holder (as a dealer, or its own catch-up), the one with the smaller epoch can store last |
| Resyncs | "re-syncs automatically" (README.md:22-24) | with fewer than threshold nodes at the leading epoch, no catch-up finds enough dealers |

In two places the code gives a little less than its comments suggest, when a client
disconnects; the passing properties state what is left:

- "at most one forced refresh per app per `MISS_REFRESH_MIN`" (chain.rs:183; also chain.rs:29-31,
  README.md:147): a forced refresh that is dropped with its caller leaves no stamp, and the
  next one may start at once. ForcedRarely exempts exactly the refresh after a dropped one (`dropped`).
- A refusal of scan replaces the cached positive, unless its call is dropped at one of the
  awaits between the answer and the write (verifier.rs:306, 316). The positive may then be
  served until its staleness cap. AllowedOnVerdict allows this one case (`last = "lost"`).

Bounds. Three nodes and threshold 2 are the smallest committee in which some
nodes can finish a session and others not while a quorum remains. A refresh and
a recovery, or two recoveries, are enough for sessions to overlap, which is what
all counterexamples need. Larger instances were checked once without an error:
FormedSpec with 3 sessions, one lost share and a refresh (262 thousand states) or a lost
message (934 thousand); Spec with a refresh (156 thousand); Dkg with three members, two
attempts, two rounds, a loss and a crash (6.4 million), or three rounds and a
crash (7.0 million).

In `Derive` three healthy nodes (2t - 1) and two epochs are the smallest case in which
one epoch must get its threshold; with three epochs at once, or fewer healthy
nodes, a derivation can come up short. In `Verifier` two calls are enough for a call to
queue behind another; in `NodeListCache` two refreshes overlap while a third call waits,
and an RPC lasts as long as the TTL. The safety properties are proved for any number of calls;
those of Verifier were also checked once with three (1.3 million states).

In `Gossip` three hosts are the fewest in which one passes on what it knows of another, and a window of two periods lets a host
be down for less and for more; only the third host crashes, by symmetry. The run has one
fault; with two, so that a crash and a lost push combine, it was checked once (2.1 million
states). In `ShareStore` two
sessions, two epochs and two mishaps let two stores overlap and a crash hit one of them
after a failed write; a second identity and a second master are what the checks compare
with.

Fairness (`Fairness` in `Reshare`): each background task keeps running, gossip
between running nodes gets through again and again, a barrier that cannot be met
times out, and a dead process is restarted. `Assemble` and `WatchCatchUp` with all
discovered peers are strongly fair, since a running peer is live again after each
gossip round (30 s, window 90 s). Faults are never fair.

LiveRejoin. An attempt that fails uses up a session id, so Rejoins is stated for
behaviours that do not run out of them (`SessionsLeft`), and the ids are taken in order. With
two nodes the state space holds a lost message in a genesis or a recovery, a crash, and the
attempts after them; three nodes have 781 thousand states without any loss, which is out of
reach for a liveness check. Two nodes with threshold 1 still have a dealer and a
recovered node, all members needed for a genesis, and the majority gate. `LinesUp`
is the one assumption that is not fairness of a step: a genesis needs all members in one
60 s window, and without clocks two members can abandon it in turns for ever. In the code a
member waits for DKG_ROUND_TIMEOUT (60 s) and pauses 10 s between attempts (init.rs:917-922),
so that windows overlap; TLC finds the endless alternation when the assumption is dropped.

In `Derive` every call ends, by its reply or by the 2 s and 3 s timeouts. In
`Verifier` time passes, every request to scan ends (REQUEST_TIMEOUT), and the tokio
mutex is first come, first served, hence strong fairness of `Acquire`.
In `Gossip` every node does its rounds and time passes (`start_gossip_task` loops for
ever), and a dead process is restarted; pushes between running nodes fail at most
`MaxFaults` times. `ShareStore` and `NodeListCache` have no liveness properties.

## Proofs

All proofs hold for every value of the constants: any committee, threshold, number
of sessions, attempts and calls, and any durations.

- `ReshareProofs`: `TypeCorrect`, `KeyAlwaysMatches`, `MasterNeverChanges` and
  `GenesisNeverOverHolders`, from the inductive invariant `IInv`. The property
  KeyMatchesShare alone is not inductive: a node inside `store_share` is about to write
  a key that must already agree with its other sessions. `IInv` adds that a share
  comes from a full session whose master no longer changes, that a node without a
  share is in at most one session, that it has a key only between the two writes of
  that session (`KeyWithShare`), and which roles members have.
- `ReshareGuardProofs`: `GarbageNeverStored` (a dealer of a mixed session has a
  group pubkey of an older session, which differs from the garbage) and
  `ReshareQuorums` (every reshare has a majority, and two majorities meet), and
  `AlertAlwaysMeansStuck`: at a node that is not itself a leading holder, the leading
  holders are exactly the dealers of a recovery, so the line max(threshold, n/2) and the
  two gates of `run_reshare_recovery` agree.
- `ReshareProofs`, epochs: `EpochsNeverSkipped` from `EInv`: a share carries the
  epoch of its session, and an epoch in a peer table is one under which a session has
  completed, so known_epoch + 1 follows a completed epoch however old the rumour is.
  `MonotonicOneByOne` says when the epoch of a share cannot go back: as long as no
  node is past the start of two sessions at once (`OneSessionEach`). The code has no such
  guard, which is what run EpochMonotonic shows.
- `ReshareGuardProofs`, the ledger: `MasterLedgerKept`, the refinement of `MasterLedger`,
  from `LInv`. A recovery over several polynomials gives a share of a stray master to the
  one member that was no dealer (`GarbageStays`). A later session over that share would
  have it from all its dealers (`BaseIsDealt`), and there are two of them
  (`ReshareShape`); so every other complete session has the master of a genesis
  (`MasterMadeOrGarbage`). The theorem assumes `RecoveryThreshold >= 2`, that is a threshold
  of at least two or four nodes: a recovery with a single dealer could copy a stray master.
- `ReshareGuardProofs`, one master: `OnlyMixingSplits`, from `UInv`: without a complete
  session over several polynomials, every complete session has the master of a genesis.
  It names what must have happened when run OneMaster goes wrong, with no condition on the
  threshold.
- `DkgProofs`: `SessionAgreement` and `DriverKeepsPromise`, the refinement of
  `SessionOutcome`. The heart is `NoCrossing`: two attempts cannot each have used a
  later attempt of the other.
- `VerifierProofs`: `SingleFlightAlways` and `AllowedOnlyOnVerdict`, from `VInv`. The lock
  alone does not give single flight, since two locks for one key can exist. What
  does: a lock leaves the map only after its call has written a decision to the
  cache, in a step that takes no time, so whoever still queues on the old lock
  finds the cache decided and does not fetch (`Orphans`, `AskingUndecided`).
  `NobodyQueuesInVain` adds that a lock is owned only by a call that works under it
  (`OwnersWork`) and that nobody sleeps past its deadline (`SleepsInTime`).
- `NodeListProofs`: `RemovalAlwaysEnforced`, `ReRegisteredAdmitted` and
  `ForcedRefreshesRare`, from `NInv`: a stored list was true on the chain no longer ago
  than its age and one RPC (`ListBacked`), and the end of a forced refresh stays
  visible in the entry, in one of its two stamps (`ForcedRemembered`).
- `DeriveProofs`: `NeverFallsShort`, from `DInv`: a bucket has one
  partial per node, and a healthy node whose call is over is in some bucket. With two
  epochs, two buckets below the threshold hold at most 2t - 2 healthy nodes, one fewer than
  there are. The theorem assumes two epochs (`MaxEpoch \in {0, 1}`); with three it is false.
  `RInv` adds that partials are on the branch of their node and that healthy peers keep a
  share; it gives `NoFalseAlarm`. `WorkAlwaysShrinks` is the variant of the collection: as every
  call ends, it is why a derivation ends, and `KeyIsTheAnswer` says with what.
- `GossipProofs`: `DeadAlwaysExpires` and `EpochsAlwaysHeld`, from `GInv`: an entry of a dead
  host is at least as old as its death, in every table, since a relayed entry never makes
  one younger; and what a round announces was its node's own epoch.
- `ShareStoreProofs`: `FileAlwaysCurrent`, `RestartAlwaysKeepsShare` and
  `BaselineAlwaysHonest`, from `SInv`: what a session has persisted at each of its steps
  (`Filed`), that a session that is alone has the `.tmp` for itself (`Alone`), what a crash
  leaves behind (`Left`), and that the baseline is the first master recorded (`Anchored`).
- The type invariants of `Dkg`, `Verifier`, `Derive`, `Gossip` and `ShareStore` are theorems as
  well (`DkgTypeCorrect`, `VerifierTypeCorrect`, `DeriveTypeCorrect`, `GossipTypeCorrect`,
  `StoreTypeCorrect`).

Assumptions: `ThresholdAssumption` (1 <= threshold <= n, n finite),
`SentinelAssumption`, `RoundAssumption`, `NoneAssumption`, `DurationAssumption`,
`TimeAssumption`, `EntryAssumption`, `DeriveAssumption`, `GossipAssumption`,
`StoreAssumption` and `BlobAssumption`. Liveness stays with TLC, since fairness is out of
the prover's reach: Rejoins, Served, EveryCallReturns, Discovered and ViewsCatchUp. Of
Served and EveryCallReturns the parts that need no fairness are proved. QuorumsOverlap is only proved: in a
committee of three with threshold 2 every reshare has all nodes.

## Not modelled

What is left out, and why:

- `auth.rs`: a timestamp window, a signature recovery and a lookup in the nodeList
  cache, without state between requests. The lookup is `NodeListCache`.
- `crypto.rs`: pure functions over curve points and bytes. The models represent a
  share by its polynomial and a signature by its master; what the functions compute is
  algebra that a model would only restate.
- `tee.rs`, `config.rs`, `error.rs`, `main.rs` apart from the start order: I/O or parsing
  at boot, and tables of codes.
- `metrics.rs` apart from the baseline, the alert line and the fork report: counters
  and text. `server.rs` apart from the endpoints named above: parsing and rendering.
- `verifier.rs` apart from `require_verified`: construction of the client, TLS pinning
  and the parsing of answers. `get_app_owner` in `chain.rs` is one uncached call.
- The bytes of the sealed envelope, the wire format, generated and vendored code.
- The legacy shard assignment (`init_start_node`, `pending_shards`), which has no caller.
- Wall-clock races of retries (60 s barriers against 10 s delays), and session ids
  that would collide within one second.

PROJECT.json lists every part with its reason.
