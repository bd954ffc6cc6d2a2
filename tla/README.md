# KRISTA node: TLA+ specifications

These modules specify parts of the KRISTA node in `src/`: what their state is,
which steps the code can take, and what must hold whatever the order of those
steps. TLC checks them on small instances; TLAPS proves some of the results for
every value of the constants.

KRISTA is a Bitcoin/PIVX-derived chain. Blocks are made by ADAM: the chain state
elects miners and a coordinator, with a rotation of fallback coordinators
(PoBLS) when the elected one is silent. A block then needs the signatures of a
majority of an elected quorum (LLMQ) of masternodes. Who can be elected is
recorded on the chain itself, in a registry that every node derives from the
blocks it connects. Two nodes that derive different registries elect different
quorums and no longer agree, which is why so much below is about state that must
be a function of the active chain.

## 1. Inventory

| Part (code) | State | Operations | What makes it hard | Module |
|---|---|---|---|---|
| Quorum signing (`llmq.cpp`, `main.cpp` PROPOSEBLOCK/QUORUMSIGSHARE, `miner.cpp` CreateNewBlock) | guard map per parent, share cache, seen proposals, polling job | propose, poll, release, handle proposal, handle share | rival coordinators, lost messages, retries, restarts, bounded caches | `QuorumSigning` |
| Block index and chain selection (`main.cpp`) | `mapBlockIndex` flags, candidates, unlinked blocks, tip, dirty set, databases | accept, select, connect, disconnect, invalidate, reconsider, flush, load | `cs_main` released between steps, failures half-way, crashes between two writes, equal work | `ChainSelection` |
| Masternode registry (`adam.cpp`, hooks in `main.cpp`) | heights, last height and collateral per key, delegations with history | register on connect, revert on disconnect, save, load, verify | undo without an undo log, windows and caps, state saved with another block's tag | `MasternodeRegistry` |
| Coin views (`coins.cpp`, `txdb.cpp`) | two caches with flags over a database | fetch, add, spend, flush, uncache, batch write | flags that say something about another layer | `CoinsCache`, `CoinsMap` |
| ADAM election (`adam.cpp`) | miner-pool caches, static bootstrap keys | pool, selection, reset on connect and disconnect | caches that outlive a reorganisation | `MinerPool` |
| Burn weights (`kernel.cpp`, hooks in `main.cpp`) | burns per address, saved copy with a block hash | count, remove, save, load and scan | edited burn by burn, saved in the middle of a block | `BurnCache` |
| Block download, compact blocks, future-block queue (`main.cpp`) | blocks in flight, lists and counters per peer, partial blocks, `mapFutureBlocks` | request, receive, defer, release, time out, disconnect | late answers, stalling peers, caps, take-out and processing are not atomic | `BlockRelay` |
| Sporks (`spork.cpp`, `sporkdb.cpp`) | newest message per spork, all messages, database | receive, sign, announce, ask, load | check and store under two locks, unsaved updates, gossip | `SporkManager` |
| Check queue (`checkqueue.h`) | queue, counters, two condition variables | add, loop, wait | lost wake-ups, results merged late | `CheckQueue` |
| ADAM solutions, mempool, scheduler, masternode list, payments and sync | | | | not modelled, see section 7 |
| Validation rules, kernels, difficulty | none beyond the chain | pure checks | data, not control | verdicts are constants |
| Peers, wallet, scripts and MESCAL, RPC and HTTP, start-up, cryptography | — | — | I/O or data | not modelled |

Interactions: blocks arrive through the relay, which asks peers for them and
holds back those that are too new; a certified block of quorum signing and a
relayed one are both handed to chain selection (`Adopt`, `ProcessNewBlock` and
`Accept` stand for it); chain selection connects and disconnects blocks, which
has their scripts checked by the queue and edits a scratch coin view, the
registry and the burn weights; the flush writes block index, burns, registry and
coins one after the other; the registry and the coins decide the miner pool, the
pool and the registry decide the next election and quorum. The modules meet at these
points through constants: `QuorumSigning` takes the quorum of each parent as
given, `MasternodeRegistry`, `BurnCache` and `MinerPool` take a tree of blocks
and let the tip move on it, `CoinsCache` lets its scratch view be flushed or
dropped at any time, `MinerPool` takes the registry to follow the chain (which is
what `RegistryFollowsChain` says).

`PROJECT.json` lists every part with its status, and every hazard with the line
where it bites and the properties that cover it.

## 2. Modules

### QuorumSigning

One node per `Node`, each with its tip, index and caches; `job` is the polling
loop of the `CreateNewBlock` call that builds a block. Messages are a set, so
they may be reordered, delayed and (with `Lose`) lost, and a node relays them to
its peers as the handlers do.

| Action | Code |
|---|---|
| `Propose`, `Poll`, `Release` | `CreateNewBlock`: own signatures, broadcast, 100 ms loop with one re-broadcast, release or give up |
| `ProposalSeen`, `ProposalUnknownParent`, `ProposalNew` | the branches of the PROPOSEBLOCK handler |
| `ReceiveShare` | the QUORUMSIGSHARE handler |
| `Allowed`, `GuardAfter`, `Cleaned` | `AllowQuorumSignature` |
| `Adopt` | a certified block becomes the tip; includes the pruning in `ConnectTip` |
| `Restart` | every in-memory map is empty again |

Assumptions: signatures cannot be forged; a coordinator key belongs to one node;
the wall clock is common and does not go back; proposals that fail the validity
checks of the handler change no state modelled here.

### ChainSelection

One node, several threads. `at` says where a thread is in `ActivateBestChain`;
`lock` is `cs_main`, which is free between two activation steps only. `disk` and
`diskTip` are the two databases; the flush writes the first before the second,
and a disconnection can be cut between the two (`DisconnectWriteIndex`).

| Action | Code |
|---|---|
| `AcceptKnown`, `AcceptInvalid`, `AcceptHeaderOnly`, `AcceptStored` | the outcomes of `AcceptBlock`, with `ReceivedBlockTransactions` |
| `Discard`, `Select` | the two outcomes of a round of `FindMostWorkChain` |
| `DisconnectTip`, `ConnectTip`, `ConnectInvalid` | the body of `ActivateBestChainStep` |
| `LoopCheck` | the test that ends the loop |
| `InvalidateBlock`, `InvalidateDone`, `ReconsiderBlock` | the RPC commands |
| `Restart` | crash, then `LoadBlockIndexDB` and the first activation |

Left out: `AbortNode` on I/O errors, `CorruptionPossible`, `pindexBestHeader`,
pruning (disabled) and automatic checkpoints (the branch is unreachable). The
verdicts of the validation rules are the constants `BadContext` and `BadConnect`.

### MasternodeRegistry

One node on a tree of blocks whose content (`Content`) is chosen at the start.
`Replayed[t]`, the registry of a node that only ever connected the chain of `t`,
is the reference every property compares with.

| Definition | Code |
|---|---|
| `Registered`, `Apply`, `Ping`, `Delegate` | `RegisterBlockMasternodeActivity` and what it calls |
| `Disconnected`: `WithoutHeight`, then `PingsReverted` (`Reverted`), then `AllRecovered` (`Recovered`) | the registry part of `DisconnectBlock`: its three loops, the last with the scan for earlier activity |
| `ConnectBlock`, `ConnectFlush`, `ConnectTip` and their counterparts | the order of edit, flush and tip update |
| `Flush`, `Loaded`, `Restart`, `VerifyDB` (`Unwound`) | saving, start-up and its verification |

The loops of the code over transactions, keys and blocks are functions `after` on
`0 .. n`, where `after[i]` is the registry once `i` of `n` are done.

Left out: pinned BLS keys, blocks before the activation height, LevelDB's own
syncing. Quorum signatures in a block are treated as the heartbeats they cause.
`verifychain` over RPC has the effect of `VerifyDB`, which is modelled at
start-up only.

### CoinsCache and CoinsMap

`CoinsMap` is what the views promise: one map, edited in a scratch copy,
committed or dropped as a whole, made durable as a whole. `CoinsCache` has the
three layers and their flags; its actions are the operations of
`CCoinsViewCache` and `CCoinsViewDB` as the callers in `main.cpp` use them.
`ImplementsMap` maps `cur` to what the scratch view answers, `committed` to what
`pcoinsTip` answers with its best block, and `durable` to the database.

Assumptions: a write batch is atomic; transaction ids are unique and blocks are
undone in reverse order, so a coin is added only where there is none (the code
throws otherwise). Flushes and look-ups of `pcoinsTip` may happen while the
scratch view exists, which is more than `cs_main` allows.

### CheckQueue

One master, which is the thread in `ConnectBlock`, and the worker threads. One
critical section is one action; a check runs outside (`Work`), with its result
merged in the next section (`Merge`). A thread that waits may be woken by
nobody (`Spurious`). Workers are interrupted at shutdown, the master when mining
is switched off; its control object then waits again as it unwinds. The order
of checks in the queue is left open, so a batch is any set of the right size.

### BurnCache

One node on a tree of blocks with burns. `BeginConnect`, `CountBurn`, `Reject`,
`ConnectTip` and `BeginDisconnect`, `UncountBurn`, `FlushIndex`, `FlushCoins`,
`UpdateTip` follow a block through `ConnectTip` and `DisconnectTip`; every burn
is one step, with the save that follows it. `Restart` is a crash followed by
`InitializeBurnCache`: load what was saved with a known block, then scan the
blocks from there to the tip. `VerifyDB` is the RPC command. The reference is the
weight counted from the blocks of the active chain. `-txindex` is assumed on:
without it the code cannot name the address of a burn.

### MinerPool

`GetAdamMinerPool` is a function of the caches that returns the pool and the new
caches; `SelectAdamNodes` elects from it. Every place that asks is an action:
queries at any height (`AskPool`), for any known block (`AskElection`), and the
ones made while a block is checked and connected; `DisconnectBlock` clears what
the code clears. The reference is the same computation with empty caches. The
ranking hash is the constant `Rank`. Reads of stored blocks are assumed to
succeed.

### BlockRelay

One node and its peers. The message thread handles what peers send
(`Announce`, `ReceiveBlock`, `ReceiveCompact`, `ReceiveTransactions`), asks for
blocks (`SendMessages`), gives up on a peer (`TimeOut`) and releases deferred
blocks in two steps, `TakeDue` under the lock and `ProcessFuture` after it. The
socket thread finalizes peers and other threads submit blocks at any moment.
Left out: the HEADERS handlers (`HeadersFirstSyncingActive()` is false on every
network), the rate limit of `ProcessFutureBlocks`, `mapBlockSource`, the filter
against block spam, the early return for a bad stake signature. A peer's list of
blocks in flight is kept as a set with its counter beside it, since the order
only decides whose timer runs and a time-out may come at any time. The clock does
not go back.

### SporkManager

A network: each node has its memory, its database and a message thread whose
position in `ProcessSpork` is `at` (checked, stored, written). `UpdateSpork` is
the operator's RPC: it announces, and stores in a step of its own
(`StoreUpdate`). Messages are a set, so they may be reordered; `Disconnect` loses
those under way. `Handle` is whatever message comes next. A stray is a message
with a bad signature. Left out: the extra GETSPORKS of masternode sync, the ban
of a peer that sent a stray, the key windows (all zero in `chainparams.cpp`).
The clock is common and an operator gives one command at a time.

## 3. Runs

Each run is `tlc -config <cfg> <module>`. Deadlock checking is off where the
system may stop: all blocks proposed or stored, a bound used up, a network at
rest. The coin views and the burn cache never stop. `TypeOK` of each module says
what its variables hold; it is an invariant of a run where it also states limits
(`BlockRelay`), and proved for quorum signing, chain selection, the registry, the coin views, the
check queue and the relay.

### Passing

| Run | Instance | What it shows |
|---|---|---|
| `quorum_safety` | two rival coordinators, a fork and an extension, all caches and the guard at size one, a restart | signatures of one key on one parent are a window apart whatever is evicted, cleaned up or pruned; certificates hold only genuine shares; rival certificates need a member that signed twice |
| `quorum_timely` | one coordinator, one remote member, a relay, two losses | with timely delivery the one re-broadcast is enough |
| `chain_threads` | a block and a rival branch of three, two fair threads, a block that fails to connect half-way through a reorganisation, a header without data, a crash anywhere | links, candidates and tip are right whenever they must be, what is on disk can be reloaded, the tip does not depend on the order of arrival, and the node settles on the best valid one |
| `chain_operator` | a branch of two blocks and two rivals of its first block, one valid and one invalid, which may come too late for `-maxreorg`; one invalidation and one reconsideration at any moment, two threads | the active chain stays usable and nothing better is left behind |
| `registry_reorg` | three keys, one collateral, every content of the first blocks of two branches, a stop or crash between blocks | the registry follows the chain through any reorganisation, every height in it is one of the chain, a collateral has one key, and a loaded registry is that of the chain |
| `coins_cache` | two outpoints, two coins, three blocks | flags are truthful, edits exact, the stack is a map |
| `check_queue` | two workers, a master, three checks of which some fail, batches of two, interruptions | counters and verdict are exact, the queue is idle when a block starts, and the master always gets its answer |
| `burn_cache` | two branches with burns, decay within the chain, a refused block, two crashes at any step | weights are those of the active chain, in memory and after any restart |
| `miner_pool` | two branches with registrations, a spent lock, heartbeats and fund spends, a cache of three pools | an election does not depend on what was asked or connected before, and always names enough miners |
| `block_relay` | two peers, headers without blocks, blocks that are too new, queue and partial map at size one | the books on blocks in flight agree, a stored block flies no more, the block that is due first arrives, no request waits for ever |
| `spork_network` | signer, relay and leaf in a line, two updates, a restart of the leaf or a lost connection, a stray | only signed sporks are kept, none gives way to an older one, what was served is saved, all nodes agree in the end |

### Violation

`burn_refused` checks what a comment in `ConnectBlock` says, "Nothing before this
point should actually store to disk (or even memory)" (`main.cpp:2723`). TLC
finds a block that is refused after one of its burns was counted and saved; no
one takes the burn out again. The finding in `PROJECT.json` has the details.

### What the passing instances leave out

Some passing properties hold because their instance or their statement leaves a
case out. Where a change of a configuration is named, TLC reaches the case with it:

- `GuardWindowRespected` compares signatures of one run of a node. The guard is
  kept in memory (`llmq.cpp:405`), so across a restart there is no window. Once
  the window is over a member does sign a competing block, although a comment at
  `main.cpp:7151` says "never". The guard is keyed by parent and not by rotation
  slot: two proposals of one coordinator 12 s apart are both signed in one slot,
  although `README.md:101` says "each member signs at most one `PROPOSEBLOCK` per
  `(height, rotationIndex)` slot".
- `CandidatesSettled` speaks of a node at rest. After a reorganisation that fails
  half-way `cs_main` is released with a tip outside the
  candidate set, where `CheckBlockIndex` in another thread would object.
- `CandidateLeft` under a crash assumes no invalidation is under way: with
  `MaxCrash = 1` in `MCChainOperator.cfg` a crash between the two writes
  reloads a failed tip and no candidate, and `ActiveChainUsable` fails with it.
  Under `reconsiderblock` it depends on what is reconsidered: with
  `BadContext = {}`, `BadConnect = {a2}` no candidate is left either.
- No property says that failed marks have a cause. After `reconsiderblock` they
  need not: reconsidering one child of an invalidated block clears the parent's
  mark and leaves the sibling marked (`main.cpp:3483`), where `CheckBlockIndex`
  asserts that "the failed mask cannot be set for blocks without invalid parents"
  (`main.cpp:5322`). `BestTip` passes over the sibling.
- `BestTip` under `reconsiderblock` assumes that a reconsidered block with an
  invalid ancestor has its data: with `b2` on `a1` in `SplitParent`,
  reconsidering the invalid `b2` clears its parent's mark without making the
  parent a candidate. `CandidatesSettled`, which `chain_operator` does not check,
  fails there even with `BadContext = {}`.
- `RegistryFollowsChain` speaks of a node that has not been started again:
  start-up loads the registry and then runs `VerifyDB`, which reverts the registry with the blocks it disconnects, while `ConnectBlock` skips
  the registration as long as `fVerifyingBlocks` is set (`main.cpp:2778`). And
  each key stays with one collateral: with `Coll = {c1, c2}` and
  `Content <- MoveContent` a key keeps its new collateral after the block that
  moved it is gone (`main.cpp:2317`). With `Miners = {k1}`
  a heartbeat made before its key was bound counts when it is recovered and not
  when it is connected. With `Window = 1` a ping exactly a window old is not
  recovered; with `Window = 2` the branches are too short for that.
- `LoadFollowsChain` assumes that a stop falls between two blocks: with
  `TornFlush = TRUE` a crash inside the flush loads the registry of another block.
  `HeightsOnChain` and `OneKeyPerCollateral` hold there too (section 4).
- `WeightFollowsChain` and `SavedBurnsReload`: the refused block fails before any
  of its burns (`MCFailsLate` is the other case, see `burn_refused`); `verifychain`
  runs at level 4 only (with `Levels = {3}` burns are taken out and not put back);
  `TornFlush = TRUE`, a crash between the two writes of a disconnection's flush,
  loses the burns of that block; and burns that ran out are dropped at start-up,
  so that they would be missing if three or more blocks were then undone.
- `AnswersFollowChain`: with `OfflineSync = TRUE` a query in the middle of a block
  (`main.cpp:2586`) caches a pool under the parent's hash. With
  `LastBootstrap = 2` and `AdamHeight = 3` a reorganisation of bootstrap blocks
  leaves their keys in the static set (`adam.cpp:826`); the real heights are 199
  and 200. With `PoolCacheCap = 1` the election of a block puts the tip's pool in
  as the entry that exceeds the cap; the quorum query of the same block then drops
  the cache (`adam.cpp:839`) and keeps, under the tip's hash, a pool without the
  coins that the block has spent so far. If the block was only tested, or is refused,
  the next election on that tip uses it.
- `FlightExact` says that `nQueuedValidatedHeaders` is at least the number of
  validated blocks in flight. It is not exact, although a comment at
  `main.cpp:261` says so: `FinalizeNode` does not take the peer's blocks off.
- `EarliestDeferredArrives` is about the queue of the BLOCK handler. The
  compact-block paths do not defer, although `doc/Future_Blocks_Queue.md` says that
  blocks rejected as too new are queued. A duplicate of a queued block evicts
  another entry at the cap without need (`main.cpp:6381`).
- `NothingFliesForever` ends some flights by a time-out that another design would
  not need: the BLOCK handler drops a block whose header it knows
  (`main.cpp:6372`), so a block known by its header only is asked for and then
  ignored.
- `Agreement` assumes that no announcement was lost to a disconnection, that no
  request overtook `UpdateSpork` between its announcement and its store
  (`spork.cpp:194`), and that no two messages carry one second (`spork.cpp:136`).
  It fails with `Restartable = {a}` (a restarted node asks the first peer only,
  `main.cpp:5926`, which may know less than it did), with `Restartable = {s}` (a
  signer that signs before its peer's VERSION is handled announces to nobody) and
  with `Signer = {s, b}` (a signer's own newer update is overwritten between the
  check and the store of an older message, `spork.cpp:128` to `171`). `NeverOlder`
  and `SavedBeforeServed` are about nodes that do not sign: `UpdateSpork` never
  writes to the database.

### Bounds

Time is counted in units: windows of 12, 30 and 3600 s become 1, 2 and 2, which
keeps their order; `MaxTime` is the longest window plus one in the run that
needs a full clean-up, and one window otherwise. Caps (1000, 500, 64, 50, 16)
become 1 or 2 where a run is about them, so that they are reached, and 5 where
it is not. In the registry, `Window` 2, `HistoryCap` 2 and `MaxHeights` 2 on
branches of up to four blocks let windows run out and caps evict. The trees
have an equal-work tie, a reorganisation that fails at its second block and a
branch of two blocks to disconnect; with one block more the two runs pass too
(85,303 states on branches of two and three blocks, 744,217 on a branch that
splits). Two coins, two outpoints and three layers reach every combination of flags (35,217
states).

Two workers and a master with three checks in batches of two let a batch be
merged after the queue is empty. `Decay` 2 on branches of four blocks lets burns
run out before and after a start. The miner pool's windows are 2 for the same
reason and its cache holds three pools, fewer than a chain has blocks. In the
relay, caps of one and a window of one make every queue full and every peer a
possible staller; a larger instance, with a cap of two and another block that is
too new, passes too (887,724 states) and takes ten minutes. The spork network is the
smallest in which a message is relayed; one fault and two updates
let a crash or a disconnection fall between any two steps of an update. The stray
reaches the relaying node.

### Fairness

`TimelySpec`: weak fairness of the polling loop, of the message handler and of
time. The staking and message threads of a running node do run; that time waits
for messages in flight is the assumption under which the re-broadcast is meant
to work, and the run is about nothing else. `FairSpec`: strong fairness of each
thread, since `cs_main` is fought for and a thread may find it taken infinitely
often, and of storing missing blocks, since peers offer a block until the node
has it. With `-maxreorg` below the depth of the fork the node does not converge;
`chain_threads` sets it above.

The other `FairSpec`s: in the check queue, weak fairness of each thread, since the
mutex is held for short, bounded sections; interruptions and spurious wake-ups
are not fair. In the relay, weak fairness of time, of the message thread's
release of deferred blocks (`TakeDue` and `ProcessFuture` are one function) and,
for each peer, of getting rid of it when it owes a block: `TimeOut` by the message
thread, then `FinalizeNode` by the socket thread. Peers owe nothing. In the spork network, weak fairness of
connecting and of the steps inside a handler, and strong fairness of handling a
message, since strays may keep the message thread busy; signing, disconnecting and
crashing are not fair.

## 4. Proofs

| Module | Theorem | Statement |
|---|---|---|
| `QuorumProofs` | `TypeCorrect` | `Spec => []TypeOK` |
| `QuorumProofs` | `GuardWindowsHold` | `Spec => []GuardWindowRespected` |
| `QuorumProofs` | `CertificatesSound` | `Spec => []CertificateSound` |
| `QuorumProofs` | `CompetingCertificates` | `Spec => []CompetingCertificatesApart` |
| `ChainProofs` | `ChainTyped` | `Spec => []TypeOK` |
| `ChainProofs` | `LinksAlwaysExact` | `Spec => []LinksExact` |
| `ChainProofs` | `DiskAlwaysUsable` | `Spec => []DiskUsable` |
| `ChainProofs` | `PruneLeavesGoal` | `Spec =>` no `ConnectTip` empties `cand` |
| `ChainProofs` | `ActiveChainAlwaysUsable` | (1) `=> (Spec => []ActiveChainUsable)` |
| `ChainProofs` | `CandidateAlwaysLeft` | (1), (2) `=> (Spec => []CandidateLeft)` |
| `ChainProofs` | `TipAlwaysBest` | (1), (2) `=> (Spec => []BestTip)` |
| `ChainProofs` | `CandidatesAlwaysSettled` | (1), (2) `=> (Spec => []CandidatesSettled)` |
| `ChainProofs` | `AlwaysOrderIndependent` | (2), (3) `=> (Spec => []OrderIndependent)` |
| `RegistryProofs` | `RegistryTyped` | `Spec => []TypeOK` |
| `RegistryProofs` | `OneKeyAlways` | `Spec => []OneKeyPerCollateral` |
| `RegistryProofs` | `HeightsAlwaysOnChain` | `Spec => []HeightsOnChain` |
| `RegistryProofs` | `ElectionsEarned` | `Spec => []ElectionEarned` |
| `ConnectProofs` | `CoinsTyped` | `CoinsSpec => []CoinsTypeOK` |
| `ConnectProofs` | `FlagsAlwaysTruthful` | `CoinsSpec => []FlagsTruthful` |
| `ConnectProofs` | `FreshNeverMisapplied` | `CoinsSpec => []NeverMisapplied` |
| `ConnectProofs` | `EditsAlwaysExact` | `CoinsSpec => EditsExact` |
| `ConnectProofs` | `CachesImplementMap` | `CoinsSpec => ImplementsMap` |
| `ConnectProofs` | `QueueTyped` | `Spec => []TypeOK` |
| `ConnectProofs` | `CountersAlwaysExact` | `Spec => []CountersExact` |
| `ConnectProofs` | `AlwaysStartsIdle` | `Spec => []StartsIdle` |
| `ConnectProofs` | `VerdictAlwaysExact` | `Spec => []VerdictExact` |
| `MinerPoolProofs` | `PoolAlwaysSound` | `Spec => []PoolInv` |
| `MinerPoolProofs` | `ElectedAlwaysEnough` | (4) `=> (Spec => []ElectedEnough)` |
| `MinerPoolProofs` | `AnswersAlwaysFollowChain` | (4), (5) `=> (Spec => []AnswersFollowChain)` |
| `BurnCacheProofs` | `BurnsAlwaysSound` | (6) `=> (Spec => []BurnInv)` |
| `BurnCacheProofs` | `WeightAlwaysFollowsChain` | (6) `=> (Spec => []WeightFollowsChain)` |
| `BurnCacheProofs` | `SavedBurnsAlwaysReload` | (6) `=> (Spec => []SavedBurnsReload)` |
| `BlockRelayProofs` | `RelayTyped` | `Spec => []TypeOK` |
| `BlockRelayProofs` | `FlightAlwaysExact` | `Spec => []FlightExact` |
| `BlockRelayProofs` | `StallersAlwaysOwe` | `Spec => []StallersOwe` |
| `BlockRelayProofs` | `FlyingAlwaysMissing` | `Spec => []FlyingMissing` |
| `SporkProofs` | `AlwaysSavedBeforeServed` | `Spec => []SavedBeforeServed` |
| `SporkProofs` | `NeverOlderHolds` | `Spec => NeverOlder` |
| `SporkProofs` | `AlwaysOnlySigned` | `Spec => []OnlySigned` |

(1) `MaxInvalidate = 0 \/ MaxCrash = 0`; (2) `MaxReconsider = 0`; (3) `MaxInvalidate = 0`;
(4) `Untouched(b)` for every block `b` that spends from the developer fund (at the
elected heights, for the second theorem); (5) `Trunk` and `LastBootstrap < AdamHeight`;
(6) `Careful`: `TornFlush = FALSE`, `Levels \subseteq {4}` and `FailsAfter[b] = 0` for
every refused block.
The conditions restrict the environment, never the state, and under "What the
passing instances leave out" there is for each how a property fails without it
((3) apart: a command changes which blocks are valid).

**Quorum.** Assumptions: `QuorumAssumption` (the types of the constants, finitely
many members and blocks, distinct hashes, a block one above its parent) and `TimeAssumption`, of which `SameWindow <= GuardWindow <=
StaleAge` is the one that matters: an entry may be dropped only when no window
can still be open. `GuardWindowRespected` is not inductive, because it says
nothing of the guard map. `GuardInv` adds that an entry names a block on
its parent that every eligible key of the node has signed since its last
restart (its epoch); `SignedInv` adds that every
signature of the current epoch is covered by the entry on its parent, or that
the entry is gone and the window over. The guard holds one entry per parent, so
a signature may be covered by the entry of a *later* block: `Covered` states the
distance that has to be left. `ShareInv` (what is cached, in flight or collected
was signed) makes `CertificateSound` inductive. `CompetingCertificatesApart`
follows from both: two majorities of one quorum share a member (by cardinality),
and that member's two signatures are apart or from two epochs.

**Chain selection.** `TreeAssumption`: finitely many blocks, parents that lead back
to the genesis block, work that grows along a chain, distinct hashes. `BaseInv` holds
without any condition. It adds to `LinksExact` and `DiskUsable` who holds `cs_main`
where (`LockInv`), that a step heads for the best candidate and an invalidation for a
marked block (`GoalInv`), and that the databases lag behind memory by dirty entries only
(`DiskInv`); the last is what makes a crash between two writes harmless.
`BestTip` needs two more. `NothingBetter` says that a candidate above the tip has some
thread *busy*, that is, one that will look at the candidates again or has yet to see
that its goal is not the tip. That alone is true of an empty candidate set, so
`AnchorInv` says that there is an *anchor* whenever nothing is being invalidated: a candidate
whose chain no check will refuse, with every unfailed linked block at least as good among the
candidates. A step may discard its own goal, but not the anchor; `InvalidateBlock` may, and
builds a new one (its refill) before it lets go of the lock. A `reconsiderblock` can put back
a block above every anchor without its ancestors, which is why (2) is there; a
crash inside an invalidation reloads a failed tip, which is why (1) is. `MarkInv` (a mark on
a descendant has its reason below it, in memory and on disk) gives `CandidatesSettled`,
and `FailedBad` (without commands, only bad blocks are marked) `OrderIndependent`. That a
set of blocks has a best one, and what holds of whole chains, is proved by looking at a
least counterexample.

**Registry.** `RegistryAssumption`: any tree, whose blocks carry any sequences of pings,
delegations and heartbeats and spend any collaterals; any window, caps, depth of `VerifyDB`
and number of restarts, with a crash allowed inside a flush (`TornFlush`). The
properties are about the time between blocks and are not inductive. `RegInv` says which
chain the registry in memory stands for at each step (`RegTip`: the next block's once
`ConnectBlock` has run, the parent's once `DisconnectBlock` has, before the tip moves),
and that it is in `Sound` of that chain: one key per collateral, the last height among the
heights, and each height that of a block of the chain that names the key. Of the saved
registry it says this up to the height of its *tag* only (`SavedSound`): the flush inside
`ConnectTip` saves the next block's registry under the old tip's name, the one inside
`DisconnectTip` the parent's under the deleted block's, and the start cuts off what is above
the tag and uses the rest only if the tag is on the chain of the coins. `Sound(s)` is a part
of `Sound(t)` when `s` is on the chain of `t` (`SoundLonger`); a registration, a
restore and a rescan keep it because each registers at the height of the block it reads
(`RegisteredSound`, `RestoredSound`), and a disconnection leads to the parent's because the
heights of the block go first (`WithoutTip`) and the scans stay at or below the parent. The loops are
dealt with once each: if every pass of a loop keeps a set, so does the loop (`RegisteredKeeps`,
`RescannedKeeps`, `RevertedKeeps`, `RecoveredKeeps`, `UnwoundKeeps`, all from `Iterate` and
`StaysIn`); the value of a recursive function exists because its steps stay in the set.
Nothing here says that a height is *not missing*: that is `RegistryFollowsChain`.

**Coins.** `ConnectProofs` has the two services `ConnectBlock` calls on, which is why the
names of `CoinsCache` are told from those of `CheckQueue`. Assumptions: `CoinsAssumption` and `NoEntryAssumption`, which say
only that the special values are not coins, blocks or entries. The inductive
invariant is `CoinsTypeOK /\ FlagsTruthful`: an entry without DIRTY equals the coin
below it, and an entry with FRESH has no unspent coin below. It is inductive as
it stands because it speaks of *both* caches, each relative to what the layer
below answers rather than to what it stores: a flush of `pcoinsTip` moves coins
between layers and leaves every answer unchanged. Each step lemma says that the
step keeps the invariant and what it does to the answers of the two views; the
refinement, `EditsExact` and `NeverMisapplied` follow from those lemmas. The
refinement alone would not notice an edit that is lost, since the map may
stutter; `EditsExact` does.

**Check queue.** `QueueAssumption`: finitely many threads and checks, and the types
of the constants. Neither the counters nor the verdict are inductive alone. `Apart` says
that a check is in one place, which makes counting them additive; `Placed` ties
a thread's batch to its position; `Judged` says that a failing check of this
block is still to be seen by somebody (in the queue, in a batch that is being
run, in a result not merged yet) or already in `fAllOk`, and that without a
failing check no result is bad; `Done` says what the master leaves behind. With
them one critical section changes each counter by what it changes in the sets.
No bound on workers or checks is used.

**Miner pool.** `PoolAssumption` (types, finitely many blocks and keys, a threshold
of at least 1 and at most `MinersCount`, as 5, 7 or 3 of 11 in `consensus/params.h`,
and no two keys with one rank) and `TreeAssumption`. `Untouched(b)` says that the
quorum query in the middle of `b` finds the pool `b` started from: what was spent
before it entitled no key, or the election of `b` has cached the pool and the chain is
shorter than the cap. `Trunk` says that no height up to `LastBootstrap` has two blocks.
`PoolInv` holds without either: the cache has pools of blocks of the active chain only,
unless `moved` is set, in which case it is dropped before it is used; its pool of the
*tip* is made of what the tip's chain entitles; on a trunk the static set of
bootstrap miners is exactly the producers up to the height scanned; the kept election
is that of its key; and the last answer is the election in its pool. The other
cached pools may well be of other coins: no election asks for them, because a block becomes the
tip either by being connected, when the cache cannot have it, or by a disconnection, which
drops the cache. The size of an election is a fact about rankings, `RankedSize`:
the keys before a key are fewer than those before a later one, an injection, and the keys
before the first one left out are all taken.

**Burn cache.** `BurnAssumption` (types, a genesis block without burns, a decay of
at least one block) and `TreeAssumption`; any tree, lists of burns, decay and number of
crashes. The two properties compare weights and are not inductive. `BurnInv`
compares counts: `MemorySound` says what the cache in memory holds at each step, down to
the floor of the last start: the chain of the tip and the burns of the new block
counted so far (`Connecting`), or the chain without the burns already taken out
(`Disconnecting`; one removal takes out all burns that are alike, so this is not a
count of the burns left). `CoinsBehind` says that the coins are at a block of the
active chain and that the cache was saved just before they move. `DiskSound` says that the saved
cache is right up to the height of its block *if* that block is on the chain of the
coins: the cache saved in the middle of a connection carries the hash of a block
the coins do not have yet, so the next start scans afresh; one saved in the middle of
a disconnection carries the hash of the parent, and the start drops what is above it. The
argument needs two facts about a chain only, that it has one block of each height
(`ChainHeights`) and that it agrees with the chain of each of its blocks up to that
block (`ChainPrefix`): an entry has the height of its block, so a count is that
of one block. Two caches with equal counts down to the oldest burn that still has
weight give equal sums, whatever the sum is (`MatchesWeight`).

**Block relay.** `RelayAssumption` and `TreeAssumption`, which hold the types of the constants and what
`Height` and `Chain` are on a tree. `Books` is
the conjunction of the typing of the download books, `FlightExact`, `StallersOwe`
and `FlyingMissing`: none of the three is inductive without the others, since
`MarkBlockAsReceived` finds the peer through the map and clears that peer's
staller mark. That a stored block is not in flight rests on two facts of the
code: only missing blocks are asked for, and `ProcessNewBlock` ends the flight in
the critical section in which it stores. `Limits` adds the rest of `TypeOK`: that
`FindNextBlocksToDownload` returns at most what the limit per peer leaves, and that
the future queue and the partial map evict before they insert, and that the queue
holds only blocks that were too new (`Deferrable`), which is why
`EarliestDeferredArrives` need not speak of others.

**Sporks.** `SporkAssumption`, which holds the types of the constants. `Order` adds
to `SavedBeforeServed` what each position in `ProcessSpork` implies (`Steps`):
between check and store the message is newer than what memory holds, between
store and write memory is one message ahead of the disk, otherwise both agree,
and everything in `mapSporks` is at most as new as what memory holds. Since the
message thread is the only writer on a node that does not sign, `NeverOlder`
follows from the first, and `SavedBeforeServed` from the thread being busy until
it has written. `Trusted` adds `OnlySigned` and that every message in flight or in
hand came from a signer or is a stray that the signature check refuses.

Only model-checked: `RegistryFollowsChain` and `LoadFollowsChain`, which do not hold of
every `Content` (section 3 says for which they fail, and in what way), `BestTip` and
`CandidateLeft` where blocks are reconsidered, and the liveness properties
`ProposalRecovers`, `Converges`, `WaitReturns`, `EarliestDeferredArrives`,
`NothingFliesForever` and `Agreement`, which are beyond the proof system here (fairness and
ENABLED). What a recursion computes for every input would need induction with an
operator as parameter, which the provers cannot instantiate; where only an invariant of it
is needed, it is proved from a least counterexample (the registry's loops, facts about
all blocks). The recursion over the tree of blocks (`Height`, `Chain`) is a constant whose
equations are assumptions that TLC evaluates.

## 5. Mutants

For every property of every passing run, `PROJECT.json` names a changed
definition that breaks it: a window that is too short, a threshold off by one, a
scan that is skipped, a flag copied upwards, a spent coin left in the database.
They are the operators placed just before the definition they replace.

## 6. How the runs were chosen

A run asks one question. Instances that ask the same question of one module are
one run with the harder instance (rival and forked quorums; threads and crashes
of chain selection). Cases in which a property does not hold are listed in
section 3 with the change of a configuration that shows them.

## 7. Not modelled

- **Mempool and orphan transactions** (`txmempool.cpp`): totals over ancestors and
  descendants are sums of fees and sizes over real transaction graphs.
- **ADAM solutions** (`main.cpp` ADAMSOL): two capped maps of hashes; a solution
  that is lost or evicted is sent again and only feeds the next template.
- **Scheduler** (`scheduler.cpp`): it runs two periodic tasks (dumping addresses,
  DNS seeds), on which no chain state depends.
- **Masternode list and sync** (`masternode*.cpp`, `activemasternode*.cpp`):
  off-chain announcements. Elections use the on-chain registry.
- **Masternode payments** (`masternode-payments.cpp`): `ProcessBlock` and
  `IsTransactionValid` have no callers in this tree; the tallies only feed the
  payee rotation before Model D.
- **Validation rules, kernels and difficulty**: functions of a block and its
  chain; their verdicts are the constants `BadContext`, `BadConnect`, `Bad`, `Marked`
  and `Unmarked`.
- **Peers, wallet, scripts and MESCAL, RPC and HTTP, cryptography**: I/O or data.
  What other parts need of them (lost connections, unforgeable signatures, atomic
  write batches) is in the modules.
- **One composed flush**: index, burns, registry and coins are written by one
  `FlushStateToDisk`. Each module has the order of its own write against the
  coins, with crashes in between; their product is out of TLC's reach, and no
  property relates two of the written parts except through the tip.
