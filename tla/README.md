# The core of a FACT0RN node, in TLA+

FACT0RN is a fork of Bitcoin Core 22 whose proof of work is the factoring of
integers. Its own addition to the ledger is the *deadpool*: an output (an
*entry*) that holds a reward for whoever factors a given integer N. A solution
must first be *announced* by an output that burns some value and commits to the
hash of the claim; only after a number of blocks, and within a window, may the
entry be spent by the *claim* itself.

This directory holds TLA+ models of the parts of the node that decide which
chain is active, what coins it leaves, which claims are allowed and what goes
into a block, and of the concurrent machinery around them; TLC instances that
check them; and TLAPS proofs.

## The system

| Part | State | What is hard about it | Module |
|---|---|---|---|
| Chain state (`validation.cpp`, `txdb.cpp`) | block index, `m_chain`, coins, coins database with its heads | crashes between the batches of a flush; exact undo in reorganizations | `Chainstate` |
| Announcement database (`deadpool/`) | rows (entry, locator) -> (height, claim) | written with every block, while coins wait for a flush | `AnnounceDB`, `Deadpool` |
| Chain selection (`validation.cpp`) | flags of the block index, candidates, waiting and failed blocks | two locks, one released in loops; blocks out of order or failing in the middle of a reorganization | `ChainSelection` |
| Coins cache (`coins.cpp`) | two layers of entries with flags | DIRTY and FRESH through any sequence of calls | `CoinsCache`, `CoinsView` |
| Script check queue (`checkqueue.h`) | work queue, counters | condition variables, early returns, stop | `CheckQueue` |
| Memory pool and block assembly (`txmempool.cpp`, `miner.cpp`) | entries, links, counts, disconnect pool | entries that become stale; a rule about pairs of transactions | `Mempool`, `BlockAssembler` |
| Deadpool index (`index/`), notifications | best indexed block, locator, rows | two writers of one state; stale notifications; torn writes | `DeadpoolIndex` |
| Transaction requests (`txrequest.cpp`, `net_processing.cpp`) | announcements of transactions by peers | timeouts racing answers, disconnections, a clock set back | `TxRequestTracker`, `TxRequestRules` |

`PROJECT.json` lists every part with its status, every hazard with the line
where it bites, and the lines each definition models.

Header and block messages enter chain selection, which calls `ConnectTip` and
`DisconnectTip` of the chain state. Those check scripts with the check queue,
work on a cache over a cache over the coins database, update the announcement
database and the memory pool, and notify the indexes. The block assembler reads
the memory pool. Transactions reach the pool through the request tracker.

## Modules

An arrow means EXTENDS:
`AnnounceDB` <- `Deadpool` <- `Chainstate` <- `MCChainstate`;
`Deadpool` <- `Mempool` <- `BlockAssembler` <- `MCMempool`;
`Deadpool` <- `DeadpoolIndex` <- `MCDeadpoolIndex`;
`ChainSelection` <- `MCChainSelection`; `TxRequestTracker` <- `MCTxRequest`.
`CoinsCache` instantiates `CoinsView`, and `TxRequestTracker` instantiates
`TxRequestRules`, as what they implement.

Where modules are not composed, each lets its environment do more than its
neighbour would: `Chainstate` connects and disconnects in *any* order that the
chain allows, whatever chain selection decides; `ChainSelection` knows a block
only by which of its checks will fail; the index sees any movement of the tip;
and `Chainstate` works on plain sets of coins, which is what `CoinsCache` is
shown to implement.

**AnnounceDB, Deadpool.** The database is a set of rows, unique by key.
`DeadpoolClaimIsAnnounced` is the loop of the same name. A transaction is a
record of inputs and outputs; scripts are reduced to their type, the hash of N
and the claim hash, and hashes are taken to be collision free.

**Chainstate.** `index`, `m_chain`, `coinsTip` and `announceDB` are the state of
the process (the last is on disk at once); `diskIndex`, `coinsDB`, `dbBest` and
`dbHeads` are the other databases. The actions are `AcceptBlock`, `ConnectTip`,
`ConnectTipInvalid`, `DisconnectTip`, the flushes (`WriteBlockIndex`,
`FlushStateToDisk`, `FlushPartialBatch`, `FlushFinalBatch`), `Crash`,
`Shutdown`, and the start (`ReplayBlocks`, `ReplayInterrupted`, `LoadChainTip`,
`VerifyDB`, `VerifyInterrupted`). A partial batch may hold any subset of the
changed coins.

**ChainSelection.** `pc` is the place of the one thread that holds
`m_cs_chainstate`; `cs_main` is free when `pc` is in `Unlocked`, and only then
do messages and RPCs take effect. A loop under `cs_main` takes one step per
turn. `pending` counts threads that are about to call `ActivateBestChain`.
`Address` is the pointer comparison by which `CBlockIndexWorkComparator` breaks
ties.

**CoinsCache.** The map of a `CCoinsViewCache` is a function from outpoints to
entries or `NoEntry`; `cacheTip` is `CoinsTip()`, `cacheView` the view that
`ConnectTip`, `DisconnectTip`, `VerifyDB` or `TestBlockValidity` opens on it.
Every read fetches, so that a look at a coin changes the maps of both layers.
`CoinsView` has three plain maps and the best blocks; the refinement mapping
reads them through the caches.

**CheckQueue.** One step per critical section of `CCheckQueue::Loop`, one for
the work outside it. Waits may end without a notification, a round may end by
an early return of `ConnectBlock`, and the pool of threads is stopped and
started again.

**Mempool, BlockAssembler.** `mapTx` has for each entry its links and cached
counts. A reorganization is `DisconnectTip`s and `ConnectTip`s under the locks
followed by `MaybeUpdateMempoolForReorg`. `CalculateMemPoolAncestors` is the
walk of the code with its early exit at a conflicting announcement. Fees and
sizes are left out: which package comes next, what is trimmed, and which
replacement pays enough are choices. `CreateNewBlock` fills `vtx`.

**DeadpoolIndex.** One step per section of `ThreadSync` that another thread can
tell apart, and `BlockConnected` in two steps, before and at its write. Rows
are written synchronously, one by one; locators only reach the log, so that a
crash may bring back an older one. `Start` includes the check for pruned data.

**TxRequestTracker.** `m_index` is the multi-index as a set. The loops of
`SetTimePoint` and `DisconnectedPeer` and the calls of one message handler take
one step each, so that the properties also hold in between. `Environment` has
what peers, blocks and the clock do. `TxRequestRules` is the naive
implementation of the tracker's fuzz test (`src/src/test/fuzz/txrequest.cpp`).

Definitions whose comment starts with "Mutant" are deliberately wrong variants
of the definition that follows them. They are used to see that each property
notices the mistake; no specification refers to them.

## What TLC checks

Runs that pass:

| Run | States | Shows |
|---|---|---|
| `chain_reorg` | 99,010 | through reorganizations, and a clean restart with `-checklevel=4`, the announcement database follows the chain, claims were announced in time, and a block valid once stays valid |
| `chain_crash` | 1,555,134 | up to two crashes, also during a flush or replay, and blocks that fail early or late, never corrupt the coins nor block the replay |
| `select_fork` | 182,524 | bookkeeping, best chain and forward progress with blocks in any order, failures, and `preciousblock`; the best connectable chain becomes and stays active |
| `select_invalidate` | 345,518 | `invalidateblock` overtaken by arrivals and by a shutdown and restart, then `reconsiderblock` |
| `coins_cache` | 54,866 | flags are right, `BatchWrite` never throws, and the caches are plain maps on which every call takes effect |
| `check_queue` | 205,046 | counters, verdict, nothing left between rounds; `Wait` and `StopWorkerThreads` return |
| `mempool` | 6,661 | existing coins spent once, links and counts, templates in order and with one announcement per entry |
| `deadpool_index` | 62,496 | the index is where the notifications say it is, loses no row while the locator is not ahead, and catches up |
| `tx_request` | 103,106 | invariants and rules of the tracker, nobody asked twice, nothing forgotten without a reason, every candidate served |

The type invariants of `ChainSelection`, `CoinsCache`, `BlockAssembler` and
`DeadpoolIndex` hold on the same instances; they are left out of the runs.

Runs that end in a violation. Each states what a comment or documentation of the
code says, and shows a behaviour of the model that breaks it. None has been
reproduced on a running node.

| Run | Statement | What happens |
|---|---|---|
| `rows_lost_at_start` | the announcement database "reflects m_chain" (`validation.h:605`) | `VerifyDB` at the default level 3 removes rows of the last blocks at every start |
| `stale_claim_in_pool` | the pool holds transactions "that may be included in the next block" (`txmempool.h:470`) | a claim is checked once, with a window one block off, and stays when it expires or its announcement is disconnected |
| `index_locator_ahead` | the locator is "of the chain the database is synced to" (`index/base.h:32`) | `ThreadSync` commits it before the block's rows are written |

Further instances end in a violation as well. They are kept for whoever changes
this code, and are not among the runs of `PROJECT.json`:

| Instance | Statement | What happens |
|---|---|---|
| `MCChainRowsOfInvalid` | "reflects m_chain" (`validation.h:605`) | a block that fails after `validation.cpp:2168` leaves its rows |
| `MCChainLostBlock` | a claim has an announcement "preceding it" (`validation.cpp:309`) | rows of a block lost in a crash admit a claim (check level 2, so that `VerifyDB` leaves the rows alone) |
| `MCChainActivation` | "only if the deadpool deployment is activated" (2041) | the rule applies one block early |
| `MCSelectNoProgress` | "may not unlock cs_main until we've made forward progress" (2861) | after `reconsiderblock` a failing reorganization empties the candidates and `cs_main` is released on a worse tip |
| `MCSelectArrivalDuringInvalidate` | assertion on candidates (`validation.cpp:4609`) | a block that arrives during `invalidateblock` is missing until the clean-up at its end. The comment at 3075 knows of this and calls it "essentially unobservable"; `CheckBlockIndex`, where enabled, observes it |
| `MCSelectReconsiderLeavesFailed` | assertion on the failed mask (4605) | side branches keep `BLOCK_FAILED_CHILD` |
| `MCSelectReconsiderAncestors` | help of `reconsiderblock` (`rpc/blockchain.cpp:1756`) | ancestors become valid but not candidates |
| `MCSelectReconsiderUnlinked` | assertion on `m_blocks_unlinked` (4635) | a block received under a failed parent is in no list |
| `MCSelectBestHeader` | "Best header we've seen so far" (`validation.h:132`) | it ends up with less work than the active tip |
| `MCSelectFailedValidMarks` | "only ... the last disconnected block" is `BLOCK_FAILED_VALID` (3037) | all of them are: the test at 3036 looks in the wrong direction |
| `MCCheckQueueTxsdata` | "keep txsdata in scope for as long as `control`" (`validation.cpp:2052`) | `control` is declared first and so destroyed last: on an early return checks run without the data |
| `MCMempoolAncestors` | "Verify ancestor state is correct" (`CTxMemPool::check`) | the walk stops early at a conflicting announcement behind a parent; the cached count is right, the recomputed one is not |
| `MCDeadpoolIndexRewind` | `assert(current_tip == m_best_block_index)` (`index/base.cpp:213`) | between two locator writes the sync thread is ahead of `m_best_block_index` when it meets a reorganization |
| `MCDeadpoolIndexClaims` | "Find deadpool claims by entry outpoint" (`index/deadpoolindex.h`) | the record of a disconnected block stays, and keeps out that of the new branch |
| `MCDeadpoolIndexStart` | "best block of the index goes beyond pruned data" (`index/base.cpp:102`) | with nothing pruned, a locator at the genesis block is refused at start |

The `CheckBlockIndex` assertions, and those of `CTxMemPool::check`, run only
with `-checkblockindex` and `-checkmempool`, which are the default on regtest
and off elsewhere.

### Bounds

*Chain.* Three blocks above the root are the fewest with a reorganization
between branches of different length, a claim after its announcement (maturity
2) and before its expiry, and a gap in the middle of a chain; the last block may
weigh as much as two others where longer branches matter. One entry, two claim
hashes, and transactions that announce with enough and too little burn, spend
the change of an announcement, and claim. Two crashes allow one during the
recovery from the other. In `ChainSelection` one thread waits for
`m_cs_chainstate` besides the one that holds it; each RPC is called at most
once. `ChainSelection` with four blocks and both RPCs was too large to finish,
so that what needs four blocks and both RPCs has not been explored.

*Coins.* Entries of different outpoints do not meet, so that two outpoints show
all there is; two coins tell an overwritten coin from the old one, a third is
unspendable. There is no bound on the number of calls.

*Check queue.* Two workers and a master, batches of up to two, four checks in a
round: threads can skip checks that others took, and one can be asleep while
two report. The number of rounds is not bounded.

*Pool.* Seven transactions in up to four blocks: a chain of four with
announcements of one entry at distance two and three, a claim, a join of two
branches, a double spend that may be replaced; limits of four ancestors and
three descendants, so that the carve-out decides; a disconnect pool of three.

*Index.* Two branches of different length above the genesis block and its child,
two movements of the tip, a flush and a stop; the index is enabled on an empty
chain or on the longer branch. Three movements (279,112 states) and branches of
equal length (245,603) were checked too.

*Requests.* Three peers of different priority announce a transaction with a
parent; a clock of three values set back once; limits of one, so that a second
announcement is refused or delayed. Larger instances were checked too: two
transactions with different txid and wtxid, and more peers and times (4,839,072
states for the safety properties, 434,060 with liveness).

### Fairness

* `select_fork`: weak fairness of `ChainstateStep`. A thread that holds a lock,
  or waits for one that is free, eventually runs. Nothing is assumed of peers or
  users.
* `check_queue`: weak fairness of each thread's `Loop`, of the master's way to
  the end of `ConnectBlock` and of the steps of `StopWorkerThreads`. Spurious
  wake-ups are possible and never relied on.
* `deadpool_index`: weak fairness of the sync thread and of the scheduler
  thread. The process need not stay up; the property is about behaviours in
  which it does in the end.
* `tx_request`: weak fairness of a handler that has started; strong fairness of
  the clock and of `SendMessages` for each peer, which `ThreadMessageHandler`
  calls in turn whatever messages arrive.

The other runs are about safety and assume no fairness.

## What is proved

All for every value of the constants, from the named assumptions of the modules
(`TxAssumption`, `ParamsAssumption`, `ChainAssumption`, `CacheAssumption`,
`CheckQueueAssumption`, `TxRequestAssumption`).

**Chain state** (`ChainstateProofs`): `TypeCorrect`, `CoinsAreThoseOfTheChain`,
`CoinsSurviveCrashes`, `ReorganizationNeverAborts`, `ReplayNeverFails`.
These properties are not inductive. `IInv` (`ChainstateFacts`) adds: the paths
in the index form a tree rooted at `Root`; the index on disk is part of that in
memory; every block with undo data was valid on its own branch, so that a branch
spends only what exists and creates nothing twice (`BranchCoins`); and during a
flush the coins on disk are a mixture of the states of the two heads. The central
step is `ReplayHeads`: rolling back and forward from *any* mixture gives the
state of the new head, since the coins outside the two branches agree in both.
`ChainstateStoreProofs` has one lemma for each step on the databases,
`ChainstateTipProofs` one for each step on the chain.

**Announcements** (`AnnounceProofs`), under `NoFaults` (no crash, no shutdown,
no block that fails after its announcements are written):
`AnnouncementsFollowTheChain`, `ReorganizationsRevalidate`,
`ClaimsAreAnnounced`. `AnnounceInv` adds that every block with undo data passed
its checks against the announcements of its own branch. The conditions are
strong, and dropping any of them admits one of the violations above.

**Coins cache** (`CoinsCacheProofs`): `FlagsMeanWhatTheySay`,
`BatchWriteNeverThrows`, `NoCallIsLost`, and the refinement
`CachesAreTransparent`: `CoinsCache` implements `CoinsView`. The inductive
invariant is that each layer is `Good` over the one below: its entries have the
combinations of flags that occur, and the flags are coherent with what the
layer below shows. Per operation on one layer a lemma says that it keeps `Good`
and what it changes in the view; the steps of the two layers follow.

**Check queue** (`CheckQueueProofs`): `CountersAreRight`,
`WaitReturnsTheVerdict`, `NothingIsLeftOver`. `IInv` adds where a thread may
hold checks (`Busy`), who may be at work (`Held`), and `Tracked`: while `fAllOk`
is true every failing check is in the queue or with a thread that will report
it, and a reported failure has a cause.

**Transaction requests** (`TxRequestProofs`): `TrackerIsSane`,
`BestAreSelected`, `NoPeerIsAskedTwice`, and the refinement
`TrackerFollowsTheRules`: `TxRequestTracker` implements `TxRequestRules`. The
invariant is the tracker's own `SanityCheck`, kept by each operation on the
index for any index that has it, with what is known between the two loops of
`SetTimePoint`.

Only model-checked: `ChainSelection`, `Mempool`, `BlockAssembler` and
`DeadpoolIndex`; the announcements across a restart with `-checklevel=4`;
`ForgottenForAReason`; and every liveness property, which is out of the
prover's reach (as are ENABLED and induction over data).

## Not modelled

* Chain state: pruning, snapshots, BIP30, the memory limit that makes `VerifyDB`
  skip level 3, disk errors, and writes of the announcement database that a
  power failure loses although they were made. The deployment has one activation
  height instead of the version bits state machine.
* Chain selection: `nMinimumChainWork`, `fTooFarAhead`, `pindexBestInvalid`, the
  saturation of the preciousblock counter. A restart starts from a block index
  that was flushed.
* Pool and assembly: fees, sizes, weights, lock times, expiry, packages. Two
  announcements of one entry in a single transaction, which pool and assembler
  do not notice, since the ids are a set.
* Indexes: disk errors and pruning; the other indexes, which share `BaseIndex`.
* Requests: `TxOrphanage`, which appears as changes of what the node has.
* Proof of work: `gHash` and the primality tests rest on hash functions and GMP,
  `GetBlockProof` on floating point; TLC cannot evaluate them at a size that
  means anything. A header's validity is a parameter, its proof a number.
* Script interpreter, cryptography, wallet, RPC, GUI and bundled libraries: pure
  functions of large inputs, clients of the node, or third-party code. Address
  manager, bans, header synchronisation, block download and compact blocks:
  peers may send headers and blocks in any order here, and nothing modelled
  depends on which peers those are.
