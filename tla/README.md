# A TLA+ development of the Bina L1 chain

This directory specifies, model-checks and proves things about the program under
`src/l1-chain`: a proof-of-work node (`core`, `node`), the contracts that consume
its randomness (`Solidity`) and the relay between them (`randomness-api`).
`PROJECT.json` lists the components, the runs, the theorems, the hazards, the
findings, and for every definition the source lines it models.

    tlc -workers 2 -config NodeCrash.cfg MCChainNode
    tlapm ChainNodeProofs.tla

## 1. The system

| Component | State | Operations | Interacts with |
|---|---|---|---|
| mining task (`node/src/main.rs`, `mining_loop`) | its own height, tip, work, seed, difficulty; the winner of the height | start, catch up, reconcile, mine, elect, apply, store, save, publish | the only writer of the chain; locks NodeState and RewardLedger, calls peers over HTTP |
| claim admission (`accept_signed_claim`) | one claim per request, checked in three phases | admit or refuse | reads NodeState and the ledger, writes `pending_claims`, beside the mining task |
| NodeState (`RwLock`) | published tip, height, work; pending claims; mempool; nullifiers; last Bitcoin observation | read and written by all of the above | |
| block store (`node/src/store.rs`, SQLite) | a row per height, its transactions, a mempool table | insert or replace, roll back above, look up, reload | written by the mining task; served to peers |
| chain-state.json | the resume pointer: tip, height, work, difficulty, seed | saved after each block of the node's own election, loaded at start | |
| reward ledger (`core/src/rewards.rs`) | balances, nonces, total mined; the append-only `ledger.csv` | simulate, apply, credit, reopen scoped to a height | mining task and handlers, under one mutex |
| nullifiers (`core/src/randomness.rs`) | the spent set, in memory | consume, mark spent | rebuilt from the store |
| difficulty (`core/src/difficulty.rs`) | bits, epoch start | record a block; adjust every 20 | local to the mining task |
| Bitcoin checkpoints (`bitcoin_entropy.rs`) | the pinned seed and Bitcoin height; the last observation | observe, pin, judge plausible | observer task, mining task, handlers |
| mempool | pending transactions, in memory and in a table | enqueue, take, drop, requeue, reload | handlers, mining task |
| gossip, peers (`gossip.rs`, `peers.rs`) | seen messages, peer list | handle, relay, broadcast | other nodes |
| oracle contracts (`BinaOracle.sol`, `BinaOracleConsumers.sol`, `Binarandomness.sol`) | publishers, bonds, attestations, seeds, requests | attest and finalise, request, fulfil, assign and slash | relay, consumers |
| identity contract (`FastPathIdentityBina.sol`) | three address maps, pending relinks | register, rotate, relink, deactivate | wallets |
| relay (`bina-relay.mjs`) | what it has submitted, in memory | poll, submit | node, oracle |
| stale block miner (`stale_block_miner.rs`) | tips, stale headers, proofs | record, evict | called by nobody |

**What is hard.** One task writes the chain while handlers read two locks one
after the other. A reorg deletes before it validates. Three files (store, resume
pointer, ledger rows) are written one after another without a transaction, and
two of the paths that move the chain (sync, rollback) write only two of them. The
ledger file is never rewritten: what an abandoned or unfinished block left in it
is filtered when it is read. Nullifiers, pending claims and balances live in
memory and are rebuilt at a restart from sources of different age. An observer
reads Bitcoin beside the mining task and writes what it read before its request.
Gossip forgets what it has seen and loses requests without a retry. The contracts
take calls in any order, from owners who change the rules under way.

**What makes each part correct.** The node: tip, height and work agree
everywhere; the store holds the tip's history; the ledger is the tip's
execution; the elected claim extends the tip; a restart finds what it points at;
nothing wedges the task. The ledger: the supply follows the schedule, simulation
and application agree, no nonce is used twice, reopening gives the chain's
balances. Checkpoints: every height uses the seed of its governing checkpoint,
and every node computes the same difficulty; an outage of Bitcoin ends. Mempool: a
confirmed transaction leaves it, a rolled-back one returns, what is pending
survives a restart. Gossip: a claim reaches everyone and is posted once. Oracle: an
output is final by its quorum, seeds are of the highest final height, a request is
answered once, bonds back what is assigned. Identity: the maps agree, control
changes hands slowly. Harvester: its indexes agree, no proof is lost or doubled.

The hazards of the code, each at its line and with the properties aimed at it,
are in `PROJECT.json`.

## 2. Modules

| Module | Content |
|---|---|
| `DurableChain` | what a node promises of its chain, without how it keeps it |
| `ChainNode`, `MCChainNode` | one node: mining task, claim handlers, its disk, its peers, crashes |
| `ChainNodeProofs` | thirteen theorems about it, some of which need peers that agree, or no disturbance |
| `Checkpoints`, `CheckpointsProofs` | the pinned Bitcoin observation and the difficulty, from block to block; five theorems |
| `RewardLedger`, `MCRewardLedger`, `RewardLedgerProofs` | the ledger as the mining task drives it, its rows and reopenings; five theorems |
| `Mempool`, `MCMempool`, `MempoolProofs` | pending transactions in memory and on disk; five theorems |
| `Gossip`, `MCGossip`, `GossipProofs` | peer lists and the flooding of claims; three theorems |
| `BinaOracle`, `MCBinaOracle`, `BinaOracleProofs` | the oracle contract; eight theorems |
| `StaleBlocks`, `MCStaleBlocks`, `StaleBlocksProofs` | the harvester of stale Bitcoin blocks; three theorems |
| `Selection` | filtering a sequence, as `Iterator::filter` and `Vec::retain` do |
| `CollectionLemmas` | what the proofs use of filters, folds and sums |

The mining task appears in three modules, each with all of its control and the part
of its data the properties need: `ChainNode` has the tip, the store and claims,
`Checkpoints` seeds and difficulty, `Mempool` transactions. Where one of them
leaves something constant, another varies it.

### ChainNode

A block hash commits to its header and so to all of its history. `Hash` is any
set with `Prev`, `Height`, `Miner` and `Path` (the history) that form a tree; the
model never builds a header. A claim is its block hash and so is its nullifier.

`pc` is where the mining task is; each step ends where the code releases a lock,
awaits, or writes a file, so that handlers and crashes fall between:

| `pc` | next step | code |
|---|---|---|
| `catchup` | `CatchUp`, `SkipSync` | `catch_up_from_peers` |
| `top` | `ReconcileForward`, `RollBack`, `SkipSync` | `reconcile_fork` |
| `rolled` | `PublishRollBack` | its critical section over NodeState |
| `sync` | `SyncApply`, `SyncEnd` | a record of `sync_forward_from_peer`: checks and ledger |
| `synced` | `SyncStore` | its `insert_block` and critical section |
| `mine` | `Mine` | candidate, own claim into the pool, broadcast |
| `grace` | `Elect` | `select_winning_pending` after the grace period |
| `elected` | `ApplyWinner` | `credit`, with the ledger mutex taken |
| `applied` | `StoreWinner` | `insert_block` |
| `stored` | `SaveChainState` | `save_chain_state` |
| `recorded` | `Publish`, `Panic` | consume, publish, release the ledger |

`CheckTip`, `CheckRoot` and `Admit` are the three phases of
`accept_signed_claim`, each under one lock, by each of `Handlers`; `CheckRoot`
waits while the task holds the ledger. `Crash` is possible in every state and
loses all but `store`, `saved` and `csv`; `Restart` is `mining_loop` up to its
catch-up.

Abstracted:
- Difficulty is constant, so work counts blocks. Fork choice by work then agrees
  with fork choice by height, and the refusal of a heavier peer with fewer blocks
  never applies (it is in the guards all the same).
- A block pays one unit to its miner and carries no transactions; its state root
  is how often each miner was paid along its history. `RewardLedger` has the rest.
- Within one synchronisation the peer's chain does not change. It may at the
  next, and the peer may stop answering at any record (`SyncEnd`).
- The own hash search always finds a new block: its timestamp is at least the
  clock's, so no earlier own claim is found again (`Mine` takes only unsent blocks).
- Rows are deleted and the ledger replaced in one step (`RollBack`): a crash
  between them leaves the same disk, and no modelled handler reads the store.
- After a catch-up the code goes straight to mining because the reconciliation
  timer was just started.
- A live Bitcoin observation arrives at checkpoint heights; `Checkpoints` has
  outages.

`ChainNode` implements `DurableChain`: `Promise` is its instance with the tip
NodeState publishes, the durable block chain-state.json names, the peer it
compares itself with and `MAX_AUTO_REORG_DEPTH`; `KeepsPromise` is that
instance's specification. Applying, storing, checking claims, and a restart that
is still catching up are stutters of it.

### Checkpoints

A block is its seed (the observation its hash commits to), its timestamp and its
difficulty; a chain is a sequence of blocks. `cur` is what the task carries,
`Published` what it writes to NodeState, `rows` and `saved` the disk. `FetchBtc`
gives any live observation or, on an error, the one read before; the task
(`FetchCheckpoint`, then `RetryFetch` or `MineCheckpoint`) and the observer
(`ObserverFetches`, `ObserverWrites`) each read `obs` when they begin and write it
when they end. `PeerClaim` holds a foreign claim against `Plausible`. `PeerChains`
are heavier chains that part from this node's anywhere.

`RecordBlock` is `DifficultyAdjuster::record_block`: `RoundsTo` decides the rounded
base-two logarithm of the code without real numbers, by squaring. Three references are
functions of the chain alone: `SeedOf`, `AdjusterOf`, `WorkOf`.

Three history variables say what has gone wrong before: `strayed` (the task's chain
is not, or not surely, that of its store: a claim for another tip was elected, finding
1, or the resume point is gone, finding 2), `elsewhere` (a restart took a checkpoint
that is not of its chain) and `blinded` (a failed fetch wrote a mock observation over
a real one). The run reaches all three.

Abstracted: hash search, transactions and signatures; a claim or a synchronised
record that passes the checks is honest in what it states besides.

### RewardLedger

`chain` is the sequence of blocks behind the tip and `saved` the one behind
chain-state.json. `BuildBlock` filters a candidate list with
`simulate_block_execution` and keeps what its header commits to (`forecast`);
`ApplyTransaction` and `CreditReward` change the balances and append a row each;
`FinishMined` saves the chain state and `FinishSynced` does not; `RollBack` and
`Restart` replay the rows with `OpenScoped`. `exact` remembers whether the last
replay found precisely the rows of its chain in their order, and the reference
`ExecuteChain` executes a chain from genesis. Signatures always verify; amounts
are far from 2^64, where the code saturates.

### Mempool

A submission is three steps of a handler: `Check` under the ledger mutex, `Queue`
under the state lock, `Persist` into the table, each possibly long after the last.
Beside it the task takes a candidate in any order of the map (`Candidate`), elects it
or another miner's block (`Apply`), and clears memory, table, store and resume
pointer in the code's order, a step each; synchronised and rolled-back blocks have
their own (`SyncRecord` to `RemoveSynced`, `RollBack`, `Requeue`, `PublishRollBack`).
A crash is possible at each. What the ledger has executed is a set of
transactions, which determines nonces and balances.

Abstracted: a transaction's signature verifies; rewards and fees are part of the
accounts' funds; the ledger reopened at a height is the execution of the chain up to
it, which `RewardLedger` says when it is.

### Gossip

`Start` and `Bootstrap` learn peers from seeds, `Connect` is the operator's call.
`Mine` and `Submit` (from a miner without a node) admit and broadcast a claim,
`Deliver` is `handle_incoming` and what the handler of a claim does then, `Lose` a
post that failed. `net` is the set of requests under way: they arrive in any order.
`sent` and `again` record who posted a claim. A node's peer lists, seen set and
claims stay while it runs: crashes are left to the other modules.

### BinaOracle

One action per transaction that changes state; a transaction takes effect or
reverts as a whole. `Submit` is `submitOutput`: `Valid` output, matching
attestation, and with the quorum (`Enough`) `Finalize`, which moves the seed of every
purpose or reverts (`Advances`). `RequestFuture` assigns a height to the
place in the rotation that the height gives. `Removed` is the exchange of a place with the
last one. Money is in halves of an ether. `answers` is a history of events.

### StaleBlocks

`ProcessTips` is a poll: `ForkEvents` of the tips lost, proofs of competing ones.
`SubmitHeader` harvests a header into the three maps, after `Evict` when they are full,
scored as `Quality` does in integers. `Drain`, `PutBack` and `Requeue` are a batch
that is submitted up to some point. Entropies are sets under symmetric difference,
which is what XOR does to them.

## 3. Runs

| Run | Result | What it shows |
|---|---|---|
| `node_crash` | passes | with another miner's claims, sync and a crash in any state, on one history |
| `node_reorg` | passes | with peers that diverge at any height, across an epoch boundary |
| `checkpoints` | passes | seeds, pinned heights and difficulty through outages, sync, rollback and a crash |
| `mempool` | passes | submissions beside the task, rollbacks and a crash |
| `gossip` | passes | a flood over lists at their cap, with forgetting, reordering and one loss |
| `ledger` | passes | supply, simulation, nonces, with restarts and rollbacks anywhere |
| `oracle` | passes | outputs, bonds, assignments and requests in any order |
| `stale_blocks` | passes | the harvester at its limits |
| `node_stale_claim` | `ElectedOnParent` violated | a claim for an abandoned tip wins |
| `node_lost_pointer` | `ResumePointerInStore` violated | the resume pointer outlives the rows it names |
| `node_replayed_claim` | `NoNullifierCollision` violated | a block stored before a crash is elected again |
| `ledger_restart` | `BalancesSurviveRestart` violated | transaction rows of another block are replayed |

The properties, by what they are about:

- `WorkIsOfTip`: tip, height and work agree in NodeState, in the task and on
  disk. A rollback recomputes the work it removes from rows.
- `OwnClaimPresent`: the `expect` of the election cannot fire.
- `LinkedChain`, `ResumePointerInStore`: the store holds the history of the tip,
  and of the resume pointer. The second holds with crashes anywhere as long as
  the node never rolls back (`node_crash`), and fails once it does
  (`node_lost_pointer`).
- `LedgerFollowsTip`: balances reopened at a lower height are the tip's.
- `ChainIsSpent`: nullifiers rebuilt after a crash cover every stored block of
  the chain. Where a crash lost the pointer's rows there is nothing to spend, and
  the property says nothing of those heights.
- `KeepsPromise` (refinement): the published tip grows by blocks, falls back only
  to where it parted from a heavier peer, within depth and epoch, and a restart
  brings back exactly what was made durable.
- `MiningResumes` (liveness): a node that comes up extends its chain to the
  bound, unless it dies or panics.
- `SeedGovernsHeight`: every block and the next to be mined use the seed pinned at
  their governing checkpoint. Its exceptions are `strayed` and `elsewhere` (section 6).
- `PublishedHeightIsPinned`: the height incoming checkpoints are held against
  is that of a checkpoint of the chain, not the observer's; with the same exceptions.
- `NoMockOverReal`: no outage makes the node mine a mock checkpoint over a real
  one. Its exceptions are `strayed` and `blinded` (section 6).
- `DifficultyIsOfChain`: adjuster and work carried along equal a replay from genesis,
  unless the chain `strayed`.
- `OutageEnds` (liveness): the retry loop at a checkpoint ends once the observer
  got an answer.
- `NoneLost`, `ConfirmedLeaves`, `LivePersisted`: what was accepted is pending or
  confirmed, what is confirmed is not pending, what is pending is on disk. Their
  exceptions are histories: `unsaved` (a crash between removal and save), `raced`
  (queued after the ledger had moved past the check).
- `CandidateServesSenders` (an action property): stale entries of the pool keep no
  sender with an executable transaction out of a block.
- `PostsOnce`, `EveryoneHears`: the flood neither repeats nor dries up.
- `SupplyIsScheduled`, `SimulationAgrees`, `NoNonceTwice`: unconditional.
- `LedgerIsExecution`: wherever the rows are the chain's own, reopening gives
  exactly the chain's execution. Its hypothesis is what `ledger_restart` breaks.
- `QuorumDecides`, `NullifiersDiffer`, `SeedIsHighestFinal`, `AnswersAreLate`: what a
  final output and an answer rest on, whatever the order and the owner's changes.
- `BondsBackCommitments`, `RotationIsBonded`: what is assigned stays locked, the
  contract holds all bonds, and the rotation only holds full ones.
- `IndexesAgree`, `EveryProofOnce`: the harvester's maps, and its queue.

**Bounds.**
`node_crash` (765,242 states): three heights, two own blocks and one foreign one
at every parent, one handler, one crash. Three heights let a node be two behind
its own store, which every crash property needs; a second own block at a parent is
one mined again after a restart.
`node_reorg` (37,763): five heights with `ReorgDepth = 3` and thus epochs of four,
so that a fork point can be too deep, across an epoch, or neither, and chains can be
longer than the depth. One own and two foreign blocks at every parent. No
crashes and no claims: combined with divergence they are the three violations,
each on the smallest instance that shows it.
`checkpoints` (673,069): intervals and epochs of three. Checkpoints are at 1 and 4
and epochs end at 3, so a rollback inside an epoch can cross a checkpoint as it can
in the code between heights 20 and 21. The node mines to four, peers reach five.
Only the last block of an epoch has a varying gap, as only its end counts. One
crash, two Bitcoin heights.
`mempool` (1.86 million): three transactions of two accounts, two of which compete for
a nonce and one spends what they pay; one handler (two pass as well, 9.5 million
states); a pool and blocks of two, rollbacks of one or two blocks, three heights, one
crash.
`gossip` (2.38 million): three nodes, `b` started from `a` and `c` from `b`, lists of
two, a time-to-live of two, as long as the diameter; seen sets of two forget one
at the third message. Two claims, one of them from outside, one height, one loss.
`ledger`: a hard cap of 7 with rewards 4, 2, 1 meets one halving and the cap;
three heights, two reopenings (one may follow another) and six rows at the start
of a block. Transactions conflict, depend on each other and return money.
`oracle` (1.87 million, with symmetric publishers): two publishers; three outputs,
two of which are of one block and two of which share a nullifier, one without a Falcon
signature; quorums of one and two; bonds of two halves, two commitments, one request.
`stale_blocks` (583,000): two tips and a history of two, so that both are full after
two; three proofs, two events; depths on both sides of the limit, times within and
past the maximal age.
`MaxHeight`, `MaxMined`, `MaxCrashes`, `MaxTip`, `Lead`, `MaxRows`, `MaxReopens`,
`MaxClaims`, `MaxLost`, `MaxBond`, `MaxCommitments`, `MaxRequests`, `MaxMade` and
`MaxEvents` are bounds of the models. Deadlock is checked except in `oracle` and
`stale_blocks`: callers of a contract or a library may stop calling, and do at the
bounds.

## 4. Proofs

All of them hold for every value of the constants, from the named assumptions of the
modules, which TLC evaluates in the runs.

| Module | Theorem | Property |
|---|---|---|
| `ChainNodeProofs` | `TypeCorrect`, `WorkAlwaysOfTip`, `OwnClaimAlwaysPresent`, `ChainAlwaysSpent` | `TypeOK`, `WorkIsOfTip`, `OwnClaimPresent`, `ChainIsSpent` |
| `ChainNodeProofs`, where `Settled` | `ChainAlwaysLinked`, `LedgerAlwaysOfTip`, `WinnerAlwaysOnParent`, `PromiseKept` | `LinkedChain`, `LedgerFollowsTip`, `ElectedOnParent`, `KeepsPromise` |
| `ChainNodeProofs`, where `OneHistory` | `PointerAlwaysInStore` | `ResumePointerInStore` |
| `ChainNodeProofs`, without foreign claims, or in one run on one history | `NoCollisionAlone`, `NoCollisionInOneRun` | `NoNullifierCollision` |
| `CheckpointsProofs` | `CheckpointTypes`, `DifficultyHolds`, `SeedHolds` | `TypeOK`, `DifficultyIsOfChain`, `SeedGovernsHeight` |
| `CheckpointsProofs` | `PublishedHeightHolds`, `MockNeverFollowsReal` | `PublishedHeightIsPinned`, `NoMockOverReal` |
| `RewardLedgerProofs` | `BalancesStayNatural`, `HeaderCommitsToOutcome`, `SupplyNeverDrifts`, `NoncesNeverRepeat` | `TypeOK`, `SimulationAgrees`, `SupplyIsScheduled`, `NoNonceTwice` |
| `RewardLedgerProofs` | `LedgerExecutesChain` | `LedgerIsExecution` |
| `MempoolProofs` | `LivePersistedAlways`, `NoneLostAlways`, `ConfirmedLeavesAlways`, `LedgerIsOfChain` | `LivePersisted`, `NoneLost`, `ConfirmedLeaves`, `TypeOK` |
| `MempoolProofs` | `SendersAlwaysServed` | `CandidateServesSenders` |
| `GossipProofs` | `PostsAtMostOnce`, `CapsAlwaysHold` | `PostsOnce`, `TypeOK` |
| `GossipProofs`, where `EnoughHops` | `FloodNeverDriesUp` | `EveryoneHears` |
| `BinaOracleProofs` | `QuorumDecidesAlways`, `NullifiersDifferAlways`, `SeedIsHighestAlways`, `AnswersAreLateAlways` | `QuorumDecides`, `NullifiersDiffer`, `SeedIsHighestFinal`, `AnswersAreLate` |
| `BinaOracleProofs` | `RotationIsBondedAlways`, `BondsAlwaysBack`, `OracleStaysTyped` | `RotationIsBonded`, `BondsBackCommitments`, `TypeOK` |
| `StaleBlocksProofs` | `HistoriesBounded`, `IndexesAlwaysAgree`, `ProofsNeverLost` | `TypeOK`, `IndexesAgree`, `EveryProofOnce` |

**ChainNode**, from `HashAssumption`, `MinerAssumption` and `BoundAssumption`;
nothing is assumed of `Better`, so the election may pick any unbeaten claim. All
follow from `AlwaysCoherent`, whose invariant `Coherent` adds what the properties
need to be inductive:
- `WorkIsOfTip` after a rollback needs the height of the row at the fork
  point, hence `RowsAtHeights`, and as many rows above it as heights, which is
  what the probe's refusal of missing rows gives (`WorkAboveCounts`); after a
  publication it needs `WinnerIsNext`, which needs `ClaimsAtHeights`, which
  needs `HandlersHoldClaims`; during a sync, `PeerIsAhead`.
- `OwnClaimPresent` needs `RoomToElect`, and that dropping claims below a height
  and keeping the first of a miner lose none at it (`RetainAboveFiled`,
  `KeepFirstFiled`).
- `ChainIsSpent` covers the rows up to the tip, and a row above it may become one
  by a sync: `RowsAreSpent` covers every row, but for the winner's between
  `insert_block` and `consume`.

That an ancestor exists at each lower height (`Histories`) is a well-founded
argument over heights. Each action has its lemma; `CoherentStep` combines them.

**The promise of a chain** is not kept for every value of the
constants: the first three findings of section 6 break its parts. The theorems say
what it takes. `OneHistory` is that peers hold no diverging chain, so that nothing is
ever rolled back; `Undisturbed` is that no foreign claim arrives and the process does
not die; `Settled` is either. Each
keeps the ingredients of the findings apart: `node_crash` is an instance of the first and
`node_reorg` of the second, and the runs that expect a violation are instances
outside both. The invariant `Grounded` says of each `pc` what the store, the ledger
in memory, the rows and the resume pointer hold of the task's tip (`OwnChain`,
`PointerBehind`, `WinnerOnTip`). From it `PromiseStep` maps every
action to a step of `DurableChain` or a stutter, which is the refinement.

**Checkpoints**, from `ParameterAssumption`, of which the only relation between
parameters that matters is that no real Bitcoin height is within the tolerance of none.
- `Founded`: the types, and that a checkpoint's row has the Bitcoin height its block
  pins (`RowsPin`), which holds on any chain.
- `Stored`: unless it strayed, the task's chain is in the store, and adjuster and
  work are those of a replay (`OfChain`). A block adds one step to the replay
  (`OfChainGrows`). A rollback keeps the adjuster: no block since the start of its
  epoch has changed it (`AdjusterStays`), which the guard on the epoch is for. What it
  subtracts from the work is the work of exactly the blocks it removes (`WorkSplits`),
  so the subtraction does not saturate.
- `OwnSeeds` and `NeverMocked` say it of every history the node holds (`Held`): on disk, in
  memory, in a claim or from a peer. `HeldStays` shows once, for any set of histories
  that is closed under prefixes and under what honest nodes append (`Good`), that only
  a new claim can leave it; `Seeded` and `Unmocked` are such sets. `NeverMocked` adds
  `RealIsKnown`: a task whose chain pins a real tip knows a Bitcoin height or has
  observed one, which is what its retry loop and `Plausible` rest on.
- `OwnHeights`: every height the node keeps is pinned by the history beside it. A restart
  takes one from the newest row, whose checkpoints up to the governing one
  are those of the resume point unless `elsewhere` (`PinnedByCheckpoint`).

Division and powers of two are used through three lemmas (`Division`,
`DivisionIsUnique`, `PowerIsPositive`), the last from the number of subsets of a set.

**RewardLedger**, from `AccountAssumption`, `TxAssumption` and `BoundAssumption`. Only
the last argument is about `exact`: for the others the rows may be those of other chains.
- `Books`: while a block is applied, what is left of it leads from the balances in
  memory, through states each of which admits the next transaction, to the state
  its header commits to (`Applies`). `SimulationApplies` shows that of what
  `simulate_block_execution` keeps, for every list of candidates.
- `Supplied`: every reward row states what the schedule gives at its height
  (`RewardsAreDue`), and each height of the chain and of the saved one that has a
  reward left a row, of whichever block (`Paid`). A reopening then adds up one `Due`
  of each height (`ReopenedSupply`), and that sum is the schedule
  (`ScheduleIsSum`). Without `latest_reward_index` it would not be: a height mined
  twice has two rows.
- `Spent`: of the tip's chain, of the saved one and of the chain with the applied
  part of the current block, no two transactions share account and nonce, each has a row
  of its height, and each is behind its account's nonce. A reopening
  preserves the last because it lifts every nonce past the rows it reads
  (`RowsBehind`), which is why the nonces survive where the balances do not.
- `Grounded`, for `LedgerIsExecution`. Replaying a chain's own rows gives its execution
  only if each of its transactions was valid where it stands: `open_scoped` debits by
  saturation, so it would replay any other differently (`ReplayIsTransfer`). But a
  ledger rebuilt from foreign rows admits transactions the chain alone does not. Hence
  `Sound`: a transaction of the tip's or the saved chain fits the execution of what
  is before it (`Fits`), or its row was written when the rows up to some lower height
  were not the chain's (`Misled`). After an inexact reopening they are not
  (`Strange`) and stay so, as a row of a greater height changes nothing below it
  (`LiveSkips`). The other direction is `RowsWereTheChains`: if the rows that count
  are the chain's now, they were at every lower height when any transaction row of the
  chain was written. So no transaction of such a chain was misled (`OwnRowsFit`) and
  reopening executes it (`OwnRowsExecute`), however the rows came there.

**Mempool.** `Inv` says of every entry where it is while it moves between memory,
table and block. `Settled` is what has been executed, with what a half done rollback
takes back; `Unwritten` is what handlers have queued and not written. `PoolIsWritten`
and `UnwrittenIsHeld` carry `LivePersisted`, and `OwedIsWritten` and `OwedIsHeld`
carry `NoneLost` over a crash: what was owed is in the table or in the saved chain.
Nothing is used of what `Executable` and `Applied` admit. `ConfirmedLeaves` does
use it: `Clears` says that an execution leaves no transaction it applied executable.
`CandidateServesSenders` follows the run of the simulation over the list
(`AppliedRuns`): as long as nothing of a sender is applied, his next nonce stays and his
balance only grows (`StaysExecutable`, `SumGrows`), so his transaction applies when its
turn comes.

**Gossip.** The seen set does not give `PostsOnce`, as it forgets. `PostedIsKept` does:
a claim a node has posted is still its candidate or lies below its tip, so it is not
admitted again. `EveryoneHears` needs `Hears`: every node that heard a promised claim has
passed it on to all its peers that did not, or a copy is under way to them, and a copy's
hops left together with the nodes that have the claim exceed the time-to-live. So a copy
without a hop left arrives when enough have it, if the time-to-live is at least the
number of nodes less one (`EnoughHops`). With three nodes and a time-to-live of one the
property is false. Reachability over peer lists is stated by closed sets
(`ReachesAll`), not by a recursive definition.

**BinaOracle.** Outputs and bonds share no state but the publishers, so there are two
invariants. `OutputInv` adds to the four properties that a final output's nullifier
is used, that a purpose's height is its seed's, and that answers are of fulfilled
requests. `BondInv` adds that the rotation and the index of places are inverse to
each other (`Places`), which the exchange with the last place must keep. Locks are
counted with the finite set theorems. `Holdings` adds what the contract holds: its
balance is the sum of all bonds, no bond above the bound.

**StaleBlocks.** `Indexed` relates the three maps through `Evict`, `EveryProofOnce` is
inductive with the types. A filtered sequence is `Kept` of the positions that pass.

**Folds, sums, filters** (`CollectionLemmas`). The folds of the community modules
are recursive functions over the subsets of a set, chosen by `CHOOSE`. That such a
function exists (`RecursionOnSubsets`, `FoldExists`), and that what its steps preserve
holds of its value (`FoldStaysIn`, `RunStaysIn`, `FoldRuns`, `RunsAgree`, `StepByStep`), is shown by the
least counterexample, as the induction theorems of the library take operators. Each
fold of a model is then unfolded once into the run of its steps
(`SimulationApplies`, `ReopeningReplays`, `ScheduledRuns`, `UsedRuns`, `AdjusterRuns`,
`PeerChainsType`). `SumAdds` adds a value to a sum. `SumChanges` says that a
sum changes as the one value in it that changes, `SumGrows` that a part of a sum of
naturals is not more than the whole.

Only model-checked: `MiningResumes` and `OutageEnds`, liveness under fairness, which is
out of the prover's reach. Every invariant and action property a passing run checks
is a theorem, some of them under the conditions the table names.

## 5. Fairness

`ChainNode` and `Checkpoints` have a `FairSpec`: weak fairness of the mining task and,
in `Checkpoints`, of the observer. The task is a loop without a blocking wait on
anything but requests with a five second timeout, timers, locks that handlers hold
for a bounded computation, and the hash search; the observer is a timer and a request.
One more wait has no bound: at a checkpoint height the task retries until Bitcoin
answers. `ChainNode` leaves it out. In `Checkpoints` nothing obliges a
provider to answer, so `OutageEnds` starts from an answer the observer did get; once
that is written, the retry reads it as its previous observation.

Nothing restarts a process, no handler is obliged to finish, no peer to answer or
to be heavier: none has fairness. A peer may stop answering, so the task is never
obliged to apply a record rather than to end a sync. The other modules state safety
only; `EveryoneHears` says, without fairness, that a copy is still under way.

## 6. What the checks found

1. A claim is checked against the tip and then admitted, or kept across a reorg,
   without a second look; when it wins, the stored block does not link to the one
   below it (`node_stale_claim`).
2. Sync and rollback never save chain-state.json, so after a rollback it names a
   block the store no longer has (`node_lost_pointer`).
3. A block stored, but not the resume point, when the process died can win its
   height again after the restart: its nullifier is already spent and the task
   panics holding both locks (`node_replayed_claim`).
4. Transaction rows are not filtered when the ledger is reopened as reward rows
   are (`ledger_restart`).

Read in the code while modelling it. Numbers 5 to 9 happen in the models, and where a
property has an exception it is the history variable named here:

5. The observer writes back what it read before its request. When that began before
   the first answer and fails after the task's own succeeded, the mock observation
   is back, and a checkpoint claim is judged against it (`blinded`).
6. The task's own copy of the checkpoint height misses the checkpoints it mined, and
   the next synchronised block publishes it.
7. A restart whose newest stored checkpoint lies above its resume point takes that
   one's seed (`elsewhere`). `latest_checkpoint` looks at every row with a Bitcoin
   height, not at checkpoint rows.
8. A block's transactions leave the mempool table before the block and the resume
   pointer are saved; a crash between loses them (`unsaved`). So does one between the
   deletion of rows and the requeueing. And a restart deletes accepted transactions
   whose turn has not come again after a rollback, as not executable.
9. A transaction queued after its confirmation stays in the pool for good (`raced`):
   nothing but a block or a restart removes an entry.
10. Bootstrap asks each seed once and forgets one that did not answer; a node may
    enter its own address into its list; the address a relay excepts is that of a
    connection and matches no peer; a claim that arrives before the node has reached
    its parent is marked seen and never retried.
11. `BinaOracle`: a lowered quorum leaves an output waiting that has enough; a first
    attestation that differs blocks a block for good; a dismissed publisher's
    attestation still counts; a height that was overtaken reverts the last
    attestation; one named again re-enters the rotation only with a deposit; an
    output of equal height may replace a seed.
12. The harvester reports a fork for a chain that merely grew, and a block harvested
    again after its eviction cancels itself in the cumulative entropy.
13. The mempool is not gossiped (README.md:531 of the repository says it is); the reorg depth
    and the rate limiter's window are not what their comments say; in the identity
    contract, deactivating a key and registering another bypasses the rotation cooldown.

## 7. Not modelled

- Hash search, key and signature cryptography, CPU detection, memory locking, the
  wallet's command line, telemetry, web pages and scripts hold no protocol state. The
  rate limiter is a few lines over wall-clock time.
- Synchronised records that lie about their reward (`reward_bina`): peers of the models
  are honest in what they state of a valid block. The node compares no record's
  reward with the schedule.
- The gossiped hello, peer list and ping, which the code handles and never sends.
- `BinaOracleConsumers.sol`, small contracts over the requests `BinaOracle` models, and
  `Binarandomness.sol`, the oracle's predecessor.
- `FastPathIdentityBina.sol`: it shares no state with the chain, its randomness or the
  oracle.
- The relay: a timer around one read and one submission; what it skips is decided
  by wall-clock time and the node's speed.

What a next step would add, in this order: the identity contract's maps under relinks
and rotations; the consumers composed with `BinaOracle`; a synchronising peer that
states a reward of its own.
