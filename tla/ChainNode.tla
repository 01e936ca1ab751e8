----------------------------- MODULE ChainNode -----------------------------
(***************************************************************************)
(* One Bina L1 node: the mining task (src/l1-chain/node/src/main.rs), which *)
(* is the only writer of the chain, the HTTP and gossip handlers that admit *)
(* claims beside it, the peers it synchronises from, and what survives a    *)
(* crash: the SQLite block store, chain-state.json and ledger.csv.          *)
(*                                                                         *)
(* A block hash commits to its header, hence to its whole history: Hash is  *)
(* the set of block hashes, Prev, Height and Miner read the header behind a *)
(* hash.  A signed claim is identified by its block hash, and so is the     *)
(* block's nullifier (both are injective functions of the hash).            *)
(*                                                                         *)
(* Abstracted: difficulty is constant, so cumulative work counts blocks;    *)
(* blocks carry no transactions and each pays one unit, so the ledger is    *)
(* the number of rewards of each miner (RewardLedger has the rest).         *)
(***************************************************************************)
EXTENDS Integers, FiniteSets

CONSTANTS
  Hash,             \* block hashes
  Genesis,          \* the hash of the genesis block
  Prev(_),          \* header.prev_hash of a block
  Height(_),        \* header.height of a block
  Miner(_),         \* header.miner_address of a block
  Path(_),          \* the history of a block: from it down to the first block
  Better(_, _),     \* claim_is_better: a strict order on claims of one height
  Miners,           \* miner addresses
  Self,             \* this node's own miner address
  Handlers,         \* request handlers that may run at the same time
  NoBlock,          \* no row at this height (store), no block (winner, peer)
  NoMiner,          \* no reward row at this height
  MaxHeight,        \* bound: the chain is not mined past this height
  ReorgDepth,       \* MAX_AUTO_REORG_DEPTH
  ExternalClaims,   \* whether claims arrive from other miners
  DivergentPeers,   \* whether a peer's chain may leave ours below our tip
  MaxCrashes        \* bound: how many times the process may die

Block == Hash \ {Genesis}
Heights == 1..MaxHeight

(***************************************************************************)
(* Headers link to an earlier header, whose height they exceed by one, up   *)
(* to the genesis block; NoBlock and NoMiner are outside what they mark.    *)
(***************************************************************************)
ASSUME HashAssumption ==
  /\ Genesis \in Hash
  /\ NoBlock \notin Hash
  /\ Height(Genesis) = 0
  /\ \A b \in Block : /\ Prev(b) \in Hash
                      /\ Height(b) \in Heights
                      /\ Height(b) = Height(Prev(b)) + 1
                      /\ Miner(b) \in Miners
  /\ Path(Genesis) = {}
  /\ \A b \in Block : Path(b) = {b} \cup Path(Prev(b))

ASSUME MinerAssumption == Self \in Miners /\ NoMiner \notin Miners

ASSUME BoundAssumption ==
  /\ MaxHeight \in Nat
  /\ ReorgDepth \in Nat
  /\ MaxCrashes \in Nat
  /\ ExternalClaims \in BOOLEAN
  /\ DivergentPeers \in BOOLEAN

VARIABLES
  \* on disk
  store,     \* blocks table: the hash at each height
  saved,     \* chain-state.json: the resume pointer
  csv,       \* ledger.csv: the miner of the latest reward row of each height
  \* in memory, shared with the handlers
  st,        \* NodeState: published height, tip and work
  pending,   \* NodeState.pending_claims
  spent,     \* NodeState.nullifiers
  ledger,    \* RewardLedger.balances
  \* local to the mining task
  pc,        \* where the task is
  cur,       \* its own height, prev_hash and chain_work
  winner,    \* the claim that won the current height
  peer,      \* the tip of the peer chain it synchronises to
  \* each handler's claim and how far it was checked
  handler,
  \* the environment
  sent,      \* own claims ever broadcast
  crashes    \* how often the process died

disk == <<store, saved, csv>>
task == <<pc, cur, winner, peer>>
vars == <<store, saved, csv, st, pending, spent, ledger, pc, cur, winner, peer,
          handler, sent, crashes>>

Point(h, t, w) == [height |-> h, tip |-> t, work |-> w]

\* The point one block further, and a variant that forgets the block's work.
ExtendNoWork(p, b) == Point(p.height + 1, b, p.work)
Extend(p, b) == Point(p.height + 1, b, p.work + 1)

GenesisPoint == Point(0, Genesis, 0)
Idle == [phase |-> "idle", claim |-> NoBlock]

\* The task holds the ledger mutex from executing the winner to publishing it.
HoldsLedger == pc \in {"applied", "stored", "recorded"}

\* A panic in the task poisons both locks: every later handler panics too.
Serving == pc \notin {"down", "panicked"}

----------------------------------------------------------------------------
(* Headers and the ledger *)

AncestorAt(b, h) == CHOOSE a \in Path(b) : Height(a) = h

ByMiner(claims, m) == {c \in claims : Miner(c) = m}

Credit(balances, m) == [balances EXCEPT ![m] = @ + 1]

\* header.state_root: the balances after the block, one reward a block.
StateRoot(b) == [m \in Miners |-> Cardinality(ByMiner(Path(b), m))]

\* simulate_block_execution on the node's own ledger gives the header's root.
Executes(b) == Credit(ledger, Miner(b)) = StateRoot(b)

\* RewardLedger::open, which replays every row.
OpenUnscoped(h) == [m \in Miners |-> Cardinality({i \in Heights : csv[i] = m})]

\* RewardLedger::open_scoped: of each height up to h, the latest reward row.
OpenScoped(h) == [m \in Miners |-> Cardinality({i \in 1..h : csv[i] = m})]

\* pending_claims.retain(|h, _| h > height)
RetainAbove(claims, h) == [i \in Heights |-> IF i > h THEN claims[i] ELSE {}]

\* A variant that keeps one claim a height.
KeepFirstOfHeight(claims, c) ==
  IF claims[Height(c)] = {} THEN [claims EXCEPT ![Height(c)] = {c}] ELSE claims

\* pending_claims.entry(height): the first claim of a miner is kept.
KeepFirst(claims, c) ==
  IF ByMiner(claims[Height(c)], Miner(c)) = {}
    THEN [claims EXCEPT ![Height(c)] = @ \cup {c}]
    ELSE claims

\* select_winning_pending: the claim no other candidate beats.
Winners(claims) == {c \in claims : \A d \in claims : ~Better(d, c)}

----------------------------------------------------------------------------
(* Start-up *)

\* BlockStore::all_nullifiers, and a variant for a set that starts empty.
NoNullifiers == {}
AllNullifiers == {store[h] : h \in Heights} \ {NoBlock}

\* The state every start rebuilds from disk, before the first catch-up.
ResumeFrom(point) ==
  /\ st' = point
  /\ cur' = point
  /\ pending' = [h \in Heights |-> {}]
  /\ spent' = AllNullifiers
  /\ ledger' = OpenScoped(point.height)
  /\ handler' = [h \in Handlers |-> Idle]
  /\ winner' = NoBlock
  /\ peer' = NoBlock

\* A first start: no file exists, chain-state.json is created at genesis.
Init ==
  /\ store = [h \in Heights |-> NoBlock]
  /\ saved = GenesisPoint
  /\ csv = [h \in Heights |-> NoMiner]
  /\ st = GenesisPoint
  /\ cur = GenesisPoint
  /\ pending = [h \in Heights |-> {}]
  /\ spent = {}
  /\ ledger = [m \in Miners |-> 0]
  /\ handler = [h \in Handlers |-> Idle]
  /\ winner = NoBlock
  /\ peer = NoBlock
  /\ pc = "catchup"
  /\ sent = {}
  /\ crashes = 0

\* mining_loop up to the catch-up: the resume pointer is taken as it stands,
\* the store only gives the spent nullifiers back.
Restart ==
  /\ pc = "down"
  /\ pc' = "catchup"
  /\ ResumeFrom(saved)
  /\ UNCHANGED <<disk, sent, crashes>>

----------------------------------------------------------------------------
(* Peers *)

\* A peer can only hold an own block of ours that we broadcast.
Known(p) == \A b \in Path(p) : Miner(b) = Self => b \in sent

\* best_peer_by_work: a chain strictly heavier than ours.
HeavierPeers ==
  {p \in Hash : /\ Height(p) > cur.work
                /\ Known(p)
                /\ DivergentPeers \/ cur.tip \in Path(p) \cup {Genesis}}

SyncFrom(p) ==
  /\ peer' = p
  /\ pc' = "sync"
  /\ UNCHANGED <<disk, st, pending, spent, ledger, cur, winner, handler, sent, crashes>>

\* catch_up_from_peers: forward only, whatever the peer's history.
CatchUp ==
  /\ pc = "catchup"
  /\ \E p \in HeavierPeers : SyncFrom(p)

\* reconcile_fork, the peer has our tip: it is only further ahead.
ReconcileForward ==
  /\ pc = "top"
  /\ \E p \in HeavierPeers :
       /\ cur.height <= Height(p)
       /\ cur.height = 0 \/ store[cur.height] = AncestorAt(p, cur.height)
       /\ SyncFrom(p)

ProbeFloor == IF cur.height > ReorgDepth THEN cur.height - ReorgDepth ELSE 0

\* A variant that knows no epoch.
NoEpoch(h) == 0

\* DifficultyAdjuster.epoch_start_height, with EPOCH_SIZE = ReorgDepth + 1.
EpochStart(h) == (h \div (ReorgDepth + 1)) * (ReorgDepth + 1)

\* The probe walks down from the tip over rows that differ from the peer's and
\* stops at the first equal one; a missing row makes the node refuse.
CommonAncestor(p, f) ==
  /\ f > ProbeFloor
  /\ f >= EpochStart(cur.height)
  /\ store[f] = AncestorAt(p, f)
  /\ \A h \in f+1 .. cur.height : store[h] \notin {NoBlock, AncestorAt(p, h)}

\* The work of the rows above f, and a variant that reads one row too few.
WorkAboveShort(f) == Cardinality({h \in f+1 .. cur.height-1 : store[h] # NoBlock})
WorkAbove(f) == Cardinality({h \in f+1 .. cur.height : store[h] # NoBlock})

\* BlockStore::rollback_above (DELETE ... height > f), and a variant with >=.
RowsBelow(f) == [h \in Heights |-> IF h < f THEN store[h] ELSE NoBlock]
RowsUpTo(f) == [h \in Heights |-> IF h <= f THEN store[h] ELSE NoBlock]

\* reconcile_fork, the chains diverged: the rows above the fork point are
\* deleted and the ledger is reopened at it, before any peer block is checked.
RollBack ==
  /\ pc = "top"
  /\ \E p \in HeavierPeers, f \in 1 .. cur.height - 1 :
       /\ cur.height <= Height(p)
       /\ CommonAncestor(p, f)
       /\ store' = RowsUpTo(f)
       /\ ledger' = OpenScoped(f)
       /\ cur' = Point(f, store[f], cur.work - WorkAbove(f))
       /\ peer' = p
  /\ pc' = "rolled"
  /\ UNCHANGED <<saved, csv, st, pending, spent, winner, handler, sent, crashes>>

\* A variant that frees the nullifiers with the rows.
FreeRolledBack ==
  /\ pc = "rolled"
  /\ st' = cur
  /\ pending' = RetainAbove(pending, cur.height)
  /\ spent' = {}
  /\ pc' = "sync"
  /\ UNCHANGED <<disk, ledger, cur, winner, peer, handler, sent, crashes>>

\* The state lock is taken once: claims above the fork point stay.
PublishRollBack ==
  /\ pc = "rolled"
  /\ st' = cur
  /\ pending' = RetainAbove(pending, cur.height)
  /\ pc' = "sync"
  /\ UNCHANGED <<disk, spent, ledger, cur, winner, peer, handler, sent, crashes>>

\* No heavier peer, the check is not due, or reconcile_fork refuses.
SkipSync ==
  /\ pc \in {"catchup", "top"}
  /\ pc' = "mine"
  /\ UNCHANGED <<disk, st, pending, spent, ledger, cur, winner, peer, handler, sent, crashes>>

NextOfPeer == AncestorAt(peer, cur.height + 1)

\* The checks of sync_forward_from_peer on a peer's next record: it links to our
\* tip and re-executes to its own state root.
Accepts(b) == Prev(b) = cur.tip /\ Executes(b)

\* An accepted record is applied to the ledger and appended to the CSV.
SyncApply ==
  /\ pc = "sync"
  /\ cur.height < Height(peer)
  /\ Accepts(NextOfPeer)
  /\ ledger' = Credit(ledger, Miner(NextOfPeer))
  /\ csv' = [csv EXCEPT ![cur.height + 1] = Miner(NextOfPeer)]
  /\ pc' = "synced"
  /\ UNCHANGED <<store, saved, st, pending, spent, cur, winner, peer, handler, sent, crashes>>

\* Then it is stored and published; chain-state.json is not written.
SyncStore ==
  /\ pc = "synced"
  /\ LET b == NextOfPeer
         new == Extend(cur, b)
     IN /\ store' = [store EXCEPT ![new.height] = b]
        /\ cur' = new
        /\ st' = new
        /\ spent' = spent \cup {b}
        /\ pending' = RetainAbove(pending, new.height)
  /\ pc' = "sync"
  /\ UNCHANGED <<saved, csv, ledger, winner, peer, handler, sent, crashes>>

\* A variant that starts over until it has reached the peer's tip.
SyncAgain ==
  /\ pc = "sync"
  /\ pc' = IF cur.height < Height(peer) THEN "catchup" ELSE "mine"
  /\ peer' = NoBlock
  /\ UNCHANGED <<disk, st, pending, spent, ledger, cur, winner, handler, sent, crashes>>

\* The target is reached, the record is refused, or the peer stops answering.
SyncEnd ==
  /\ pc = "sync"
  /\ pc' = "mine"
  /\ peer' = NoBlock
  /\ UNCHANGED <<disk, st, pending, spent, ledger, cur, winner, handler, sent, crashes>>

----------------------------------------------------------------------------
(* Mining one height *)

\* The claim mined on our tip joins the candidates, unless one of ours is
\* already there, and is broadcast.  Its timestamp makes it a new block.
Mine(b) ==
  /\ pc = "mine"
  /\ b \in Block \ sent
  /\ Miner(b) = Self
  /\ Prev(b) = cur.tip
  /\ pending' = KeepFirst(pending, b)
  /\ sent' = sent \cup {b}
  /\ pc' = "grace"
  /\ UNCHANGED <<disk, st, spent, ledger, cur, winner, peer, handler, crashes>>

\* After the submission grace: the best candidate wins, the others are dropped.
Elect ==
  /\ pc = "grace"
  /\ winner' \in Winners(pending[cur.height + 1])
  /\ pending' = RetainAbove(pending, cur.height + 1)
  /\ pc' = "elected"
  /\ UNCHANGED <<disk, st, spent, ledger, cur, peer, handler, sent, crashes>>

\* A variant that moves the resume pointer before the block is stored.
ApplyAndSave ==
  /\ pc = "elected"
  /\ ledger' = Credit(ledger, Miner(winner))
  /\ csv' = [csv EXCEPT ![cur.height + 1] = Miner(winner)]
  /\ saved' = Extend(cur, winner)
  /\ pc' = "applied"
  /\ UNCHANGED <<store, st, pending, spent, cur, winner, peer, handler, sent, crashes>>

\* Take the ledger lock, credit the winner: balances, then the CSV row.
ApplyWinner ==
  /\ pc = "elected"
  /\ ledger' = Credit(ledger, Miner(winner))
  /\ csv' = [csv EXCEPT ![cur.height + 1] = Miner(winner)]
  /\ pc' = "applied"
  /\ UNCHANGED <<store, saved, st, pending, spent, cur, winner, peer, handler, sent, crashes>>

\* A variant that keeps a row an earlier run left (INSERT OR IGNORE).
StoreIfAbsent ==
  /\ pc = "applied"
  /\ store' = [store EXCEPT ![cur.height + 1] = IF @ = NoBlock THEN winner ELSE @]
  /\ pc' = "stored"
  /\ UNCHANGED <<saved, csv, st, pending, spent, ledger, cur, winner, peer, handler, sent, crashes>>

\* insert_block (INSERT OR REPLACE)
StoreWinner ==
  /\ pc = "applied"
  /\ store' = [store EXCEPT ![cur.height + 1] = winner]
  /\ pc' = "stored"
  /\ UNCHANGED <<saved, csv, st, pending, spent, ledger, cur, winner, peer, handler, sent, crashes>>

\* A variant that records the height of the next block.
SaveNextHeight ==
  /\ pc = "stored"
  /\ saved' = Extend(Extend(cur, winner), winner)
  /\ pc' = "recorded"
  /\ UNCHANGED <<store, csv, st, pending, spent, ledger, cur, winner, peer, handler, sent, crashes>>

\* save_chain_state
SaveChainState ==
  /\ pc = "stored"
  /\ saved' = Extend(cur, winner)
  /\ pc' = "recorded"
  /\ UNCHANGED <<store, csv, st, pending, spent, ledger, cur, winner, peer, handler, sent, crashes>>

\* The last critical section: the nullifier is consumed, then the new tip is
\* visible to the handlers and the ledger lock is released.
Publish ==
  /\ pc = "recorded"
  /\ winner \notin spent
  /\ spent' = spent \cup {winner}
  /\ cur' = Extend(cur, winner)
  /\ st' = Extend(cur, winner)
  /\ winner' = NoBlock
  /\ pc' = "top"
  /\ UNCHANGED <<disk, pending, ledger, peer, handler, sent, crashes>>

\* consume fails: .expect("nullifier collision ...") under both locks.
Panic ==
  /\ pc = "recorded"
  /\ winner \in spent
  /\ pc' = "panicked"
  /\ UNCHANGED <<disk, st, pending, spent, ledger, cur, winner, peer, handler, sent, crashes>>

----------------------------------------------------------------------------
(* accept_signed_claim: POST /block/submit and gossip, beside the task *)

\* A claim other nodes can send: another miner's, or an own one coming back.
Submittable(c) == Miner(c) # Self \/ c \in sent

\* A variant that looks at the height alone.
CheckHeight(h, c) ==
  /\ ExternalClaims /\ Serving
  /\ handler[h] = Idle
  /\ Submittable(c)
  /\ Height(c) = st.height + 1
  /\ handler' = [handler EXCEPT ![h] = [phase |-> "linked", claim |-> c]]
  /\ UNCHANGED <<disk, st, pending, spent, ledger, task, sent, crashes>>

\* Phase 1, under the state read lock: the claim extends the published tip.
CheckTip(h, c) ==
  /\ ExternalClaims /\ Serving
  /\ handler[h] = Idle
  /\ Submittable(c)
  /\ Height(c) = st.height + 1
  /\ Prev(c) = st.tip
  /\ handler' = [handler EXCEPT ![h] = [phase |-> "linked", claim |-> c]]
  /\ UNCHANGED <<disk, st, pending, spent, ledger, task, sent, crashes>>

\* Phase 2, under the ledger lock: re-execution must give the header's root.
CheckRoot(h) ==
  /\ Serving
  /\ ~HoldsLedger
  /\ handler[h].phase = "linked"
  /\ handler' = [handler EXCEPT ![h] =
                   IF Executes(@.claim) THEN [@ EXCEPT !.phase = "executed"] ELSE Idle]
  /\ UNCHANGED <<disk, st, pending, spent, ledger, task, sent, crashes>>

\* Phase 3, under the state write lock: nothing is checked again.
Admit(h) ==
  /\ Serving
  /\ handler[h].phase = "executed"
  /\ pending' = KeepFirst(pending, handler[h].claim)
  /\ handler' = [handler EXCEPT ![h] = Idle]
  /\ UNCHANGED <<disk, st, spent, ledger, task, sent, crashes>>

----------------------------------------------------------------------------
(* Crashes, bounds and the specification *)

\* The process dies, or an operator kills a node whose task panicked.
Crash ==
  /\ pc # "down"
  /\ crashes < MaxCrashes
  /\ crashes' = crashes + 1
  /\ pc' = "down"
  /\ UNCHANGED <<disk, st, pending, spent, ledger, cur, winner, peer, handler, sent>>

\* Where the bounds, or a panic, end a behaviour.
AtBound ==
  /\ \/ pc = "panicked"
     \/ /\ pc = "mine"
        /\ ~\E b \in Block \ sent : Miner(b) = Self /\ Prev(b) = cur.tip
  /\ UNCHANGED vars

MiningTask ==
  \/ CatchUp \/ ReconcileForward \/ RollBack \/ PublishRollBack \/ SkipSync
  \/ SyncApply \/ SyncStore \/ SyncEnd
  \/ \E b \in Block : Mine(b)
  \/ Elect \/ ApplyWinner \/ StoreWinner \/ SaveChainState \/ Publish \/ Panic

ClaimHandler ==
  \E h \in Handlers : \/ \E c \in Block : CheckTip(h, c)
                      \/ CheckRoot(h)
                      \/ Admit(h)

Next == MiningTask \/ ClaimHandler \/ Crash \/ Restart \/ AtBound

Spec == Init /\ [][Next]_vars

\* The mining task only ever waits for timers, for requests that time out and
\* for locks the handlers hold briefly.  Nothing restarts a dead node: no
\* fairness on Restart.
FairSpec == Spec /\ WF_vars(MiningTask)

----------------------------------------------------------------------------
(* Properties *)

Phases == {"down", "catchup", "top", "rolled", "sync", "synced", "mine", "grace",
           "elected", "applied", "stored", "recorded", "panicked"}

Points == [height : 0..MaxHeight, tip : Hash, work : Int]

\* Type invariant: the values every variable of the node ranges over.
TypeOK ==
  /\ store \in [Heights -> Hash \cup {NoBlock}]
  /\ saved \in Points
  /\ csv \in [Heights -> Miners \cup {NoMiner}]
  /\ st \in Points
  /\ pending \in [Heights -> SUBSET Block]
  /\ spent \subseteq Hash
  /\ ledger \in [Miners -> Nat]
  /\ pc \in Phases
  /\ cur \in Points
  /\ winner \in Block \cup {NoBlock}
  /\ peer \in Hash \cup {NoBlock}
  /\ handler \in [Handlers -> [phase : {"idle", "linked", "executed"},
                               claim : Block \cup {NoBlock}]]
  /\ sent \subseteq Block
  /\ crashes \in 0..MaxCrashes

\* The tip, height and cumulative work agree in NodeState, in the mining task
\* and in chain-state.json, through mining, sync, rollback and restart: the
\* work a rollback subtracts is that of exactly the blocks it leaves.
WorkIsOfTip ==
  \A p \in {st, cur, saved} : p.height = Height(p.tip) /\ p.work = Height(p.tip)

\* At the election the node's own claim is among the candidates, whatever the
\* handlers and earlier reorgs left there: the expect("local signed claim
\* missing from candidate pool") of mining_loop cannot fire.
OwnClaimPresent ==
  pc = "grace" => ByMiner(pending[cur.height + 1], Self) # {}

Parent(h) == IF h = 1 THEN Genesis ELSE store[h - 1]

\* The rows up to a point's height are a chain that ends in the point's tip.
StoredUpTo(point) ==
  /\ point.height > 0 => store[point.height] = point.tip
  /\ \A h \in 1..point.height : store[h] # NoBlock /\ Prev(store[h]) = Parent(h)

\* What the node serves to peers from its store is the history of its own tip.
LinkedChain == pc # "down" => StoredUpTo(cur)

\* "a restart's chain-state.json can never point at a height the store doesn't
\* actually have" (mining_loop): the resume pointer's chain is in the store.
ResumePointerInStore == StoredUpTo(saved)

\* Between blocks the balances are those an execution of the tip's history
\* gives, also after the ledger was reopened at a lower height.
LedgerFollowsTip ==
  pc \in {"catchup", "top", "mine", "grace", "elected", "rolled", "sync"}
    => ledger = StateRoot(cur.tip)

\* Replay protection: no row up to the tip has an unspent nullifier, also after
\* a restart rebuilt the set, and a rollback frees none.
ChainIsSpent == pc # "down" => \A h \in 1..cur.height : store[h] \in spent \cup {NoBlock}

\* The winner extends the tip it is executed on (mining_loop: every candidate
\* was validated "against this same parent state").
ElectedOnParent == pc = "elected" => Prev(winner) = cur.tip

\* "nullifier collision - impossible on a valid chain" (mining_loop).
NoNullifierCollision == pc # "panicked"

\* Seen from outside, the node keeps the promise of DurableChain.
Promise == INSTANCE DurableChain
             WITH tip <- st.tip, durable <- saved.tip, rival <- peer, Depth <- ReorgDepth

\* The published tip moves as the promise says, through elections, catch-up,
\* rollbacks and restarts: it grows block by block, and falls back to where it
\* parted from a heavier peer (reconcile_fork), fewer than MAX_AUTO_REORG_DEPTH
\* blocks down and in one difficulty epoch, or to what save_chain_state wrote.
KeepsPromise == Promise!Spec

\* A node that comes up gets back to extending its chain to the bound, unless
\* it dies again or its task panics: catch-up and reconciliation never wedge it.
MiningResumes ==
  pc = "catchup" ~> (cur.height = MaxHeight \/ pc \in {"down", "panicked"})

=============================================================================
