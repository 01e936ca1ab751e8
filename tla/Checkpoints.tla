----------------------------- MODULE Checkpoints -----------------------------
(***************************************************************************)
(* What the mining task carries from block to block besides the tip: the    *)
(* pinned Bitcoin observation and the difficulty.  Both change only every   *)
(* Interval (EpochSize) blocks, and both must come out the same on every    *)
(* node whether it mined a block, synchronised it, rolled back to it or     *)
(* restarted on it (src/l1-chain/core/src/bitcoin_entropy.rs, difficulty.rs,*)
(* node/src/bitcoin_entropy.rs and the mining task of node/src/main.rs).    *)
(*                                                                         *)
(* A block is its Bitcoin seed, its timestamp and its difficulty; a block   *)
(* hash commits to its history and so is a sequence of blocks.  A seed hash *)
(* stands for the observation it commits to, which is also the claim's      *)
(* checkpoint proof.  Hash search, transactions and signatures are left out.*)
(***************************************************************************)
EXTENDS Integers, Sequences, FiniteSetsExt, SequencesExt

CONSTANTS
  Interval,         \* BTC_CHECKPOINT_INTERVAL
  Tolerance,        \* BTC_HEIGHT_TOLERANCE
  EpochSize,        \* EPOCH_SIZE of the difficulty
  EpochTarget,      \* EPOCH_SIZE * TARGET_BLOCK_MS
  MinBits, MaxBits, \* MIN_BITS and MAX_BITS
  MaxDelta,         \* MAX_DELTA_BITS
  Gaps,             \* times between a block and the next
  CoinbaseReplies,  \* of "script", "empty" and "error": answers for a coinbase
  Seconds,          \* answers of the second provider: a tip, or none
  FirstTip, MaxTip, \* bounds: the Bitcoin heights of a behaviour
  Lead,             \* bound: the blocks a peer has that this node never saw
  MaxHeight,        \* bound: no chain is longer
  MaxMined,         \* bound: this node mines no further, peers may
  MaxCrashes        \* bound: how many times the process may die

ASSUME ParameterAssumption ==
  /\ {Interval, EpochSize, EpochTarget, MaxDelta} \subseteq Nat \ {0}
  /\ {Tolerance, MinBits, MaxBits, MaxHeight, MaxCrashes} \subseteq Nat
  /\ MaxMined \in 0..MaxHeight
  /\ {FirstTip, MaxTip, Lead} \subseteq Nat
  /\ MinBits <= MaxBits
  /\ FirstTip > Tolerance     \* no real height is plausible for a mock one
  /\ FirstTip <= MaxTip
  /\ Gaps \subseteq Nat \ {0}
  /\ CoinbaseReplies \subseteq {"script", "empty", "error"}
  /\ Seconds \subseteq {0} \cup FirstTip..MaxTip

VARIABLES
  \* on disk
  rows,      \* blocks table: at each height the block (its history), btc_height
  saved,     \* chain-state.json
  \* in memory, shared with the handlers
  st,        \* NodeState: tip, difficulty and checkpoint as published
  obs,       \* NodeState.last_observed_btc
  pending,   \* NodeState.pending_claims
  \* local to the mining task
  pc,        \* where the task is
  cur,       \* its tip, seed, Bitcoin height, adjuster and work
  won,       \* btc_checkpoint_tip_height_now
  \* fetches under way, by the task and by the observer
  fetched,
  \* the environment
  peer,      \* the chain of the peer it synchronises to
  crashes,   \* how often the process died
  \* history
  strayed,   \* a claim for another tip was elected, or the resume point of a
             \* restart is not a block of the store
  elsewhere, \* a restart took its checkpoint from a block not of its own chain
  blinded    \* a failed fetch wrote a mock observation over a real one

disk == <<rows, saved>>
flags == <<strayed, elsewhere, blinded>>
vars == <<rows, saved, st, obs, pending, pc, cur, won, fetched, peer, crashes, flags>>

Heights == 1..MaxHeight
Tips == FirstTip..MaxTip
NoRow == [path |-> <<>>, btc |-> 0]

----------------------------------------------------------------------------
(* Checkpoint heights *)

IsCheckpoint(h) == h = 1 \/ (h - 1) % Interval = 0

\* The height whose block pinned the seed of a height.
Governing(h) == IF h = 0 THEN 0 ELSE ((h - 1) \div Interval) * Interval + 1

----------------------------------------------------------------------------
(* Bitcoin observations *)

Mock == [tip |-> 0, utxo |-> "mock", pool |-> 0]
NoSeed == [tip |-> 0, utxo |-> "none", pool |-> 0]
NoFetch == [tip |-> 0, utxo |-> "idle", pool |-> 0]
Unreachable == 0

\* The coinbase script mixed with the merkle root, or the merkle root alone.
CoinbaseEntropy(reply) == IF reply = "script" THEN "script" ELSE "merkle"

\* The other provider's tip where it differs, else fields of the block.
StalePool(tip, other) == IF other \in {tip, Unreachable} THEN 0 ELSE other

\* What a fetch that succeeds may give: any provider may lag behind another.
Live == {[tip |-> t, utxo |-> CoinbaseEntropy(c), pool |-> StalePool(t, o)] :
            t \in Tips, c \in CoinbaseReplies, o \in Seconds}

Observations == Live \cup {Mock, NoSeed}

\* fetch_btc: an error keeps the previous observation.
FetchBtc(previous) == Live \cup {previous}

\* Not behind the last checkpoint, and near the validator's own observation.
Plausible(proof, previous, observed) ==
  /\ proof.tip >= previous
  /\ proof.tip - observed \in (-Tolerance)..Tolerance

----------------------------------------------------------------------------
(* The difficulty adjuster *)

\* round(log2(EpochTarget / actual)) >= d.  The ratio is never a half power of
\* two, so rounding has no ties.
RoundsTo(actual, d) ==
  IF d > 0 THEN EpochTarget^2 > 2^(2*d - 1) * actual^2
           ELSE EpochTarget^2 * 2^(1 - 2*d) > actual^2

RawDelta(actual) ==
  IF actual = 0 THEN MaxDelta
  ELSE Max({d \in (-MaxDelta)..MaxDelta : RoundsTo(actual, d)} \cup {-MaxDelta})

\* A variant without the lower bound, and the code's.
ClampAbove(bits) == Min({MaxBits, bits})
Clamp(bits) == Max({MinBits, Min({MaxBits, bits})})

Elapsed(ts, start) == IF ts > start THEN ts - start ELSE 0

GenesisAdjuster == [bits |-> MinBits, start |-> 0, height |-> 0]

\* record_block: only the last block of an epoch moves the difficulty.
RecordBlock(adj, h, ts) ==
  IF h % EpochSize # 0 THEN adj
  ELSE [bits |-> Clamp(adj.bits + RawDelta(Elapsed(ts, adj.start))),
        start |-> ts, height |-> h]

----------------------------------------------------------------------------
(* Histories *)

Height(path) == Len(path)
LastTs(path) == IF path = <<>> THEN 0 ELSE Last(path).ts
UpTo(path, h) == SubSeq(path, 1, h)

\* 1 << difficulty_bits
Work(block) == 2^block.bits

\* The reference: what a history says of difficulty, work and seed.
AdjusterOf(path) ==
  LET after[n \in 0..Len(path)] ==
        IF n = 0 THEN GenesisAdjuster
                 ELSE RecordBlock(after[n - 1], n, path[n].ts)
  IN after[Len(path)]

WorkOf(path) == SumFunction([h \in DOMAIN path |-> Work(path[h])])

\* The block that pinned the seed of a history's last one, with its history.
CheckpointOf(path) == UpTo(path, Governing(Height(path)))
SeedOf(path) == IF path = <<>> THEN NoSeed ELSE path[Governing(Len(path))].seed

\* The times from a history to its next block.  Only the length of an epoch
\* counts, so only its last block takes longer than one.
GapsAfter(path) == IF (Len(path) + 1) % EpochSize = 0 THEN Gaps ELSE {1}

BlocksAfter(path, seeds, bits) ==
  {[seed |-> s, ts |-> LastTs(path) + g, bits |-> bits] :
      s \in seeds, g \in GapsAfter(path)}

\* The seeds a miner may put in the block after a tip.
SeedsAfter(path, pinned, live) ==
  IF IsCheckpoint(Len(path) + 1) THEN live ELSE {pinned}

----------------------------------------------------------------------------
(* Start-up *)

Point(path, seed, tip, adj, work) ==
  [path |-> path, seed |-> seed, btc |-> tip, adj |-> adj, work |-> work]
GenesisPoint == Point(<<>>, NoSeed, 0, GenesisAdjuster, 0)

\* NodeState as the task publishes it.
Published(point) ==
  [path |-> point.path, seed |-> point.seed, btc |-> point.btc, bits |-> point.adj.bits]

\* BlockStore::latest_checkpoint: the newest row with a Bitcoin height.
PinnedRows == {h \in Heights : rows[h].btc > 0}
LatestCheckpoint == rows[Max(PinnedRows)]

\* The rows up to a tip are its history.
Linked(path) == \A h \in 1..Height(path) : rows[h].path = UpTo(path, h)

\* Whether the store's newest checkpoint replaces the one in chain-state.json.
Restores == PinnedRows # {} /\ LatestCheckpoint.btc > saved.btc

\* mining_loop up to its catch-up, with the first fetch.
Start ==
  /\ pc = "down"
  /\ LET point == IF Restores
                    THEN [saved EXCEPT !.seed = Last(LatestCheckpoint.path).seed,
                                       !.btc = LatestCheckpoint.btc]
                    ELSE saved
     IN /\ cur' = point
        /\ st' = Published(point)
  /\ strayed' = (strayed \/ ~Linked(saved.path))
  /\ elsewhere' = (elsewhere \/
       (Restores /\ CheckpointOf(LatestCheckpoint.path) # CheckpointOf(saved.path)))
  /\ obs' \in FetchBtc(Mock)
  /\ pc' = "catchup"
  /\ UNCHANGED <<rows, saved, pending, won, fetched, peer, crashes, blinded>>

Init ==
  /\ rows = [h \in Heights |-> NoRow]
  /\ saved = GenesisPoint
  /\ st = Published(GenesisPoint)
  /\ obs = Mock
  /\ pending = {}
  /\ pc = "down"
  /\ cur = GenesisPoint
  /\ won = 0
  /\ fetched = [task |-> NoFetch, observer |-> NoFetch]
  /\ peer = <<>>
  /\ crashes = 0
  /\ strayed = FALSE
  /\ elsewhere = FALSE
  /\ blinded = FALSE

\* The process dies: memory is lost, the disk is not.
Crash ==
  /\ pc # "down"
  /\ crashes < MaxCrashes
  /\ crashes' = crashes + 1
  /\ pc' = "down"
  /\ st' = Published(GenesisPoint)
  /\ obs' = Mock
  /\ pending' = {}
  /\ cur' = GenesisPoint
  /\ won' = 0
  /\ fetched' = [task |-> NoFetch, observer |-> NoFetch]
  /\ peer' = <<>>
  /\ UNCHANGED <<disk, flags>>

----------------------------------------------------------------------------
(* Fetches: an observation read before the request, another one written after *)

Writes(who) ==
  /\ obs' = fetched[who]
  /\ blinded' = (blinded \/ (fetched[who] = Mock /\ obs # Mock))
  /\ fetched' = [fetched EXCEPT ![who] = NoFetch]

\* btc_observer_task
ObserverFetches ==
  /\ pc # "down"
  /\ fetched.observer = NoFetch
  /\ \E fresh \in FetchBtc(obs) : fetched' = [fetched EXCEPT !.observer = fresh]
  /\ UNCHANGED <<disk, st, obs, pending, pc, cur, won, peer, crashes, flags>>

ObserverWrites ==
  /\ fetched.observer # NoFetch
  /\ Writes("observer")
  /\ UNCHANGED <<disk, st, pending, pc, cur, won, peer, crashes, strayed, elsewhere>>

----------------------------------------------------------------------------
(* Claims *)

\* pending_claims.entry(height): the first claim of a miner is kept.
KeepFirst(claims, c) ==
  IF \E d \in claims : Height(d.path) = Height(c.path) /\ d.own = c.own
    THEN claims ELSE claims \cup {c}

RetainAbove(claims, h) == {c \in claims : Height(c.path) > h}

\* accept_signed_claim: a claim for the published tip, by another miner.
PeerClaim ==
  /\ pc # "down"
  /\ Height(st.path) < MaxMined
  /\ \E b \in BlocksAfter(st.path, SeedsAfter(st.path, st.seed, Live), st.bits) :
       /\ IsCheckpoint(Height(st.path) + 1)
            => Plausible(b.seed, st.btc, obs.tip)
       /\ pending' = KeepFirst(pending, [path |-> Append(st.path, b), own |-> FALSE])
  /\ UNCHANGED <<disk, st, obs, pc, cur, won, fetched, peer, crashes, flags>>

----------------------------------------------------------------------------
(* Synchronising and rolling back *)

\* A history with one more block, as honest nodes on it may have mined it.
GrownBy(path) ==
  {Append(path, b) : b \in BlocksAfter(path, SeedsAfter(path, SeedOf(path), Live),
                                       AdjusterOf(path).bits)}

\* The heavier chains a peer may have: one to Lead blocks on a part of this
\* node's history, or on a block its store has.
PeerChains ==
  LET bases == {UpTo(cur.path, h) : h \in 0..Height(cur.path)}
                 \cup {rows[h].path : h \in Heights}
      grown[n \in 0..Lead] ==
        IF n = 0 THEN bases
        ELSE UNION {GrownBy(p) : p \in {q \in grown[n - 1] : Height(q) < MaxHeight}}
  IN {p \in UNION {grown[n] : n \in 0..Lead} : WorkOf(p) > cur.work}

\* catch_up_from_peers, where a peer is heavier and where none is.
CatchUp ==
  /\ pc = "catchup"
  /\ \/ /\ pc' = "mine"
        /\ UNCHANGED peer
     \/ /\ peer' \in PeerChains
        /\ pc' = "sync"
  /\ UNCHANGED <<disk, st, obs, pending, cur, won, fetched, crashes, flags>>

\* The checks of sync_forward_from_peer on the record at the next height.
Accepts ==
  LET n == Height(cur.path) + 1
  IN /\ n <= Height(peer)
     /\ UpTo(peer, n - 1) = cur.path
     /\ peer[n].bits = cur.adj.bits
     /\ ~IsCheckpoint(n) => peer[n].seed = cur.seed

\* The task after the peer's next record.
Synced ==
  LET n == Height(cur.path) + 1
      pins == IsCheckpoint(n)
  IN Point(UpTo(peer, n),
           IF pins THEN peer[n].seed ELSE cur.seed,
           IF pins THEN SeedOf(UpTo(peer, n)).tip ELSE cur.btc,
           RecordBlock(cur.adj, n, peer[n].ts),
           cur.work + Work(peer[n]))

\* One record of sync_forward_from_peer.  A peer states the Bitcoin height of
\* its own governing checkpoint.
SyncRecord ==
  /\ pc = "sync"
  /\ Accepts
  /\ LET n == Height(cur.path) + 1
     IN /\ rows' = [rows EXCEPT ![n] = [path |-> UpTo(peer, n),
                                         btc |-> SeedOf(UpTo(peer, n)).tip]]
        /\ cur' = Synced
        /\ st' = Published(Synced)
        /\ pending' = RetainAbove(pending, n)
  /\ UNCHANGED <<saved, obs, pc, won, fetched, peer, crashes, flags>>

\* The target is reached, a record is refused, or the peer stops answering.
SyncEnd ==
  /\ pc = "sync"
  /\ pc' = "mine"
  /\ peer' = <<>>
  /\ UNCHANGED <<disk, st, obs, pending, cur, won, fetched, crashes, flags>>

\* The probe of reconcile_fork compares the peer's record with the row here.
SameAt(p, h) == rows[h].path = UpTo(p, h)
ProbeFloor == Max({0, Height(cur.path) - (EpochSize - 1)})

\* reconcile_fork where the peer is ahead on this node's history.
ReconcileForward ==
  /\ pc = "top"
  /\ \E p \in PeerChains :
       /\ Height(p) >= Height(cur.path)
       /\ Height(cur.path) = ProbeFloor \/ SameAt(p, Height(cur.path))
       /\ peer' = p
  /\ pc' = "sync"
  /\ UNCHANGED <<disk, st, obs, pending, cur, won, fetched, crashes, flags>>

\* The highest height above the floor where the two agree; every height above
\* it has a row.
ForkPoints(p) ==
  {f \in (ProbeFloor + 1)..(Height(cur.path) - 1) :
     /\ SameAt(p, f)
     /\ \A h \in (f + 1)..Height(cur.path) : rows[h] # NoRow /\ ~SameAt(p, h)}

\* A fork point before the running epoch would need an older adjuster; the
\* variant does not ask.
AnyEpoch(f) == TRUE
WithinEpoch(f) == f >= cur.adj.height

\* work_removed
WorkAbove(f) ==
  SumFunction([h \in (f + 1)..Height(cur.path) |-> Work(Last(rows[h].path))])

\* The task rolled back to a fork point, with a subtraction that saturates; the
\* variant keeps its checkpoint.
RolledBackKeepSeed(f) ==
  [cur EXCEPT !.path = rows[f].path, !.work = Max({0, @ - WorkAbove(f)})]
RolledBack(f) ==
  LET pinned == rows[Governing(f)]
  IN [cur EXCEPT !.path = rows[f].path, !.work = Max({0, @ - WorkAbove(f)}),
                 !.seed = Last(pinned.path).seed, !.btc = pinned.btc]

\* reconcile_fork where the chains have diverged.
RollBack ==
  /\ pc = "top"
  /\ \E p \in PeerChains : \E f \in ForkPoints(p) :
       /\ Height(p) >= Height(cur.path)
       /\ WithinEpoch(f)
       /\ rows[Governing(f)] # NoRow
       /\ rows' = [h \in Heights |-> IF h <= f THEN rows[h] ELSE NoRow]
       /\ cur' = RolledBack(f)
       /\ st' = [Published(RolledBack(f)) EXCEPT !.bits = st.bits]
       /\ pending' = RetainAbove(pending, f)
       /\ peer' = p
  /\ pc' = "sync"
  /\ UNCHANGED <<saved, obs, won, fetched, crashes, flags>>

\* The timer has not elapsed, there is no heavier peer, or it is refused.
SkipReconcile ==
  /\ pc = "top"
  /\ pc' = "mine"
  /\ UNCHANGED <<disk, st, obs, pending, cur, won, fetched, peer, crashes, flags>>

----------------------------------------------------------------------------
(* Mining *)

\* The next block of this node with a seed and, at a checkpoint, its proof.
MineWith(seed) ==
  /\ \E b \in BlocksAfter(cur.path, {seed}, cur.adj.bits) :
       pending' = KeepFirst(pending, [path |-> Append(cur.path, b), own |-> TRUE])
  /\ st' = [st EXCEPT !.bits = cur.adj.bits]
  /\ pc' = "grace"

\* Between checkpoints the pinned seed is used again.
Mine ==
  /\ pc = "mine"
  /\ Height(cur.path) < MaxMined
  /\ ~IsCheckpoint(Height(cur.path) + 1)
  /\ MineWith(cur.seed)
  /\ UNCHANGED <<disk, obs, cur, won, fetched, peer, crashes, flags>>

\* At a checkpoint height: the last observation is read, a request is sent.
FetchCheckpoint ==
  /\ pc = "mine"
  /\ Height(cur.path) < MaxMined
  /\ IsCheckpoint(Height(cur.path) + 1)
  /\ \E fresh \in FetchBtc(obs) : fetched' = [fetched EXCEPT !.task = fresh]
  /\ pc' = "fetch"
  /\ UNCHANGED <<disk, st, obs, pending, cur, won, peer, crashes, flags>>

\* while fresh.tip_height == 0 && btc_checkpoint_tip_height > 0.  One variant
\* never waits, the other waits for a new Bitcoin block.
NeverBlocked == FALSE
BlockedUntilNewer == fetched.task.tip <= cur.btc /\ cur.btc > 0
Blocked == fetched.task.tip = 0 /\ cur.btc > 0

RetryFetch ==
  /\ pc = "fetch"
  /\ Blocked
  /\ fetched' = [fetched EXCEPT !.task = NoFetch]
  /\ pc' = "mine"
  /\ UNCHANGED <<disk, st, obs, pending, cur, won, peer, crashes, flags>>

\* The observation is kept for the handlers and pinned in the candidate.
MineCheckpoint ==
  /\ pc = "fetch"
  /\ ~Blocked
  /\ Writes("task")
  /\ MineWith(fetched.task)
  /\ UNCHANGED <<disk, cur, won, peer, crashes, strayed, elsewhere>>

\* The task after the winner of the election: it pins the winner's seed, but
\* its own Bitcoin height keeps the value it has.
Extended(c) ==
  LET n == Height(cur.path) + 1
      b == Last(c.path)
  IN Point(c.path,
           IF IsCheckpoint(n) THEN b.seed ELSE cur.seed,
           cur.btc,
           RecordBlock(cur.adj, n, b.ts),
           cur.work + Work(b))

\* The Bitcoin height of a block: at a checkpoint that of the winner's proof, not,
\* as in the variant, what this node has observed.
ObservedHeight(c, n) == IF IsCheckpoint(n) THEN obs.tip ELSE st.btc
PinnedHeight(c, n) == IF IsCheckpoint(n) THEN Last(c.path).seed.tip ELSE st.btc

\* The election, and insert_block of the winner.
Elect ==
  /\ pc = "grace"
  /\ LET n == Height(cur.path) + 1
     IN \E c \in pending :
          /\ Height(c.path) = n
          /\ won' = PinnedHeight(c, n)
          /\ cur' = Extended(c)
          /\ rows' = [rows EXCEPT ![n] = [path |-> c.path, btc |-> won']]
          /\ pending' = RetainAbove(pending, n)
          /\ strayed' = (strayed \/ UpTo(c.path, n - 1) # cur.path)
  /\ pc' = "stored"
  /\ UNCHANGED <<saved, st, obs, fetched, peer, crashes, elsewhere, blinded>>

\* save_chain_state
Save ==
  /\ pc = "stored"
  /\ saved' = [cur EXCEPT !.btc = won]
  /\ pc' = "saved"
  /\ UNCHANGED <<rows, st, obs, pending, cur, won, fetched, peer, crashes, flags>>

Publish ==
  /\ pc = "saved"
  /\ st' = [Published(cur) EXCEPT !.btc = won]
  /\ won' = 0
  /\ pc' = "top"
  /\ UNCHANGED <<disk, obs, pending, cur, fetched, peer, crashes, flags>>

\* Bound of the model: nothing is mined past MaxMined.
AtBound ==
  /\ pc = "mine"
  /\ Height(cur.path) >= MaxMined
  /\ UNCHANGED vars

Task == \/ CatchUp \/ SyncEnd \/ SyncRecord
        \/ SkipReconcile \/ ReconcileForward \/ RollBack
        \/ Mine \/ FetchCheckpoint \/ RetryFetch \/ MineCheckpoint
        \/ Elect \/ Save \/ Publish

Observer == ObserverFetches \/ ObserverWrites

Next == \/ Start \/ Crash \/ Task \/ Observer
        \/ PeerClaim \/ AtBound

Spec == Init /\ [][Next]_vars

\* The task and the observer run; nothing restarts a process and nothing obliges
\* a peer or the providers.
FairSpec == Spec /\ WF_vars(Task) /\ WF_vars(Observer)

----------------------------------------------------------------------------
(* Properties *)

Block == [seed : Observations, ts : Nat, bits : MinBits..MaxBits]
Histories == {path \in Seq(Block) : Height(path) <= MaxHeight}
Adjusters == [bits : MinBits..MaxBits, start : Nat, height : 0..MaxHeight]
BtcHeights == {0} \cup Tips

Rows == {row \in [path : Histories, btc : BtcHeights] : row.path = <<>> => row = NoRow}
Points == [path : Histories, seed : Observations, btc : BtcHeights,
           adj : Adjusters, work : Nat]
States == [path : Histories, seed : Observations, btc : BtcHeights, bits : MinBits..MaxBits]
Claims == [path : Histories \ {<<>>}, own : BOOLEAN]

\* Every variable has its type.
TypeOK ==
  /\ rows \in [Heights -> Rows]
  /\ \A h \in Heights : Height(rows[h].path) \in {0, h}
  /\ saved \in Points
  /\ cur \in Points
  /\ st \in States
  /\ obs \in Live \cup {Mock}
  /\ \A c \in pending : c \in Claims
  /\ fetched \in [{"task", "observer"} -> Live \cup {Mock, NoFetch}]
  /\ pc \in {"down", "catchup", "top", "sync", "mine", "fetch", "grace", "stored",
             "saved"}
  /\ won \in BtcHeights
  /\ peer \in Histories
  /\ crashes \in 0..MaxCrashes
  /\ {strayed, elsewhere, blinded} \subseteq BOOLEAN

\* Between checkpoints every block, and the next one to be mined, uses the seed
\* pinned at its governing checkpoint, on a node that mines, synchronises, rolls
\* back and restarts.  It fails only on a chain that strayed, and after a restart
\* whose newest stored checkpoint is not of its chain: the code takes its seed.
SeedGovernsHeight ==
  ~strayed /\ ~elsewhere =>
    /\ cur.seed = SeedOf(cur.path)
    /\ \A h \in 1..Height(cur.path) : cur.path[h].seed = SeedOf(UpTo(cur.path, h))

\* The published Bitcoin height, which incoming checkpoints are held against, is
\* that of some checkpoint of the chain.  It need not be the governing one: the
\* task's own copy misses the checkpoints it mined and is published by the next
\* synchronised block.
PublishedHeightIsPinned ==
  ~strayed /\ ~elsewhere =>
    \/ st.btc = 0
    \/ \E h \in 1..Height(st.path) : IsCheckpoint(h) /\ st.path[h].seed.tip = st.btc

\* Once the chain has pinned a real Bitcoin tip it pins no mock one over it, be
\* it in an outage or after a restart in one.  It fails only on a chain that
\* strayed, and if a fetch that failed late has put the mock observation back.
NoMockOverReal ==
  ~blinded /\ ~strayed =>
    \A g, h \in 1..Height(cur.path) :
      /\ g < h /\ IsCheckpoint(g) /\ IsCheckpoint(h)
      /\ cur.path[g].seed.tip > 0
      => cur.path[h].seed.tip > 0

\* The adjuster and the work a node carries through elections, synchronisation,
\* rollbacks and restarts are those of a replay of its chain from genesis.
DifficultyIsOfChain ==
  ~strayed =>
    /\ cur.adj = AdjusterOf(cur.path)
    /\ cur.work = WorkOf(cur.path)

\* The task does not wait at a checkpoint for ever once the Bitcoin providers
\* have answered the observer: it reaches the bound, unless the process is gone.
OutageEnds ==
  [](fetched.observer.tip > 0 => <>(Height(cur.path) >= MaxMined \/ pc = "down"))

=============================================================================
