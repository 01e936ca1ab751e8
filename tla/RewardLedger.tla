---------------------------- MODULE RewardLedger ----------------------------
(***************************************************************************)
(* The reward ledger of a node (src/l1-chain/core/src/rewards.rs) as the    *)
(* mining task drives it: a block is simulated, then its transactions and   *)
(* its reward are applied one by one, each to the balances in memory and as *)
(* a row of the append-only ledger.csv; a mined block then moves            *)
(* chain-state.json, a synced one does not.  A restart, and a rollback of   *)
(* reconcile_fork, rebuild the balances from the rows (open_scoped).        *)
(*                                                                         *)
(* chain is the sequence of blocks behind the node's tip and saved the one  *)
(* behind chain-state.json (a block hash commits to its history).           *)
(* Abstracted: signatures always verify, amounts are far from 2^64, and an  *)
(* account that was only ever touched with zero counts as absent.           *)
(***************************************************************************)
EXTENDS Integers, Sequences, SequencesExt

CONSTANTS
  Accounts,         \* addresses
  Txs,              \* signed transactions: from, to, amount, fee, nonce
  Candidates,       \* the transaction lists blocks are built from
  HardCap,          \* HARD_CAP
  InitialReward,    \* INITIAL_BLOCK_REWARD
  HalvingInterval,  \* HALVING_INTERVAL
  MaxHeight,        \* bound: the chain does not grow past this height
  MaxRows,          \* bound: no block is begun once the file has this many rows
  MaxReopens        \* bound: restarts and rollbacks together

\* A node has an address of its own.
ASSUME AccountAssumption == Accounts # {}

\* SignedTransaction::verify: a positive amount, to somebody else.
ASSUME TxAssumption ==
  /\ \A t \in Txs : /\ t.from \in Accounts /\ t.to \in Accounts /\ t.from # t.to
                    /\ t.amount \in Nat \ {0} /\ t.fee \in Nat /\ t.nonce \in Nat
  /\ Candidates \subseteq Seq(Txs)

ASSUME BoundAssumption ==
  /\ {HardCap, InitialReward, MaxHeight, MaxRows, MaxReopens} \subseteq Nat
  /\ HalvingInterval \in Nat \ {0}

VARIABLES
  mem,      \* RewardLedger: balances, nonces, total_mined
  rows,     \* ledger.csv
  chain,    \* the blocks behind the tip
  saved,    \* the blocks behind chain-state.json
  phase,    \* where the mining task is in the current block
  block,    \* the current block
  queue,    \* its transactions not applied yet
  forecast, \* the state its header's state_root commits to
  exact,    \* whether the last reopening found its chain's rows, in order
  reopens   \* how many restarts and rollbacks there were

vars == <<mem, rows, chain, saved, phase, block, queue, forecast, exact, reopens>>

Empty == [balance |-> [a \in Accounts |-> 0], nonce |-> [a \in Accounts |-> 0], total |-> 0]
NoBlock == [txs |-> <<>>, miner |-> CHOOSE a \in Accounts : TRUE, reward |-> 0]

TxRow(h, t, m) == [kind |-> "tx", height |-> h, tx |-> t, miner |-> m, reward |-> 0]
RewardRow(h, m, r) == [kind |-> "reward", height |-> h, tx |-> NoBlock, miner |-> m, reward |-> r]

----------------------------------------------------------------------------
(* Emission and execution *)

Least(a, b) == IF a < b THEN a ELSE b

\* block_reward
BlockReward(h, total) ==
  LET era == h \div HalvingInterval
      reward == IF era >= 64 THEN 0 ELSE InitialReward \div 2^era
  IN  IF total >= HardCap THEN 0 ELSE Least(reward, HardCap - total)

\* A variant that lets an account spend more than it has.
ValidUnfunded(l, t) == t.nonce = l.nonce[t.from]

\* apply_transaction and simulate_block_execution refuse anything else.
Valid(l, t) == /\ t.nonce = l.nonce[t.from]
               /\ l.balance[t.from] >= t.amount + t.fee

Add(b, a, n) == [b EXCEPT ![a] = @ + n]

Transfer(l, t, m) ==
  [l EXCEPT !.balance = Add(Add(Add(@, t.from, -(t.amount + t.fee)), t.to, t.amount), m, t.fee),
            !.nonce[t.from] = t.nonce + 1]

\* RewardLedger::credit
Reward(l, m, r) == [l EXCEPT !.balance = Add(@, m, r), !.total = @ + r]

\* A variant that judges every transaction by the parent state.
SimulateOnParent(l, txs, m) ==
  LET ok == SelectSeq(txs, LAMBDA t : Valid(l, t))
  IN  [applied |-> ok, ledger |-> FoldLeft(LAMBDA s, t : Transfer(s, t, m), l, ok)]

\* simulate_block_execution before the reward: what does not apply is dropped.
Simulate(l, txs, m) ==
  FoldLeft(LAMBDA s, t : IF Valid(s.ledger, t)
                           THEN [applied |-> Append(s.applied, t), ledger |-> Transfer(s.ledger, t, m)]
                           ELSE s,
           [applied |-> <<>>, ledger |-> l], txs)

\* What the header commits to: balances and nonces, not the supply.
Committed(l) == <<l.balance, l.nonce>>

----------------------------------------------------------------------------
(* open_scoped *)

\* debit: saturating_sub
Debit(b, a, n) == [b EXCEPT ![a] = IF @ < n THEN 0 ELSE @ - n]

Larger(a, b) == IF a > b THEN a ELSE b

\* A variant that leaves the nonces at zero.
ReplayTxNoNonce(l, r) ==
  [l EXCEPT !.balance = Add(Add(Debit(@, r.tx.from, r.tx.amount + r.tx.fee), r.tx.to, r.tx.amount),
                            r.miner, r.tx.fee)]

\* A transaction row is replayed unchecked.
ReplayTx(l, r) ==
  [l EXCEPT !.balance = Add(Add(Debit(@, r.tx.from, r.tx.amount + r.tx.fee), r.tx.to, r.tx.amount),
                            r.miner, r.tx.fee),
            !.nonce[r.tx.from] = Larger(@, r.tx.nonce + 1)]

\* A variant that counts every reward row.
AnyReward(i) == TRUE

\* latest_reward_index: of the reward rows of a height, the last one counts.
LatestReward(i) ==
  ~\E j \in i+1 .. Len(rows) : rows[j].kind = "reward" /\ rows[j].height = rows[i].height

OpenScoped(h) ==
  LET inScope == {i \in 1..Len(rows) : rows[i].height <= h}
      replay(l, i) ==
        IF i \notin inScope THEN l
        ELSE IF rows[i].kind = "tx" THEN ReplayTx(l, rows[i])
        ELSE IF LatestReward(i) THEN Reward(l, rows[i].miner, rows[i].reward)
        ELSE l
  IN  FoldLeft(replay, Empty, [i \in 1..Len(rows) |-> i])

----------------------------------------------------------------------------
(* The reference: executing a chain from genesis *)

Execute(l, b) == Reward(FoldLeft(LAMBDA s, t : Transfer(s, t, b.miner), l, b.txs), b.miner, b.reward)

ExecuteChain(c) == FoldLeft(Execute, Empty, c)

\* The rows a node writes that executes c once.
RowsOfBlock(h, b) ==
  [i \in 1..Len(b.txs) |-> TxRow(h, b.txs[i], b.miner)]
    \o IF b.reward = 0 THEN <<>> ELSE <<RewardRow(h, b.miner, b.reward)>>

RowsOf(c) == FoldLeft(LAMBDA s, h : s \o RowsOfBlock(h, c[h]), <<>>, [h \in 1..Len(c) |-> h])

\* The file's rows up to height h, without the rewards a later row supersedes.
LiveRows(h) ==
  LET counts(i) == rows[i].height <= h /\ (rows[i].kind = "reward" => LatestReward(i))
  IN  FoldLeft(LAMBDA s, i : IF counts(i) THEN Append(s, rows[i]) ELSE s, <<>>,
               [i \in 1..Len(rows) |-> i])

----------------------------------------------------------------------------
(* Actions *)

Init ==
  /\ mem = Empty
  /\ rows = <<>>
  /\ chain = <<>>
  /\ saved = <<>>
  /\ phase = "idle"
  /\ block = NoBlock
  /\ queue = <<>>
  /\ forecast = Empty
  /\ exact = TRUE
  /\ reopens = 0

\* A block on the tip, mined here or by a peer, with the transactions that
\* apply to the parent state; its root is what the simulation gives.
BuildBlock(txs, m) ==
  /\ phase = "idle"
  /\ Len(chain) < MaxHeight /\ Len(rows) < MaxRows
  /\ LET reward == BlockReward(Len(chain) + 1, mem.total)
         result == Simulate(mem, txs, m)
     IN  /\ block' = [txs |-> result.applied, miner |-> m, reward |-> reward]
         /\ queue' = result.applied
         /\ forecast' = Reward(result.ledger, m, reward)
  /\ phase' = "apply"
  /\ UNCHANGED <<mem, rows, chain, saved, exact, reopens>>

\* apply_transaction: a transaction that fails here is logged and skipped.
ApplyTransaction ==
  /\ phase = "apply"
  /\ queue # <<>>
  /\ queue' = Tail(queue)
  /\ LET t == Head(queue)
     IN  IF Valid(mem, t)
           THEN /\ mem' = Transfer(mem, t, block.miner)
                /\ rows' = Append(rows, TxRow(Len(chain) + 1, t, block.miner))
           ELSE UNCHANGED <<mem, rows>>
  /\ UNCHANGED <<chain, saved, phase, block, forecast, exact, reopens>>

\* credit: a zero reward leaves no row.  The block is now behind the tip.
CreditReward ==
  /\ phase = "apply"
  /\ queue = <<>>
  /\ mem' = Reward(mem, block.miner, block.reward)
  /\ rows' = IF block.reward = 0 THEN rows
             ELSE Append(rows, RewardRow(Len(chain) + 1, block.miner, block.reward))
  /\ chain' = Append(chain, block)
  /\ phase' = "credited"
  /\ UNCHANGED <<saved, block, queue, forecast, exact, reopens>>

\* A mined block: save_chain_state.
FinishMined ==
  /\ phase = "credited"
  /\ saved' = chain
  /\ phase' = "idle"
  /\ UNCHANGED <<mem, rows, chain, block, queue, forecast, exact, reopens>>

\* A synced block: chain-state.json stays behind.
FinishSynced ==
  /\ phase = "credited"
  /\ phase' = "idle"
  /\ UNCHANGED <<mem, rows, chain, saved, block, queue, forecast, exact, reopens>>

Reopen(c) ==
  /\ reopens < MaxReopens
  /\ reopens' = reopens + 1
  /\ chain' = c
  /\ mem' = OpenScoped(Len(c))
  /\ exact' = (LiveRows(Len(c)) = RowsOf(c))
  /\ UNCHANGED rows

\* reconcile_fork: the blocks above f are abandoned, their rows stay.
RollBack(f) ==
  /\ phase = "idle"
  /\ Reopen(SubSeq(chain, 1, f))
  /\ UNCHANGED <<saved, phase, block, queue, forecast>>

\* The process dies anywhere and starts from chain-state.json.
Restart ==
  /\ Reopen(saved)
  /\ phase' = "idle"
  /\ block' = NoBlock
  /\ queue' = <<>>
  /\ forecast' = Empty
  /\ UNCHANGED saved

AtBound ==
  /\ phase = "idle"
  /\ Len(chain) = MaxHeight \/ Len(rows) >= MaxRows
  /\ UNCHANGED vars

Next ==
  \/ \E txs \in Candidates, m \in Accounts : BuildBlock(txs, m)
  \/ ApplyTransaction \/ CreditReward \/ FinishMined \/ FinishSynced
  \/ \E f \in 1 .. Len(chain) - 1 : RollBack(f)
  \/ Restart \/ AtBound

Spec == Init /\ [][Next]_vars

----------------------------------------------------------------------------
(* Properties *)

Ledgers == [balance : [Accounts -> Nat], nonce : [Accounts -> Nat], total : Nat]
Blocks == [txs : Seq(Txs), miner : Accounts, reward : Nat]

\* Type invariant; no balance ever goes below zero.
TypeOK ==
  /\ mem \in Ledgers
  /\ chain \in Seq(Blocks)
  /\ saved \in Seq(Blocks)
  /\ phase \in {"idle", "apply", "credited"}
  /\ block \in Blocks
  /\ queue \in Seq(Txs)
  /\ forecast \in Ledgers
  /\ exact \in BOOLEAN
  /\ reopens \in 0..MaxReopens

\* The supply that executing the emission schedule up to height h gives.
Scheduled(h) == FoldLeft(LAMBDA total, k : total + BlockReward(k, total), 0, [k \in 1..h |-> k])

\* total_mined is what the schedule says at the tip's height and at most the
\* hard cap, whatever was mined twice, rolled back or replayed: the supply every
\* node derives the next reward from cannot drift.
SupplyIsScheduled ==
  mem.total = Scheduled(Len(chain)) /\ mem.total <= HardCap

\* Applying a block's transactions and reward gives exactly the state its header
\* committed to, and no transaction of the block is refused.
SimulationAgrees ==
  phase = "credited" => Committed(mem) = Committed(forecast)

\* Between blocks the ledger is the execution of the tip's chain from genesis,
\* unless the last reopening found rows that abandoned or repeated blocks left,
\* or a repeated reward moved behind the transactions that spend it.
LedgerIsExecution ==
  exact /\ phase = "idle" => mem = ExecuteChain(chain)

\* No chain the node holds contains two transactions of one account and nonce,
\* even when its ledger was rebuilt from rows that are not its own.
NoNonceTwice ==
  LET used(c) == FoldLeft(LAMBDA s, b : s \o b.txs, <<>>, c)
  IN  \A i, j \in 1..Len(used(chain)) :
        /\ used(chain)[i].from = used(chain)[j].from
        /\ used(chain)[i].nonce = used(chain)[j].nonce
        => i = j

\* "each new credit is immediately flushed to disk so balances survive a node
\* restart" (RewardLedger): the balances after a restart are the chain's.
BalancesSurviveRestart ==
  phase = "idle" => mem.balance = ExecuteChain(chain).balance

=============================================================================
