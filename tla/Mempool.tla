------------------------------- MODULE Mempool -------------------------------
(***************************************************************************)
(* The pending transactions of a node: the map in NodeState, the table in   *)
(* the block store that a restart reloads it from, the handlers that queue  *)
(* transactions, and the mining task that confirms them, drops them and     *)
(* queues them again when it rolls back (src/l1-chain/node/src/main.rs and  *)
(* store.rs).                                                               *)
(*                                                                         *)
(* A block is the set of its transactions, executed in some order; what the *)
(* ledger has executed is the set of transactions applied, which determines *)
(* nonces and balances.  Signatures verify, rewards and fees are part of the*)
(* funds, and the ledger reopened at a height is the execution of the chain *)
(* up to it (RewardLedger says where it is not).                            *)
(***************************************************************************)
EXTENDS Integers, Sequences, FiniteSets, FiniteSetsExt, SequencesExt

CONSTANTS
  Accounts,
  Funds,        \* what each account has but for these transactions
  Txs,          \* [from, to, amount, nonce, ...]: what wallets may sign
  Handlers,     \* request handlers that may run at the same time
  NoTx,
  MaxPool,      \* MAX_MEMPOOL_SIZE
  MaxTxs,       \* MAX_TXS_PER_BLOCK
  ReorgDepth,   \* MAX_AUTO_REORG_DEPTH
  MaxHeight,    \* bound: no chain is longer
  MaxCrashes    \* bound: how many times the process may die

ASSUME TxAssumption ==
  /\ IsFiniteSet(Txs)
  /\ NoTx \notin Txs
  /\ Funds \in [Accounts -> Nat]
  /\ \A t \in Txs : /\ {t.from, t.to} \subseteq Accounts
                    /\ t.from # t.to
                    /\ t.amount \in Nat \ {0}
                    /\ t.nonce \in Nat

ASSUME BoundAssumption ==
  {MaxPool, MaxTxs, ReorgDepth, MaxHeight, MaxCrashes} \subseteq Nat

VARIABLES
  \* on disk
  table,      \* the mempool table
  saved,      \* the chain behind chain-state.json
  \* in memory
  mempool,    \* NodeState.mempool
  ledger,     \* the transactions the ledger has executed
  chain,      \* the blocks of the task's chain
  \* the mining task
  pc,
  block,      \* its candidate, then the winner's transactions
  \* each handler's transaction and how far it got
  handler,
  \* history
  crashes,    \* how often the process died
  owed,       \* transactions a wallet was told are queued, but for those a
              \* restart deleted
  raced,      \* queued after the ledger had moved past their check
  unsaved     \* a crash met a ledger other than the saved chain's, or a half
              \* done rollback

vars == <<table, saved, mempool, ledger, chain, pc, block, handler, crashes,
          owed, raced, unsaved>>

----------------------------------------------------------------------------
(* Execution *)

Confirmed(c) == UNION ToSet(c)

Nonce(done, a) == Cardinality({t \in done : t.from = a})

Balance(done, a) ==
  Funds[a] + MapThenSumSet(LAMBDA t : t.amount, {t \in done : t.to = a})
           - MapThenSumSet(LAMBDA t : t.amount, {t \in done : t.from = a})

\* The sender's next nonce, and money enough.
Executable(done, t) ==
  /\ t.nonce = Nonce(done, t.from)
  /\ t.amount <= Balance(done, t.from)

\* simulate_block_execution: what applies of a list, in its order; the variant
\* gives up at the first transaction that does not.
AppliedPrefix(done, txs) ==
  FoldLeft(LAMBDA got, t :
             IF Executable(done \cup got.set, t) /\ got.ok
               THEN [got EXCEPT !.set = @ \cup {t}] ELSE [got EXCEPT !.ok = FALSE],
           [set |-> {}, ok |-> TRUE], txs).set
Applied(done, txs) ==
  FoldLeft(LAMBDA set, t : IF Executable(done \cup set, t) THEN set \cup {t} ELSE set,
           {}, txs)

\* The blocks another node may build on a state: everything in them applies.
BlocksOn(done) ==
  {b \in SUBSET (Txs \ done) :
     /\ Cardinality(b) <= MaxTxs
     /\ \E txs \in SetToSeqs(b) : Applied(done, txs) = b}

\* The task holds the ledger mutex from executing the winner to publishing it.
HoldsLedger == pc \in {"applied", "dropped", "removed", "recorded"}

----------------------------------------------------------------------------
(* Submission: enqueue_transaction, by handle_submit_transaction and          *)
(* handle_wallet_send                                                        *)

Idle == [phase |-> "idle", tx |-> NoTx]

\* Under the ledger mutex.
Check(h) ==
  /\ pc # "down"
  /\ ~HoldsLedger
  /\ handler[h].phase = "idle"
  /\ \E t \in Txs :
       /\ Executable(ledger, t)
       /\ handler' = [handler EXCEPT ![h] = [phase |-> "checked", tx |-> t]]
  /\ UNCHANGED <<table, saved, mempool, ledger, chain, pc, block, crashes,
                 owed, raced, unsaved>>

\* Under the state lock; a full pool refuses what it does not have.
Queue(h) ==
  /\ handler[h].phase = "checked"
  /\ LET t == handler[h].tx
     IN IF Cardinality(mempool) >= MaxPool /\ t \notin mempool
          THEN /\ handler' = [handler EXCEPT ![h] = Idle]
               /\ UNCHANGED <<mempool, raced>>
          ELSE /\ handler' = [handler EXCEPT ![h].phase = "queued"]
               /\ mempool' = mempool \cup {t}
               /\ raced' = IF t \in ledger THEN raced \cup {t} ELSE raced
  /\ UNCHANGED <<table, saved, ledger, chain, pc, block, crashes, owed, unsaved>>

\* mempool_insert, and the reply; the variant replies without it.
PersistNothing(h) ==
  /\ handler[h].phase = "queued"
  /\ owed' = owed \cup {handler[h].tx}
  /\ handler' = [handler EXCEPT ![h] = Idle]
  /\ UNCHANGED <<table, saved, mempool, ledger, chain, pc, block, crashes, raced,
                 unsaved>>
Persist(h) ==
  /\ handler[h].phase = "queued"
  /\ table' = table \cup {handler[h].tx}
  /\ owed' = owed \cup {handler[h].tx}
  /\ handler' = [handler EXCEPT ![h] = Idle]
  /\ UNCHANGED <<saved, mempool, ledger, chain, pc, block, crashes, raced, unsaved>>

----------------------------------------------------------------------------
(* Mining *)

\* The candidate: any MaxTxs of the pool, in the map's order, simulated.
Candidate ==
  /\ pc = "top"
  /\ Len(chain) < MaxHeight
  /\ \E txs \in UNION {SetToSeqs(s) : s \in kSubset(Min({MaxTxs, Cardinality(mempool)}), mempool)} :
       block' = Applied(ledger, txs)
  /\ pc' = "grace"
  /\ UNCHANGED <<table, saved, mempool, ledger, chain, handler, crashes, owed,
                 raced, unsaved>>

\* The election: the own candidate or a claim of another miner; its transactions
\* are executed.
Apply ==
  /\ pc = "grace"
  /\ \E winner \in {block} \cup BlocksOn(ledger) :
       /\ block' = winner
       /\ ledger' = ledger \cup winner
       /\ chain' = Append(chain, winner)
  /\ pc' = "applied"
  /\ UNCHANGED <<table, saved, mempool, handler, crashes, owed, raced, unsaved>>

\* What the block confirmed leaves the pool, the winner's as well as the own.
DropConfirmed ==
  /\ pc = "applied"
  /\ mempool' = mempool \ block
  /\ pc' = "dropped"
  /\ UNCHANGED <<table, saved, ledger, chain, block, handler, crashes, owed,
                 raced, unsaved>>

\* mempool_remove of each
RemoveConfirmed ==
  /\ pc = "dropped"
  /\ table' = table \ block
  /\ pc' = "removed"
  /\ UNCHANGED <<saved, mempool, ledger, chain, block, handler, crashes, owed,
                 raced, unsaved>>

\* insert_block and save_chain_state
Save ==
  /\ pc = "removed"
  /\ saved' = chain
  /\ pc' = "recorded"
  /\ UNCHANGED <<table, mempool, ledger, chain, block, handler, crashes, owed,
                 raced, unsaved>>

\* The tip is published and the ledger mutex released.
Publish ==
  /\ pc = "recorded"
  /\ pc' = "top"
  /\ block' = {}
  /\ UNCHANGED <<table, saved, mempool, ledger, chain, handler, crashes, owed,
                 raced, unsaved>>

----------------------------------------------------------------------------
(* Synchronisation: a peer's blocks are executed, stored and published one at *)
(* a time; chain-state.json is not written                                   *)

\* A startup catch-up, or a reconciliation with a peer that is further ahead.
BeginSync ==
  /\ pc = "top"
  /\ Len(chain) < MaxHeight
  /\ pc' = "sync"
  /\ UNCHANGED <<table, saved, mempool, ledger, chain, block, handler, crashes,
                 owed, raced, unsaved>>

\* simulate_block_execution must apply the whole record; it is executed.
SyncRecord ==
  /\ pc = "sync"
  /\ Len(chain) < MaxHeight
  /\ \E record \in BlocksOn(ledger) :
       /\ block' = record
       /\ ledger' = ledger \cup record
       /\ chain' = Append(chain, record)
  /\ pc' = "synced"
  /\ UNCHANGED <<table, saved, mempool, handler, crashes, owed, raced, unsaved>>

\* The record is published; a variant forgets that it confirms transactions.
PublishTipOnly ==
  /\ pc = "synced"
  /\ pc' = "syncdrop"
  /\ UNCHANGED <<table, saved, mempool, ledger, chain, block, handler, crashes,
                 owed, raced, unsaved>>
PublishSynced ==
  /\ pc = "synced"
  /\ mempool' = mempool \ block
  /\ pc' = "syncdrop"
  /\ UNCHANGED <<table, saved, ledger, chain, block, handler, crashes, owed,
                 raced, unsaved>>

RemoveSynced ==
  /\ pc = "syncdrop"
  /\ table' = table \ block
  /\ block' = {}
  /\ pc' = "sync"
  /\ UNCHANGED <<saved, mempool, ledger, chain, handler, crashes, owed, raced,
                 unsaved>>

SyncEnd ==
  /\ pc = "sync"
  /\ pc' = "top"
  /\ UNCHANGED <<table, saved, mempool, ledger, chain, block, handler, crashes,
                 owed, raced, unsaved>>

\* A variant that keeps the ledger.
RollBackChain ==
  /\ pc = "top"
  /\ Len(chain) < MaxHeight
  /\ \E f \in 1 .. Len(chain) - 1 :
       /\ Len(chain) - f <= ReorgDepth
       /\ chain' = SubSeq(chain, 1, f)
       /\ block' = ledger \ Confirmed(chain')
  /\ pc' = "rolled"
  /\ UNCHANGED <<table, saved, mempool, ledger, handler, crashes, owed, raced, unsaved>>

\* reconcile_fork: the ledger is reopened at the fork point; `block` keeps what
\* the rows above it confirmed.
RollBack ==
  /\ pc = "top"
  /\ Len(chain) < MaxHeight
  /\ \E f \in 1 .. Len(chain) - 1 :
       /\ Len(chain) - f <= ReorgDepth
       /\ chain' = SubSeq(chain, 1, f)
       /\ ledger' = Confirmed(chain')
       /\ block' = ledger \ ledger'
  /\ pc' = "rolled"
  /\ UNCHANGED <<table, saved, mempool, handler, crashes, owed, raced, unsaved>>

\* requeue_rolled_back_transactions, with no regard to the cap, under the state
\* lock; a variant leaves it to the next restart.
RequeueOnDisk ==
  /\ table' = table \cup block
  /\ UNCHANGED mempool
Requeue ==
  /\ table' = table \cup block
  /\ mempool' = mempool \cup block

PublishRollBack ==
  /\ pc = "rolled"
  /\ Requeue
  /\ block' = {}
  /\ pc' = "sync"
  /\ UNCHANGED <<saved, ledger, chain, handler, crashes, owed, raced, unsaved>>

----------------------------------------------------------------------------
(* Crash and restart *)

Crash ==
  /\ pc # "down"
  /\ crashes < MaxCrashes
  /\ crashes' = crashes + 1
  /\ unsaved' = (unsaved \/ pc = "rolled" \/ ledger # Confirmed(saved))
  /\ pc' = "down"
  /\ mempool' = {}
  /\ block' = {}
  /\ handler' = [h \in Handlers |-> Idle]
  /\ raced' = {}
  /\ UNCHANGED <<table, saved, ledger, chain, owed>>

\* The ledger reopened at the resume pointer decides which of the table's
\* transactions are pending again; the others are deleted.
Restart ==
  /\ pc = "down"
  /\ chain' = saved
  /\ ledger' = Confirmed(saved)
  /\ mempool' = {t \in table : Executable(ledger', t)}
  /\ table' = mempool'
  /\ owed' = owed \ (table \ mempool')
  /\ pc' = "top"
  /\ UNCHANGED <<saved, block, handler, crashes, raced, unsaved>>

----------------------------------------------------------------------------
(* The specification *)

Init ==
  /\ table = {}
  /\ saved = <<>>
  /\ mempool = {}
  /\ ledger = {}
  /\ chain = <<>>
  /\ pc = "top"
  /\ block = {}
  /\ handler = [h \in Handlers |-> Idle]
  /\ crashes = 0
  /\ owed = {}
  /\ raced = {}
  /\ unsaved = FALSE

MiningTask ==
  \/ Candidate \/ Apply \/ DropConfirmed \/ RemoveConfirmed \/ Save \/ Publish
  \/ BeginSync \/ SyncRecord \/ PublishSynced \/ RemoveSynced \/ SyncEnd
  \/ RollBack \/ PublishRollBack

Submission == \E h \in Handlers : Check(h) \/ Queue(h) \/ Persist(h)

\* Where the bound on the height ends a behaviour.
AtBound ==
  /\ pc = "top"
  /\ Len(chain) = MaxHeight
  /\ UNCHANGED vars

Next == MiningTask \/ Submission \/ Crash \/ Restart \/ AtBound

Spec == Init /\ [][Next]_vars

----------------------------------------------------------------------------
(* Properties *)

\* Every variable has its type, and the ledger has executed the blocks of the
\* task's chain and no others, also after a rollback (reconcile_fork).
TypeOK ==
  /\ {table, mempool, ledger, block, owed, raced} \subseteq SUBSET Txs
  /\ {saved, chain} \subseteq Seq(SUBSET Txs)
  /\ pc \in {"top", "grace", "applied", "dropped", "removed", "recorded", "sync",
             "synced", "syncdrop", "rolled", "down"}
  /\ \A h \in Handlers :
       \/ handler[h] = Idle
       \/ handler[h].phase \in {"checked", "queued"} /\ handler[h].tx \in Txs
  /\ crashes \in 0..MaxCrashes
  /\ unsaved \in BOOLEAN
  /\ ledger = Confirmed(chain)

\* What a wallet was told is queued is confirmed or pending: through elections
\* lost to other miners, synchronised blocks, rollbacks and restarts ("so a reorg
\* never silently drops a transaction the network had accepted").  Two ways out:
\* a restart found it not executable, or a crash left the resume pointer
\* behind the ledger that had confirmed it, or rows deleted and not yet queued.
NoneLost ==
  pc \notin {"down", "rolled"} /\ ~unsaved =>
    owed \subseteq ledger \cup mempool

\* A confirmed transaction is not pending, whoever mined it and however the block
\* came; only one queued after it was confirmed may stay, since
\* enqueue_transaction lets go of the ledger before it takes the state lock.
ConfirmedLeaves ==
  pc \notin {"applied", "synced"} => mempool \cap ledger \subseteq raced

\* A pending transaction a block can still confirm survives a restart: it is
\* in the table or its handler is about to write it, also after a rollback of the
\* block that had removed it ("Persist so a pending transaction survives a node
\* restart").
LivePersisted ==
  pc \notin {"down", "rolled"} =>
    mempool \ ledger \subseteq
      table \cup {handler[h].tx : h \in {g \in Handlers : handler[g].phase = "queued"}}

\* While the pool fits in a block, stale entries do no harm: the candidate holds
\* a transaction of every sender who has an executable one, whatever order the
\* map gives them in and whatever else is pooled (simulate_block_execution skips
\* what does not apply).
CandidateServesSenders ==
  [][pc = "top" /\ pc' = "grace" /\ Cardinality(mempool) <= MaxTxs =>
       \A t \in mempool : Executable(ledger, t) => \E u \in block' : u.from = t.from]_vars
=============================================================================
