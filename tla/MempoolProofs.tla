----------------------------- MODULE MempoolProofs -----------------------------
(***************************************************************************)
(* For any wallets, transactions, handlers and bounds, and whatever blocks  *)
(* are made of: what a block can still confirm is on disk, and what a       *)
(* wallet was told is queued is not lost.                                   *)
(*                                                                         *)
(* These two use nothing of what a block's execution admits: they hold for  *)
(* every rule of Executable and every order of Applied.  That a confirmed   *)
(* transaction leaves the pool, also through a restart, is proved from the  *)
(* nonces, and that no stale entry of it keeps a sender out of a block from *)
(* the nonces and balances.                                                 *)
(***************************************************************************)
EXTENDS Mempool, CollectionLemmas

----------------------------------------------------------------------------
(* The inductive invariant *)

HandlersTyped ==
  handler \in [Handlers -> [phase : {"idle", "checked", "queued"}, tx : Txs \cup {NoTx}]]

\* Transactions that handlers have queued and not yet written to the table.
Unwritten == {handler[h].tx : h \in {g \in Handlers : handler[g].phase = "queued"}}

\* Handlers die with the process.
DownIsIdle == pc = "down" => \A h \in Handlers : handler[h].phase = "idle"

\* What is not, or no longer, a matter of the table: executed transactions and,
\* between the two halves of a rollback, those it takes back.
Settled == ledger \cup (IF pc = "rolled" THEN block ELSE {})

\* The block the task clears away has been executed.
BlockIsExecuted == pc \in {"applied", "dropped", "synced", "syncdrop"} => block \subseteq ledger

UnwrittenIsHeld == pc # "down" => Unwritten \subseteq mempool \cup Settled

PoolIsWritten == pc # "down" => mempool \subseteq Settled \cup table \cup Unwritten

\* A crash that lost nothing leaves in the table what the saved chain has not.
OwedIsWritten ==
  ~unsaved => owed \subseteq table \cup (IF pc = "down" THEN Confirmed(saved) ELSE Settled)

OwedIsHeld == ~unsaved /\ pc # "down" => owed \subseteq mempool \cup Settled

Inv ==
  /\ HandlersTyped
  /\ DownIsIdle
  /\ BlockIsExecuted
  /\ UnwrittenIsHeld
  /\ PoolIsWritten
  /\ OwedIsWritten
  /\ OwedIsHeld

----------------------------------------------------------------------------
(* Steps *)

LEMMA InvInit == Init => Inv
BY DEF Init, Inv, HandlersTyped, DownIsIdle, Idle, Unwritten, Settled, BlockIsExecuted,
       UnwrittenIsHeld, PoolIsWritten, OwedIsWritten, OwedIsHeld

\* While handlers stand still, so does what they have not written.
LEMMA UnwrittenStays == UNCHANGED handler => Unwritten' = Unwritten
BY DEF Unwritten

\* enqueue_transaction under the ledger mutex: nothing is held yet.
LEMMA CheckKeeps == ASSUME Inv, NEW h \in Handlers, Check(h) PROVE Inv'
<1>1. HandlersTyped'
  BY DEF Check, Inv, HandlersTyped
<1>2. Unwritten' = Unwritten
  BY DEF Check, Inv, HandlersTyped, Unwritten
<1> QED
  BY <1>1, <1>2
  DEF Check, Inv, DownIsIdle, Settled, BlockIsExecuted, UnwrittenIsHeld, PoolIsWritten,
      OwedIsWritten, OwedIsHeld

\* Under the state lock: what enters the pool is what the handler has to write.
LEMMA QueueKeeps == ASSUME Inv, NEW h \in Handlers, Queue(h) PROVE Inv'
<1> DEFINE t == handler[h].tx
<1>1. CASE handler' = [handler EXCEPT ![h] = Idle] /\ UNCHANGED <<mempool, raced>>
  <2>1. HandlersTyped' /\ Unwritten' = Unwritten
    BY <1>1 DEF Queue, Inv, HandlersTyped, Idle, Unwritten
  <2> QED
    BY <1>1, <2>1
    DEF Queue, Inv, DownIsIdle, Settled, BlockIsExecuted, UnwrittenIsHeld, PoolIsWritten,
        OwedIsWritten, OwedIsHeld
<1>2. CASE handler' = [handler EXCEPT ![h].phase = "queued"] /\ mempool' = mempool \cup {t}
  <2>1. HandlersTyped'
    BY <1>2 DEF Inv, HandlersTyped
  <2>2. Unwritten' = Unwritten \cup {t}
    <3>1. \A g \in Handlers : /\ handler'[g].tx = handler[g].tx
                              /\ handler'[g].phase = IF g = h THEN "queued" ELSE handler[g].phase
      BY <1>2 DEF Inv, HandlersTyped
    <3> QED
      BY <3>1 DEF Unwritten
  <2>3. pc # "down"
    BY DEF Queue, Inv, DownIsIdle
  <2> QED
    BY <1>2, <2>1, <2>2, <2>3
    DEF Queue, Inv, DownIsIdle, Settled, BlockIsExecuted, UnwrittenIsHeld, PoolIsWritten,
        OwedIsWritten, OwedIsHeld
<1> QED
  BY <1>1, <1>2 DEF Queue

\* mempool_insert and the reply: it moves from the handler to the table.
LEMMA PersistKeeps == ASSUME Inv, NEW h \in Handlers, Persist(h) PROVE Inv'
<1> DEFINE t == handler[h].tx
<1>1. HandlersTyped'
  BY DEF Persist, Inv, HandlersTyped, Idle
<1>2. Unwritten' \subseteq Unwritten /\ Unwritten \subseteq Unwritten' \cup {t} /\ t \in Unwritten
  <2>1. /\ \A g \in Handlers \ {h} : handler'[g] = handler[g]
        /\ handler'[h].phase = "idle"
    BY DEF Persist, Inv, HandlersTyped, Idle
  <2> QED
    BY <2>1 DEF Persist, Unwritten
<1>3. table' = table \cup {t} /\ owed' = owed \cup {t}
      /\ UNCHANGED <<saved, mempool, ledger, pc, block, unsaved>>
  BY DEF Persist
<1>4. Settled' = Settled /\ BlockIsExecuted' /\ DownIsIdle'
  BY <1>3 DEF Settled, BlockIsExecuted, DownIsIdle, Persist, Inv
<1>5. UnwrittenIsHeld' /\ PoolIsWritten' /\ OwedIsWritten'
  BY <1>2, <1>3, <1>4 DEF Inv, UnwrittenIsHeld, PoolIsWritten, OwedIsWritten
<1>6. OwedIsHeld'
  BY <1>2, <1>3, <1>4 DEF Inv, UnwrittenIsHeld, OwedIsHeld
<1> QED
  BY <1>1, <1>4, <1>5, <1>6 DEF Inv

\* The steps of the task that execute a block or move it on.
LEMMA ExecuteKeeps ==
  Inv /\ (Candidate \/ Apply \/ Save \/ Publish \/ BeginSync \/ SyncRecord \/ SyncEnd) => Inv'
<1> SUFFICES ASSUME Inv, Candidate \/ Apply \/ Save \/ Publish \/ BeginSync \/ SyncRecord \/ SyncEnd
             PROVE  Inv'
  OBVIOUS
<1>1. UNCHANGED <<table, mempool, handler, owed, unsaved>> /\ pc # "down" /\ pc' # "down"
  BY DEF Candidate, Apply, Save, Publish, BeginSync, SyncRecord, SyncEnd
<1>2. Settled \subseteq Settled' /\ BlockIsExecuted'
  BY DEF Candidate, Apply, Save, Publish, BeginSync, SyncRecord, SyncEnd, Settled,
         BlockIsExecuted
<1>3. Unwritten' = Unwritten /\ HandlersTyped'
  BY <1>1, UnwrittenStays DEF Inv, HandlersTyped
<1> QED
  BY <1>1, <1>2, <1>3 DEF Inv, DownIsIdle, UnwrittenIsHeld, PoolIsWritten, OwedIsWritten, OwedIsHeld

\* What a block confirmed leaves the pool, then the table.
LEMMA ClearKeeps ==
  Inv /\ (DropConfirmed \/ RemoveConfirmed \/ PublishSynced \/ RemoveSynced) => Inv'
<1> SUFFICES ASSUME Inv, DropConfirmed \/ RemoveConfirmed \/ PublishSynced \/ RemoveSynced
             PROVE  Inv'
  OBVIOUS
<1>1. /\ UNCHANGED <<ledger, handler, owed, unsaved>> /\ pc # "down" /\ pc' # "down"
      /\ mempool \ block \subseteq mempool' /\ mempool' \subseteq mempool
      /\ table \ block \subseteq table'
      /\ block \subseteq ledger
  BY DEF DropConfirmed, RemoveConfirmed, PublishSynced, RemoveSynced, Inv, BlockIsExecuted
<1>2. Settled = ledger /\ Settled' = ledger /\ BlockIsExecuted'
  BY DEF DropConfirmed, RemoveConfirmed, PublishSynced, RemoveSynced, Settled, Inv,
         BlockIsExecuted
<1>3. Unwritten' = Unwritten /\ HandlersTyped'
  BY <1>1, UnwrittenStays DEF Inv, HandlersTyped
<1> QED
  BY <1>1, <1>2, <1>3 DEF Inv, DownIsIdle, UnwrittenIsHeld, PoolIsWritten, OwedIsWritten, OwedIsHeld

\* The two halves of a rollback: `block` keeps what the ledger lets go until it
\* is queued and written again.
LEMMA RollBackKeeps == Inv /\ (RollBack \/ PublishRollBack) => Inv'
<1>1. ASSUME Inv, RollBack PROVE Inv'
  <2>1. /\ UNCHANGED <<table, mempool, handler, owed, unsaved>>
        /\ pc = "top" /\ pc' = "rolled"
        /\ block' = ledger \ ledger'
    BY <1>1 DEF RollBack
  <2>2. Settled \subseteq Settled' /\ BlockIsExecuted'
    BY <2>1 DEF Settled, BlockIsExecuted
  <2>3. Unwritten' = Unwritten /\ HandlersTyped'
    BY <1>1, <2>1, UnwrittenStays DEF Inv, HandlersTyped
  <2> QED
    BY <1>1, <2>1, <2>2, <2>3
    DEF Inv, DownIsIdle, UnwrittenIsHeld, PoolIsWritten, OwedIsWritten, OwedIsHeld
<1>2. ASSUME Inv, PublishRollBack PROVE Inv'
  <2>1. /\ UNCHANGED <<ledger, handler, owed, unsaved>>
        /\ pc = "rolled" /\ pc' = "sync"
        /\ table' = table \cup block /\ mempool' = mempool \cup block
    BY <1>2 DEF PublishRollBack, Requeue
  <2>2. Settled = ledger \cup block /\ Settled' = ledger /\ BlockIsExecuted'
    BY <2>1 DEF Settled, BlockIsExecuted
  <2>3. Unwritten' = Unwritten /\ HandlersTyped'
    BY <1>2, <2>1, UnwrittenStays DEF Inv, HandlersTyped
  <2> QED
    BY <1>2, <2>1, <2>2, <2>3
    DEF Inv, DownIsIdle, UnwrittenIsHeld, PoolIsWritten, OwedIsWritten, OwedIsHeld
<1> QED
  BY <1>1, <1>2

\* A crash with the ledger of the saved chain leaves what is owed in the table
\* or in that chain; a restart takes the table as the pool.
LEMMA CrashKeeps == Inv /\ (Crash \/ Restart) => Inv'
<1>1. ASSUME Inv, Crash PROVE Inv'
  <2>1. HandlersTyped'
    BY <1>1 DEF Crash, HandlersTyped, Idle
  <2>2. OwedIsWritten'
    <3> SUFFICES ASSUME ~unsaved' PROVE owed \subseteq table \cup Confirmed(saved)
      BY <1>1 DEF Crash, OwedIsWritten, Confirmed
    <3>1. ~unsaved /\ pc # "rolled" /\ pc # "down" /\ ledger = Confirmed(saved)
      BY <1>1 DEF Crash
    <3> QED
      BY <1>1, <3>1 DEF Inv, OwedIsWritten, Settled
  <2>3. DownIsIdle'
    BY <1>1 DEF Crash, DownIsIdle, Idle
  <2> QED
    BY <1>1, <2>1, <2>2, <2>3
    DEF Crash, Inv, DownIsIdle, BlockIsExecuted, UnwrittenIsHeld, PoolIsWritten, OwedIsHeld
<1>2. ASSUME Inv, Restart PROVE Inv'
  <2>1. /\ pc = "down" /\ pc' = "top" /\ UNCHANGED <<handler, unsaved>>
        /\ ledger' = Confirmed(saved) /\ table' = mempool'
        /\ owed' = owed \ (table \ mempool')
    BY <1>2 DEF Restart
  <2>2. Settled' = Confirmed(saved) /\ BlockIsExecuted'
    BY <2>1 DEF Settled, BlockIsExecuted
  <2>3. HandlersTyped'
    BY <1>2, <2>1 DEF Inv, HandlersTyped
  <2>4. Unwritten' = {}
    BY <1>2, <2>1, UnwrittenStays DEF Inv, DownIsIdle, Unwritten
  <2> QED
    BY <1>2, <2>1, <2>2, <2>3, <2>4
    DEF Inv, DownIsIdle, UnwrittenIsHeld, PoolIsWritten, OwedIsWritten, OwedIsHeld
<1> QED
  BY <1>1, <1>2

LEMMA InvStep == Inv /\ [Next]_vars => Inv'
<1> SUFFICES ASSUME Inv, [Next]_vars PROVE Inv'
  OBVIOUS
<1>1. CASE MiningTask
  BY <1>1, ExecuteKeeps, ClearKeeps, RollBackKeeps DEF MiningTask
<1>2. CASE Submission
  BY <1>2, CheckKeeps, QueueKeeps, PersistKeeps DEF Submission
<1>3. CASE Crash \/ Restart
  BY <1>3, CrashKeeps
<1>4. CASE UNCHANGED vars
  <2>1. /\ UNCHANGED <<table, saved, mempool, ledger, pc, block, handler, owed, unsaved>>
        /\ Unwritten' = Unwritten
    BY <1>4, UnwrittenStays DEF vars
  <2>2. Settled' = Settled /\ Confirmed(saved)' = Confirmed(saved)
    BY <2>1 DEF Settled, Confirmed
  <2> QED
    BY <2>1, <2>2
    DEF Inv, HandlersTyped, DownIsIdle, BlockIsExecuted, UnwrittenIsHeld, PoolIsWritten,
        OwedIsWritten, OwedIsHeld
<1> QED
  BY <1>1, <1>2, <1>3, <1>4 DEF Next, AtBound

LEMMA InvAlways == Spec => []Inv
<1>1. Init => Inv
  BY InvInit
<1>2. Inv /\ [Next]_vars => Inv'
  BY InvStep
<1> QED
  BY <1>1, <1>2, PTL DEF Spec

----------------------------------------------------------------------------
(* The properties *)

\* A pending transaction a block can still confirm is in the table, or its
\* handler is about to write it, whatever elections, synchronisation, rollbacks
\* and restarts came before (enqueue_transaction, reconcile_fork,
\* mempool_load).
THEOREM LivePersistedAlways == Spec => []LivePersisted
<1>1. Inv => LivePersisted
  BY DEF Inv, PoolIsWritten, Settled, Unwritten, LivePersisted
<1> QED
  BY <1>1, InvAlways, PTL

\* What a wallet was told is queued is confirmed or pending, unless a restart
\* found it not executable or a crash met a ledger ahead of the resume pointer
\* (enqueue_transaction, requeue_rolled_back_transactions, save_chain_state).
THEOREM NoneLostAlways == Spec => []NoneLost
<1>1. Inv => NoneLost
  BY DEF Inv, OwedIsHeld, Settled, NoneLost
<1> QED
  BY <1>1, InvAlways, PTL

----------------------------------------------------------------------------
(* Execution: what a block adds is numbered on from what was executed        *)

\* The nonces executed of an account are below the next one: the transaction of
\* an executed nonce is not executable again.
Numbered(done) == \A t \in done : t.nonce < Nonce(done, t.from)

\* A set of transactions is finite, and so are an account's in it.
LEMMA NonceGrows ==
  ASSUME NEW done \in SUBSET Txs, NEW more \in SUBSET Txs, done \subseteq more, NEW a
  PROVE  Nonce(done, a) \in Nat /\ Nonce(more, a) \in Nat /\ Nonce(done, a) <= Nonce(more, a)
<1> DEFINE D == {t \in done : t.from = a}
           M == {t \in more : t.from = a}
<1>1. D \in SUBSET M /\ M \in SUBSET Txs
  OBVIOUS
<1> HIDE DEF D, M
<1>2. IsFiniteSet(M)
  BY <1>1, TxAssumption, FS_Subset
<1>3. IsFiniteSet(D) /\ Cardinality(D) <= Cardinality(M)
  BY <1>1, <1>2, FS_Subset
<1>4. Cardinality(D) \in Nat /\ Cardinality(M) \in Nat
  BY <1>2, <1>3, FS_CardinalityType
<1> QED
  BY <1>3, <1>4 DEF Nonce, D, M

\* Executing the transaction whose turn it is keeps the numbering.
LEMMA NextIsNumbered ==
  ASSUME NEW done \in SUBSET Txs, Numbered(done), NEW t \in Txs, t.nonce = Nonce(done, t.from)
  PROVE  Numbered(done \cup {t})
<1>1. CASE t \in done
  <2>1. done \cup {t} = done
    BY <1>1
  <2> QED
    BY <2>1
<1>2. CASE t \notin done
  <2> DEFINE more == done \cup {t}
             D == {u \in done : u.from = t.from}
  <2>1. more \in SUBSET Txs /\ done \subseteq more
    OBVIOUS
  <2>2. {u \in more : u.from = t.from} = D \cup {t} /\ t \notin D
    BY <1>2
  <2>3. IsFiniteSet(D)
    <3>1. D \in SUBSET Txs
      OBVIOUS
    <3> HIDE DEF D
    <3> QED
      BY <3>1, TxAssumption, FS_Subset
  <2>4. Cardinality(D \cup {t}) = Cardinality(D) + 1
    BY <2>2, <2>3, FS_AddElement
  <2>5. Nonce(more, t.from) = Nonce(done, t.from) + 1
    BY <2>2, <2>4 DEF Nonce
  <2>6. ASSUME NEW u \in done PROVE u.nonce < Nonce(more, u.from)
    <3>1. Nonce(done, u.from) \in Nat /\ Nonce(more, u.from) \in Nat
          /\ Nonce(done, u.from) <= Nonce(more, u.from)
      <4> HIDE DEF more
      <4> QED
        BY <2>1, NonceGrows
    <3>2. u.nonce < Nonce(done, u.from) /\ u.nonce \in Nat
      BY TxAssumption DEF Numbered
    <3> QED
      BY <3>1, <3>2
  <2>7. t.nonce < Nonce(more, t.from)
    <3>1. Nonce(done, t.from) \in Nat
      BY NonceGrows
    <3> QED
      BY <2>5, <3>1
  <2> QED
    BY <2>6, <2>7 DEF Numbered
<1> QED
  BY <1>1, <1>2

\* simulate_block_execution is the run of its steps over the list.
LEMMA AppliedRuns ==
  ASSUME NEW done, NEW txs \in Seq(Txs)
  PROVE  \E run :
           /\ run[0] = {}
           /\ \A k \in 1..Len(txs) :
                run[k] = IF Executable(done \cup run[k - 1], txs[k])
                           THEN run[k - 1] \cup {txs[k]} ELSE run[k - 1]
           /\ Applied(done, txs) = run[Len(txs)]
<1> DEFINE Execute(set, t) == IF Executable(done \cup set, t) THEN set \cup {t} ELSE set
           S == SUBSET DOMAIN txs
           Folded(f) == [s \in S |-> IF s = {} THEN {} ELSE Execute(f[s \ {Max(s)}], txs[Max(s)])]
           h == CHOOSE f : f = Folded(f)
           op == [p \in (SUBSET Txs) \X Txs |-> Execute(p[1], p[2])]
<1>1. op \in [(SUBSET Txs) \X Txs -> SUBSET Txs]
  OBVIOUS
<1>2. Applied(done, txs) = h[DOMAIN txs]
  BY DEF Applied, FoldLeft, MapThenFoldSet
<1>3. \E g : g = Folded(g)
  <2>1. PICK g \in [SUBSET DOMAIN txs -> SUBSET Txs] : FoldsOver(g, txs, {}, op)
    <3> HIDE DEF op
    <3> QED
      BY <1>1, FoldExists
  <2>2. ASSUME NEW s \in S, s # {}
        PROVE  op[<<g[s \ {Max(s)}], txs[Max(s)]>>] = Execute(g[s \ {Max(s)}], txs[Max(s)])
    <3>1. DOMAIN txs = 1..Len(txs) /\ Len(txs) \in Nat
      OBVIOUS
    <3>2. Max(s) \in s
      BY <2>2, <3>1, LastPosition, Zenon
    <3>3. g[s \ {Max(s)}] \in SUBSET Txs /\ txs[Max(s)] \in Txs
      BY <3>1, <3>2
    <3> HIDE DEF Execute
    <3> QED
      BY <3>3
  <2> HIDE DEF op, Execute
  <2>3. g = Folded(g)
    BY <2>1, <2>2 DEF FoldsOver
  <2> QED
    BY <2>3
<1>4. h = Folded(h)
  BY <1>3
<1> HIDE DEF h, Execute
<1>5. h[1..0] = {}
  BY <1>4, Stretches
<1>6. \A k \in 1..Len(txs) : h[1..k] = Execute(h[1..(k - 1)], txs[k])
  BY <1>4, Stretches
<1> DEFINE run == [k \in 0..Len(txs) |-> h[1..k]]
<1>7. /\ run[0] = {}
      /\ \A k \in 1..Len(txs) : run[k] = Execute(run[k - 1], txs[k])
      /\ Applied(done, txs) = run[Len(txs)]
  BY <1>2, <1>5, <1>6, Stretches
<1> HIDE DEF run
<1> QED
  BY <1>7 DEF Execute

\* What it applies is of the list, and numbered on.
LEMMA AppliedIsNumbered ==
  ASSUME NEW done \in SUBSET Txs, Numbered(done), NEW txs \in Seq(Txs)
  PROVE  Applied(done, txs) \in SUBSET Txs /\ Numbered(done \cup Applied(done, txs))
<1>1. PICK run :
           /\ run[0] = {}
           /\ \A k \in 1..Len(txs) :
                run[k] = IF Executable(done \cup run[k - 1], txs[k])
                           THEN run[k - 1] \cup {txs[k]} ELSE run[k - 1]
           /\ Applied(done, txs) = run[Len(txs)]
  BY AppliedRuns
<1> DEFINE Good == {set \in SUBSET Txs : Numbered(done \cup set)}
<1>2. run[0] \in Good
  <2>1. done \cup {} = done
    OBVIOUS
  <2> QED
    BY <1>1, <2>1
<1>3. ASSUME NEW k \in 1..Len(txs), run[k - 1] \in Good PROVE run[k] \in Good
  <2> DEFINE set == run[k - 1]
  <2>1. CASE Executable(done \cup set, txs[k])
    <3>1. txs[k] \in Txs /\ done \cup set \in SUBSET Txs
      BY <1>3
    <3>2. txs[k].nonce = Nonce(done \cup set, txs[k].from)
      BY <2>1 DEF Executable
    <3>3. Numbered((done \cup set) \cup {txs[k]})
      BY <1>3, <3>1, <3>2, NextIsNumbered
    <3>4. (done \cup set) \cup {txs[k]} = done \cup (set \cup {txs[k]})
      OBVIOUS
    <3>5. run[k] = set \cup {txs[k]}
      BY <1>1, <2>1
    <3> QED
      BY <1>3, <3>1, <3>3, <3>4, <3>5
  <2>2. CASE ~Executable(done \cup set, txs[k])
    BY <1>1, <1>3, <2>2
  <2> QED
    BY <2>1, <2>2
<1>4. Len(txs) \in Nat
  OBVIOUS
<1> HIDE DEF Good
<1>5. \A k \in 0..Len(txs) : run[k] \in Good
  <2>1. \A k \in 1..Len(txs) : run[k - 1] \in Good => run[k] \in Good
    BY <1>3
  <2> QED
    BY <1>2, <1>4, <2>1, RunStaysIn
<1>6. run[Len(txs)] \in Good
  BY <1>4, <1>5
<1> QED
  BY <1>1, <1>6 DEF Good

----------------------------------------------------------------------------
(* The types, and what a confirmed transaction leaves                        *)

\* What the first n blocks of a chain confirm.
Upto(c, n) == UNION {c[i] : i \in 1..n}

\* Every prefix of a chain is numbered: a rollback may stop at any.
NumberedChain(c) == \A n \in 0..Len(c) : Numbered(Upto(c, n))

\* Until the task clears the block it has executed, its transactions may pend;
\* the own candidate and the saved chain can be executed, and a rollback keeps
\* only what the ledger no longer has.
Clears ==
  /\ TypeOK
  /\ HandlersTyped
  /\ NumberedChain(chain)
  /\ NumberedChain(saved)
  /\ pc = "grace" => Numbered(ledger \cup block)
  /\ pc = "rolled" => block \cap ledger = {}
  /\ mempool \cap ledger \subseteq raced \cup (IF pc \in {"applied", "synced"} THEN block ELSE {})

LEMMA ConfirmedIsUpto ==
  ASSUME NEW c \in Seq(SUBSET Txs)
  PROVE  Confirmed(c) = Upto(c, Len(c)) /\ Confirmed(c) \in SUBSET Txs /\ Len(c) \in Nat
<1>1. ToSet(c) = {c[i] : i \in 1..Len(c)}
  BY DEF ToSet
<1>2. \A i \in 1..Len(c) : c[i] \in SUBSET Txs
  OBVIOUS
<1> QED
  BY <1>1, <1>2 DEF Confirmed, Upto

LEMMA AppendExtends ==
  ASSUME NEW c \in Seq(SUBSET Txs), NEW b \in SUBSET Txs
  PROVE  /\ Append(c, b) \in Seq(SUBSET Txs)
         /\ Confirmed(Append(c, b)) = Confirmed(c) \cup b
         /\ NumberedChain(c) /\ Numbered(Confirmed(c) \cup b) => NumberedChain(Append(c, b))
<1> DEFINE d == Append(c, b)
<1>1. d \in Seq(SUBSET Txs) /\ Len(d) = Len(c) + 1 /\ Len(c) \in Nat
      /\ d[Len(c) + 1] = b /\ \A i \in 1..Len(c) : d[i] = c[i]
  OBVIOUS
<1> HIDE DEF d
<1>2. \A n \in 0..Len(c) : Upto(d, n) = Upto(c, n)
  <2>1. ASSUME NEW n \in 0..Len(c) PROVE {d[i] : i \in 1..n} = {c[i] : i \in 1..n}
    <3>1. \A i \in 1..n : d[i] = c[i]
      BY <1>1
    <3> QED
      BY <3>1
  <2> QED
    BY <2>1 DEF Upto
<1>3. Upto(d, Len(c) + 1) = Upto(c, Len(c)) \cup b
  <2>1. {d[i] : i \in 1..Len(c) + 1} = {c[i] : i \in 1..Len(c)} \cup {b}
    BY <1>1
  <2> QED
    BY <2>1 DEF Upto
<1>4. Confirmed(d) = Confirmed(c) \cup b
  BY <1>1, <1>3, ConfirmedIsUpto
<1>5. ASSUME NumberedChain(c), Numbered(Confirmed(c) \cup b) PROVE NumberedChain(d)
  <2>1. ASSUME NEW n \in 0..Len(d) PROVE Numbered(Upto(d, n))
    <3>1. CASE n \in 0..Len(c)
      BY <1>2, <1>5, <3>1 DEF NumberedChain
    <3>2. CASE n = Len(c) + 1
      BY <1>3, <1>5, <3>2, ConfirmedIsUpto
    <3> QED
      BY <1>1, <3>1, <3>2
  <2> QED
    BY <2>1 DEF NumberedChain
<1> QED
  BY <1>1, <1>4, <1>5 DEF d

LEMMA PrefixIsNumbered ==
  ASSUME NEW c \in Seq(SUBSET Txs), NEW f \in 1..Len(c)
  PROVE  /\ SubSeq(c, 1, f) \in Seq(SUBSET Txs)
         /\ Confirmed(SubSeq(c, 1, f)) \subseteq Confirmed(c)
         /\ NumberedChain(c) => NumberedChain(SubSeq(c, 1, f))
<1> DEFINE d == SubSeq(c, 1, f)
<1>1. d \in Seq(SUBSET Txs) /\ Len(d) = f /\ Len(c) \in Nat /\ \A i \in 1..f : d[i] = c[i]
  OBVIOUS
<1> HIDE DEF d
<1>2. \A n \in 0..f : Upto(d, n) = Upto(c, n)
  <2>1. ASSUME NEW n \in 0..f PROVE {d[i] : i \in 1..n} = {c[i] : i \in 1..n}
    <3>1. \A i \in 1..n : d[i] = c[i]
      BY <1>1
    <3> QED
      BY <3>1
  <2> QED
    BY <2>1 DEF Upto
<1>3. Confirmed(d) \subseteq Confirmed(c)
  <2>1. Confirmed(d) = Upto(c, f) /\ Confirmed(c) = Upto(c, Len(c))
    BY <1>1, <1>2, ConfirmedIsUpto
  <2> QED
    BY <2>1 DEF Upto
<1>4. NumberedChain(c) => NumberedChain(d)
  BY <1>1, <1>2 DEF NumberedChain
<1> QED
  BY <1>1, <1>3, <1>4 DEF d

\* A list of a set's transactions is a list of transactions.
LEMMA ListOfPool ==
  ASSUME NEW s \in SUBSET Txs, NEW txs \in SetToSeqs(s)
  PROVE  txs \in Seq(Txs)
<1>1. IsFiniteSet(s) /\ Cardinality(s) \in Nat
  BY TxAssumption, FS_Subset, FS_CardinalityType
<1> QED
  BY <1>1 DEF SetToSeqs

\* A block another node may build is of transactions not executed, and numbered on.
LEMMA BlocksAreNumbered ==
  ASSUME NEW done \in SUBSET Txs, Numbered(done), NEW b \in BlocksOn(done)
  PROVE  b \in SUBSET Txs /\ Numbered(done \cup b)
<1>1. b \in SUBSET Txs
  BY DEF BlocksOn
<1>2. PICK txs \in SetToSeqs(b) : Applied(done, txs) = b
  BY DEF BlocksOn
<1> QED
  BY <1>1, <1>2, ListOfPool, AppliedIsNumbered

LEMMA ClearsInit == Init => Clears
<1> SUFFICES ASSUME Init PROVE Clears
  OBVIOUS
<1> USE DEF Init
<1>1. chain \in Seq(SUBSET Txs) /\ Len(chain) = 0 /\ saved = chain
  OBVIOUS
<1>2. Upto(chain, 0) = {}
  BY DEF Upto
<1>3. ledger = Confirmed(chain)
  BY <1>1, <1>2, ConfirmedIsUpto
<1>4. NumberedChain(chain)
  BY <1>1, <1>2 DEF NumberedChain, Numbered
<1>5. TypeOK
  <2>1. 0 \in 0..MaxCrashes
    BY BoundAssumption
  <2>2. \A h \in Handlers : handler[h] = Idle
    OBVIOUS
  <2> QED
    BY <1>1, <1>3, <2>1, <2>2 DEF TypeOK
<1> QED
  BY <1>1, <1>4, <1>5 DEF Clears, HandlersTyped, Idle

\* The steps of the task that leave the chains as they are.
LEMMA ClearsTask ==
  Clears /\ (\/ Candidate \/ DropConfirmed \/ RemoveConfirmed \/ Save \/ Publish
             \/ BeginSync \/ PublishSynced \/ RemoveSynced \/ SyncEnd \/ PublishRollBack)
    => Clears'
<1>1. ASSUME Clears, Candidate PROVE Clears'
  <2>1. PICK txs \in UNION {SetToSeqs(s) : s \in kSubset(Min({MaxTxs, Cardinality(mempool)}), mempool)} :
          block' = Applied(ledger, txs)
    BY <1>1 DEF Candidate
  <2>2. PICK s \in SUBSET mempool : txs \in SetToSeqs(s)
    BY DEF kSubset
  <2>3. ledger \in SUBSET Txs /\ mempool \in SUBSET Txs /\ Numbered(ledger)
    <3>1. chain \in Seq(SUBSET Txs) /\ ledger = Upto(chain, Len(chain)) /\ Len(chain) \in Nat
      BY <1>1, ConfirmedIsUpto DEF Clears, TypeOK
    <3> QED
      BY <1>1, <3>1 DEF Clears, TypeOK, NumberedChain
  <2>4. block' \in SUBSET Txs /\ Numbered(ledger \cup block')
    BY <2>1, <2>2, <2>3, ListOfPool, AppliedIsNumbered
  <2>5. /\ pc = "top" /\ pc' = "grace"
        /\ UNCHANGED <<table, saved, mempool, ledger, chain, handler, crashes, owed, raced, unsaved>>
    BY <1>1 DEF Candidate
  <2>6. TypeOK'
    BY <1>1, <2>4, <2>5 DEF Clears, TypeOK
  <2> QED
    BY <1>1, <2>4, <2>5, <2>6 DEF Clears, HandlersTyped
<1>2. ASSUME Clears, DropConfirmed \/ RemoveConfirmed \/ Save \/ Publish \/ BeginSync \/ PublishSynced
                     \/ RemoveSynced \/ SyncEnd \/ PublishRollBack
      PROVE  Clears'
  <2>1. UNCHANGED <<ledger, chain, handler, crashes, owed, raced, unsaved>>
        /\ saved' \in {saved, chain}
    BY <1>2 DEF DropConfirmed, RemoveConfirmed, Save, Publish, BeginSync, PublishSynced,
                RemoveSynced, SyncEnd, PublishRollBack
  <2>2. TypeOK'
    BY <1>2, <2>1 DEF DropConfirmed, RemoveConfirmed, Save, Publish, BeginSync, PublishSynced,
                      RemoveSynced, SyncEnd, PublishRollBack, Requeue, Clears, TypeOK, Confirmed, ToSet
  <2>3. NumberedChain(chain)' /\ NumberedChain(saved)'
    BY <1>2, <2>1 DEF Clears
  <2>4. pc' \notin {"grace", "rolled", "applied", "synced"}
    BY <1>2 DEF DropConfirmed, RemoveConfirmed, Save, Publish, BeginSync, PublishSynced,
                RemoveSynced, SyncEnd, PublishRollBack
  <2>5. mempool' \cap ledger \subseteq raced
    BY <1>2 DEF DropConfirmed, RemoveConfirmed, Save, Publish, BeginSync, PublishSynced,
                RemoveSynced, SyncEnd, PublishRollBack, Requeue, Clears
  <2> QED
    BY <1>2, <2>1, <2>2, <2>3, <2>4, <2>5 DEF Clears, HandlersTyped
<1> QED
  BY <1>1, <1>2

\* A block of the election or of a peer: executed, and now to be cleared away.
LEMMA ClearsExecute == Clears /\ (Apply \/ SyncRecord) => Clears'
<1> SUFFICES ASSUME Clears, Apply \/ SyncRecord PROVE Clears'
  OBVIOUS
<1>1. chain \in Seq(SUBSET Txs) /\ ledger = Confirmed(chain) /\ ledger \in SUBSET Txs /\ Numbered(ledger)
  <2>1. chain \in Seq(SUBSET Txs) /\ ledger = Upto(chain, Len(chain)) /\ Len(chain) \in Nat
    BY ConfirmedIsUpto DEF Clears, TypeOK
  <2> QED
    BY <2>1 DEF Clears, TypeOK, NumberedChain
<1>2. PICK b \in {block} \cup BlocksOn(ledger) :
        /\ block' = b /\ ledger' = ledger \cup b /\ chain' = Append(chain, b)
        /\ b = block => pc = "grace" \/ b \in BlocksOn(ledger)
  BY DEF Apply, SyncRecord
<1>3. b \in SUBSET Txs /\ Numbered(ledger \cup b)
  BY <1>1, <1>2, BlocksAreNumbered DEF Clears, TypeOK
<1>4. /\ UNCHANGED <<table, saved, mempool, handler, crashes, owed, raced, unsaved>>
      /\ pc \notin {"applied", "synced"} /\ pc' \in {"applied", "synced"}
  BY DEF Apply, SyncRecord
<1>5. chain' \in Seq(SUBSET Txs) /\ ledger' = Confirmed(chain') /\ NumberedChain(chain')
  BY <1>1, <1>2, <1>3, AppendExtends DEF Clears
<1>6. TypeOK'
  BY <1>1, <1>2, <1>3, <1>4, <1>5 DEF Clears, TypeOK
<1>7. mempool' \cap ledger' \subseteq raced' \cup block'
  BY <1>2, <1>4 DEF Clears
<1> QED
  BY <1>4, <1>5, <1>6, <1>7 DEF Clears, HandlersTyped

\* reconcile_fork: a prefix of the chain is all the ledger has executed.
LEMMA ClearsRollBack == Clears /\ RollBack => Clears'
<1> SUFFICES ASSUME Clears, RollBack PROVE Clears'
  OBVIOUS
<1>1. PICK f \in 1 .. Len(chain) - 1 :
        chain' = SubSeq(chain, 1, f) /\ ledger' = Confirmed(chain') /\ block' = ledger \ ledger'
  BY DEF RollBack
<1>2. chain \in Seq(SUBSET Txs) /\ f \in 1..Len(chain) /\ ledger = Confirmed(chain)
  BY <1>1 DEF Clears, TypeOK
<1>3. /\ chain' \in Seq(SUBSET Txs) /\ NumberedChain(chain')
      /\ ledger' \subseteq ledger
  BY <1>1, <1>2, PrefixIsNumbered DEF Clears
<1>4. /\ UNCHANGED <<table, saved, mempool, handler, crashes, owed, raced, unsaved>>
      /\ pc = "top" /\ pc' = "rolled"
  BY DEF RollBack
<1>5. TypeOK'
  BY <1>1, <1>3, <1>4 DEF Clears, TypeOK
<1>6. block' \cap ledger' = {} /\ mempool' \cap ledger' \subseteq raced'
  BY <1>1, <1>3, <1>4 DEF Clears
<1> QED
  BY <1>3, <1>4, <1>5, <1>6 DEF Clears, HandlersTyped

\* enqueue_transaction: what it queues late is remembered as raced.
LEMMA ClearsSubmission ==
  ASSUME Clears, NEW h \in Handlers, Check(h) \/ Queue(h) \/ Persist(h)
  PROVE  Clears'
<1>1. UNCHANGED <<saved, ledger, chain, pc, block, crashes, unsaved>>
  BY DEF Check, Queue, Persist
<1>2. /\ handler \in [Handlers -> [phase : {"idle", "checked", "queued"}, tx : Txs \cup {NoTx}]]
      /\ handler[h] # Idle => handler[h].tx \in Txs
  BY DEF Clears, TypeOK, HandlersTyped
<1>3. HandlersTyped' /\ \A g \in Handlers :
        \/ handler'[g] = Idle
        \/ handler'[g].phase \in {"checked", "queued"} /\ handler'[g].tx \in Txs
  <2>1. CASE Check(h)
    <3>1. PICK t \in Txs : handler' = [handler EXCEPT ![h] = [phase |-> "checked", tx |-> t]]
      BY <2>1 DEF Check
    <3> QED
      BY <1>2, <3>1 DEF HandlersTyped, Clears, TypeOK
  <2>2. CASE handler' = [handler EXCEPT ![h] = Idle]
    BY <1>2, <2>2 DEF HandlersTyped, Clears, TypeOK, Idle
  <2>3. CASE handler' = [handler EXCEPT ![h].phase = "queued"] /\ handler[h].phase = "checked"
    <3>1. handler[h] # Idle
      BY <2>3 DEF Idle
    <3> QED
      BY <1>2, <2>3, <3>1 DEF HandlersTyped, Clears, TypeOK
  <2> QED
    BY <2>1, <2>2, <2>3 DEF Check, Queue, Persist
<1>4. \/ UNCHANGED <<mempool, raced>>
      \/ \E t \in Txs : /\ mempool' = mempool \cup {t}
                        /\ raced' = IF t \in ledger THEN raced \cup {t} ELSE raced
  <2>1. handler[h].phase = "checked" => handler[h].tx \in Txs
    BY <1>2 DEF Idle
  <2> QED
    BY <2>1 DEF Check, Queue, Persist
<1>5. table' \in SUBSET Txs /\ owed' \in SUBSET Txs
  <2>1. handler[h].phase = "queued" => handler[h].tx \in Txs
    BY <1>2 DEF Idle
  <2> QED
    BY <2>1 DEF Check, Queue, Persist, Clears, TypeOK
<1>6. TypeOK'
  BY <1>1, <1>3, <1>4, <1>5 DEF Clears, TypeOK
<1>7. (mempool \cap ledger \subseteq raced \cup (IF pc \in {"applied", "synced"} THEN block ELSE {}))'
  BY <1>1, <1>4 DEF Clears
<1> QED
  BY <1>1, <1>3, <1>6, <1>7 DEF Clears

\* A restart reloads only what the reopened ledger has not executed: an executed
\* nonce is below the account's next (mempool_load).
LEMMA ClearsCrash == Clears /\ (Crash \/ Restart) => Clears'
<1>1. ASSUME Clears, Crash PROVE Clears'
  <2>1. /\ UNCHANGED <<table, saved, ledger, chain, owed>>
        /\ crashes < MaxCrashes /\ crashes' = crashes + 1
        /\ pc' = "down" /\ mempool' = {} /\ block' = {} /\ raced' = {}
        /\ handler' = [h \in Handlers |-> Idle]
        /\ unsaved' \in BOOLEAN
    BY <1>1 DEF Crash
  <2>2. crashes' \in 0..MaxCrashes
    BY <1>1, <2>1, BoundAssumption DEF Clears, TypeOK
  <2>3. TypeOK'
    BY <1>1, <2>1, <2>2 DEF Clears, TypeOK
  <2> QED
    BY <1>1, <2>1, <2>3 DEF Clears, HandlersTyped, Idle
<1>2. ASSUME Clears, Restart PROVE Clears'
  <2>1. /\ UNCHANGED <<saved, block, handler, crashes, raced, unsaved>>
        /\ chain' = saved /\ ledger' = Confirmed(saved)
        /\ mempool' = {t \in table : Executable(ledger', t)}
        /\ table' = mempool' /\ owed' \subseteq owed
        /\ pc' = "top"
    BY <1>2 DEF Restart
  <2>2. /\ saved \in Seq(SUBSET Txs) /\ NumberedChain(saved) /\ table \in SUBSET Txs
        /\ ledger' = Upto(saved, Len(saved)) /\ ledger' \in SUBSET Txs /\ Len(saved) \in Nat
    BY <1>2, <2>1, ConfirmedIsUpto DEF Clears, TypeOK
  <2>3. Numbered(ledger')
    BY <2>2 DEF NumberedChain
  <2>4. mempool' \cap ledger' = {}
    <3> SUFFICES ASSUME NEW t \in ledger', Executable(ledger', t) PROVE FALSE
      BY <2>1
    <3>1. t.nonce < Nonce(ledger', t.from) /\ t.nonce = Nonce(ledger', t.from)
      BY <2>3 DEF Numbered, Executable
    <3>2. Nonce(ledger', t.from) \in Nat
      BY <2>2, NonceGrows
    <3> QED
      BY <3>1, <3>2
  <2>5. TypeOK'
    BY <1>2, <2>1, <2>2 DEF Clears, TypeOK
  <2> QED
    BY <1>2, <2>1, <2>2, <2>4, <2>5 DEF Clears, HandlersTyped
<1> QED
  BY <1>1, <1>2

LEMMA ClearsAlways == Spec => []Clears
<1>1. Clears /\ [Next]_vars => Clears'
  <2> SUFFICES ASSUME Clears, [Next]_vars PROVE Clears'
    OBVIOUS
  <2>1. CASE MiningTask
    BY <2>1, ClearsTask, ClearsExecute, ClearsRollBack DEF MiningTask
  <2>2. CASE Submission
    BY <2>2, ClearsSubmission DEF Submission
  <2>3. CASE Crash \/ Restart
    BY <2>3, ClearsCrash
  <2>4. CASE UNCHANGED vars
    <3>1. UNCHANGED <<table, saved, mempool, ledger, chain, pc, block, handler, crashes, owed, raced, unsaved>>
      BY <2>4 DEF vars
    <3>2. TypeOK'
      BY <3>1 DEF Clears, TypeOK
    <3> QED
      BY <3>1, <3>2 DEF Clears, HandlersTyped
  <2> QED
    BY <2>1, <2>2, <2>3, <2>4 DEF Next, AtBound
<1> QED
  BY <1>1, ClearsInit, PTL DEF Spec

\* The ledger has executed exactly the blocks of the task's chain, also after
\* rollbacks and restarts, and every variable has its type (reconcile_fork).
THEOREM LedgerIsOfChain == Spec => []TypeOK
<1>1. Clears => TypeOK
  BY DEF Clears
<1> QED
  BY <1>1, ClearsAlways, PTL

\* A confirmed transaction is not pending, whoever mined it, however its block
\* came and after every restart, but for one queued after it was confirmed
\* (enqueue_transaction, mempool_remove, mempool_load).
THEOREM ConfirmedLeavesAlways == Spec => []ConfirmedLeaves
<1>1. Clears => ConfirmedLeaves
  BY DEF Clears, ConfirmedLeaves
<1> QED
  BY <1>1, ClearsAlways, PTL

----------------------------------------------------------------------------
(* The candidate serves every sender                                         *)

\* What a set of transactions moves.
Moved(D) == MapThenSumSet(LAMBDA t : t.amount, D)

AmountOf(D) == [t \in D |-> t.amount]

LEMMA MovedIsSum ==
  ASSUME NEW D \in SUBSET Txs
  PROVE  /\ Moved(D) = SumOf(AmountOf(D), D) /\ IsFiniteSet(D)
         /\ AmountOf(D) \in [D -> Nat] /\ Moved(D) \in Nat
<1> DEFINE a == AmountOf(D)
           ch == [s \in SUBSET D |-> CHOOSE x \in s : TRUE]
           Summed(f) == [s \in SUBSET D |->
             IF s = {} THEN 0
             ELSE (CHOOSE x \in s : TRUE).amount + f[s \ {CHOOSE x \in s : TRUE}]]
           h == CHOOSE f : f = Summed(f)
<1>1. IsFiniteSet(D)
  BY TxAssumption, FS_Subset
<1>2. a \in [D -> Nat] /\ a \in [D -> Int] /\ \A t \in D : a[t] = t.amount
  BY TxAssumption DEF AmountOf
<1>3. PICK k : Sums(k, a, D) /\ SumOf(a, D) = k[D]
  BY <1>1, <1>2, SumRuns
<1>4. Moved(D) = h[D]
  BY DEF Moved, MapThenSumSet, MapThenFoldSet
<1>5. \A s \in SUBSET D : s # {} => /\ ch[s] \in s /\ ch[s] = CHOOSE x \in s : TRUE
                                    /\ a[ch[s]] = ch[s].amount
  BY <1>2
<1>6. h = Summed(h)
  <2>1. ASSUME NEW s \in SUBSET D, s # {}
        PROVE  a[CHOOSE x \in s : TRUE] = (CHOOSE x \in s : TRUE).amount
    <3>1. PICK y \in s : y = CHOOSE x \in s : TRUE
      BY <2>1
    <3>2. a[y] = y.amount
      BY <1>2
    <3> QED
      BY <3>1, <3>2
  <2> HIDE DEF a, ch, h
  <2>2. k \in [SUBSET D -> Int]
    BY <1>3 DEF Sums
  <2>3. ASSUME NEW s \in SUBSET D
        PROVE  k[s] = IF s = {} THEN 0
                      ELSE (CHOOSE x \in s : TRUE).amount + k[s \ {CHOOSE x \in s : TRUE}]
    <3>1. k[s] = IF s = {} THEN 0
                 ELSE a[CHOOSE x \in s : TRUE] + k[s \ {CHOOSE x \in s : TRUE}]
      BY <1>3 DEF Sums
    <3> QED
      BY <2>1, <3>1
  <2>4. k = Summed(k)
    BY <2>2, <2>3
  <2> USE DEF h
  <2>5. \E f : f = Summed(f)
    BY <2>4
  <2> HIDE DEF Summed
  <2> QED
    BY <2>5
<1> HIDE DEF h
<1>7. /\ h[{}] = 0 /\ k[{}] = 0
      /\ \A s \in SUBSET D : s # {} => /\ h[s] = a[ch[s]] + h[s \ {ch[s]}]
                                       /\ k[s] = a[ch[s]] + k[s \ {ch[s]}]
  <2>1. h[{}] = 0 /\ k[{}] = 0
    BY <1>3, <1>6 DEF Sums
  <2>2. ASSUME NEW s \in SUBSET D, s # {} PROVE h[s] = a[ch[s]] + h[s \ {ch[s]}]
    <3>1. h[s] = (CHOOSE x \in s : TRUE).amount + h[s \ {CHOOSE x \in s : TRUE}]
      BY <1>6, <2>2
    <3> HIDE DEF a, ch, Summed
    <3>2. PICK c : c = ch[s] /\ c = CHOOSE x \in s : TRUE
      BY <1>5, <2>2
    <3>3. a[c] = c.amount
      BY <1>5, <2>2, <3>2
    <3> QED
      BY <3>1, <3>2, <3>3
  <2>3. ASSUME NEW s \in SUBSET D, s # {} PROVE k[s] = a[ch[s]] + k[s \ {ch[s]}]
    BY <1>3, <1>5, <2>3 DEF Sums
  <2> QED
    BY <2>1, <2>2, <2>3
<1> HIDE DEF a
<1> DEFINE same == [s \in SUBSET D |-> h[s] = k[s]]
           V == {TRUE}
<1>8. same[{}] \in V
  BY <1>7
<1>9. \A s \in SUBSET D : s # {} => ch[s] \in s /\ (same[s \ {ch[s]}] \in V => same[s] \in V)
  <2>1. ASSUME NEW s \in SUBSET D, s # {}, h[s \ {ch[s]}] = k[s \ {ch[s]}] PROVE h[s] = k[s]
    <3> HIDE DEF ch, same, V, Summed
    <3>1. h[s] = a[ch[s]] + h[s \ {ch[s]}] /\ k[s] = a[ch[s]] + k[s \ {ch[s]}]
      BY <1>7, <2>1
    <3> QED
      BY <2>1, <3>1
  <2>2. \A s \in SUBSET D : s # {} => ch[s] \in s /\ s \ {ch[s]} \in SUBSET D
    BY <1>5
  <2> HIDE DEF ch
  <2> QED
    BY <2>1, <2>2
<1>10. h[D] = k[D]
  <2> HIDE DEF same, V, ch
  <2>1. \A s \in SUBSET D : same[s] \in V
    BY <1>1, <1>8, <1>9, FoldStaysIn
  <2> QED
    BY <2>1 DEF same, V
<1>11. SumOf(a, D) \in Nat
  BY <1>1, <1>2, SumIsNumber
<1> QED
  BY <1>1, <1>2, <1>3, <1>4, <1>10, <1>11 DEF a

LEMMA MovedGrows ==
  ASSUME NEW D \in SUBSET Txs, NEW C \in SUBSET D
  PROVE  Moved(C) <= Moved(D)
<1>1. \A t \in C : AmountOf(C)[t] = AmountOf(D)[t]
  BY DEF AmountOf
<1>2. /\ Moved(C) = SumOf(AmountOf(C), C) /\ AmountOf(C) \in [C -> Nat]
      /\ Moved(D) = SumOf(AmountOf(D), D) /\ AmountOf(D) \in [D -> Nat] /\ IsFiniteSet(D)
  BY MovedIsSum
<1>3. SumOf(AmountOf(C), C) <= SumOf(AmountOf(D), D)
  BY <1>1, <1>2, SumGrows
<1> QED
  BY <1>2, <1>3

\* Executing transactions of other senders takes neither the turn nor the money
\* of an account.
LEMMA StaysExecutable ==
  ASSUME NEW done \in SUBSET Txs, NEW set \in SUBSET Txs, NEW t \in Txs, Executable(done, t),
         \A u \in set : u.from # t.from
  PROVE  Executable(done \cup set, t)
<1> DEFINE more == done \cup set
           In(s) == {u \in s : u.to = t.from}
           Out(s) == {u \in s : u.from = t.from}
<1>1. Out(more) = Out(done)
  OBVIOUS
<1>2. /\ In(done) \in SUBSET In(more) /\ In(more) \in SUBSET Txs
      /\ Out(done) \in SUBSET Txs /\ In(done) \in SUBSET Txs
  OBVIOUS
<1>3. Nonce(more, t.from) = Nonce(done, t.from)
  BY <1>1 DEF Nonce
<1>4. /\ Balance(done, t.from) = Funds[t.from] + Moved(In(done)) - Moved(Out(done))
      /\ Balance(more, t.from) = Funds[t.from] + Moved(In(more)) - Moved(Out(more))
  BY DEF Balance, Moved
<1> HIDE DEF more, In, Out
<1>5. Moved(In(done)) <= Moved(In(more))
  BY <1>2, MovedGrows
<1>6. /\ Moved(In(done)) \in Nat /\ Moved(In(more)) \in Nat /\ Moved(Out(done)) \in Nat
      /\ Funds[t.from] \in Nat /\ t.amount \in Nat
  BY <1>2, MovedIsSum, TxAssumption
<1>7. Balance(done, t.from) <= Balance(more, t.from)
      /\ Balance(done, t.from) \in Int /\ Balance(more, t.from) \in Int
  BY <1>1, <1>4, <1>5, <1>6
<1>8. t.amount <= Balance(done, t.from) /\ t.nonce = Nonce(done, t.from)
  BY DEF Executable
<1>9. t.amount <= Balance(more, t.from) /\ t.nonce = Nonce(more, t.from)
  BY <1>3, <1>6, <1>7, <1>8
<1> QED
  BY <1>9 DEF Executable, more

\* Whatever else is on the list and in whatever order: of every sender who has an
\* executable transaction on it, something is applied.
LEMMA EverySenderServed ==
  ASSUME NEW done \in SUBSET Txs, NEW txs \in Seq(Txs), NEW k \in 1..Len(txs),
         Executable(done, txs[k])
  PROVE  \E u \in Applied(done, txs) : u.from = txs[k].from
<1> DEFINE n == Len(txs)
<1>1. PICK run :
        /\ run[0] = {}
        /\ \A i \in 1..n :
             run[i] = IF Executable(done \cup run[i - 1], txs[i])
                        THEN run[i - 1] \cup {txs[i]} ELSE run[i - 1]
        /\ Applied(done, txs) = run[n]
  BY AppliedRuns
<1>2. PICK t \in Txs : t = txs[k]
  OBVIOUS
<1>3. n \in Nat /\ k \in 0..n /\ k - 1 \in 0..n /\ \A i \in 1..n : txs[i] \in Txs
  OBVIOUS
<1> HIDE DEF n
<1> DEFINE G == {j \in 0..n : run[j] \in SUBSET Txs /\ \A i \in 0..j : run[i] \subseteq run[j]}
<1>4. 0 \in G
  <2>1. \A i \in 0..0 : i = 0
    OBVIOUS
  <2> QED
    BY <1>1, <1>3, <2>1
<1>5. ASSUME NEW j \in 1..n, j - 1 \in G PROVE j \in G
  <2>1. j \in 0..n /\ run[j - 1] \in SUBSET Txs /\ \A i \in 0..(j - 1) : run[i] \subseteq run[j - 1]
    BY <1>3, <1>5
  <2>2. run[j - 1] \subseteq run[j] /\ run[j] \in SUBSET Txs
    BY <1>1, <1>3, <2>1
  <2>3. \A i \in 0..j : i \in 0..(j - 1) \/ i = j
    BY <1>3
  <2> QED
    BY <2>1, <2>2, <2>3
<1> HIDE DEF G
<1>6. \A j \in 0..n : j \in G
  <2>1. \A j \in 1..n : j - 1 \in G => j \in G
    BY <1>5
  <2> QED
    BY <1>3, <1>4, <2>1, StepByStep
<1>7. /\ run[k - 1] \subseteq run[n] /\ run[k] \subseteq run[n] /\ run[k - 1] \in SUBSET Txs
  <2>1. n \in G /\ k - 1 \in G
    BY <1>3, <1>6
  <2> QED
    BY <1>3, <2>1 DEF G
<1>8. SUFFICES ASSUME \A u \in run[n] : u.from # t.from PROVE FALSE
  BY <1>1, <1>2
<1>9. Executable(done \cup run[k - 1], t)
  <2>1. Executable(done, t)
    BY <1>2
  <2> QED
    BY <1>7, <1>8, <2>1, StaysExecutable
<1>10. t \in run[k]
  BY <1>1, <1>2, <1>9 DEF n
<1> QED
  BY <1>7, <1>8, <1>10

\* A pool that fits in a block is on the candidate's list as a whole.
LEMMA WholePoolListed ==
  ASSUME NEW pool \in SUBSET Txs, MaxTxs \in Nat, Cardinality(pool) <= MaxTxs,
         NEW s \in kSubset(Min({MaxTxs, Cardinality(pool)}), pool), NEW txs \in SetToSeqs(s),
         NEW t \in pool
  PROVE  txs \in Seq(Txs) /\ \E k \in 1..Len(txs) : txs[k] = t
<1>1. IsFiniteSet(pool) /\ Cardinality(pool) \in Nat
  BY TxAssumption, FS_Subset, FS_CardinalityType
<1>2. Min({MaxTxs, Cardinality(pool)}) = Cardinality(pool)
  BY <1>1, MinOfTwo
<1>3. s = pool
  <2>1. s \in SUBSET pool /\ Cardinality(s) = Cardinality(pool)
    BY <1>2 DEF kSubset
  <2> QED
    BY <1>1, <2>1, FS_Subset
<1> DEFINE n == Cardinality(pool)
<1>4. txs \in [1..n -> pool] /\ \A i, j \in 1..n : i # j => txs[i] # txs[j]
  BY <1>3 DEF SetToSeqs
<1>5. txs \in Seq(Txs) /\ Len(txs) = n
  BY <1>1, <1>4
<1>6. txs \in Surjection(1..n, pool)
  <2>1. txs \in Injection(1..n, pool)
    BY <1>4 DEF Injection, IsInjective
  <2>2. Cardinality(1..n) = n
    BY <1>1, FS_Interval
  <2> QED
    BY <1>1, <2>1, <2>2, FS_Injection
<1>7. \E k \in 1..n : txs[k] = t
  BY <1>6 DEF Surjection
<1> QED
  BY <1>5, <1>7

\* While the pool fits in a block, a candidate holds a transaction of every sender
\* who has an executable one, whatever stale entries lie beside it and whatever
\* order the map gives them in (mining_loop's candidate_txs, simulate_block_execution).
THEOREM SendersAlwaysServed == Spec => CandidateServesSenders
<1> DEFINE Serves ==
      pc = "top" /\ pc' = "grace" /\ Cardinality(mempool) <= MaxTxs =>
        \A t \in mempool : Executable(ledger, t) => \E u \in block' : u.from = t.from
<1>1. Clears /\ [Next]_vars => [Serves]_vars
  <2> SUFFICES ASSUME Clears, Next, pc = "top", pc' = "grace", Cardinality(mempool) <= MaxTxs,
                      NEW t \in mempool, Executable(ledger, t)
               PROVE  \E u \in block' : u.from = t.from
    OBVIOUS
  <2>1. Candidate
    BY DEF Next, MiningTask, Candidate, Apply, DropConfirmed, RemoveConfirmed, Save, Publish,
           BeginSync, SyncRecord, PublishSynced, RemoveSynced, SyncEnd, RollBack, PublishRollBack,
           Submission, Check, Queue, Persist, Crash, Restart, AtBound, vars
  <2>2. PICK s \in kSubset(Min({MaxTxs, Cardinality(mempool)}), mempool) :
          \E txs \in SetToSeqs(s) : block' = Applied(ledger, txs)
    BY <2>1 DEF Candidate
  <2>3. mempool \in SUBSET Txs /\ ledger \in SUBSET Txs /\ MaxTxs \in Nat
    BY BoundAssumption DEF Clears, TypeOK
  <2>4. PICK txs \in SetToSeqs(s) : block' = Applied(ledger, txs)
    BY <2>2
  <2>5. txs \in Seq(Txs) /\ \E k \in 1..Len(txs) : txs[k] = t
    BY <2>2, <2>3, WholePoolListed
  <2> QED
    BY <2>3, <2>4, <2>5, EverySenderServed
<1> QED
  BY <1>1, ClearsAlways, PTL DEF Spec, CandidateServesSenders
=============================================================================
