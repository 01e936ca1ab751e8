------------------------- MODULE RewardLedgerProofs -------------------------
(***************************************************************************)
(* For any accounts, transactions, emission schedule and bounds, and        *)
(* whatever is mined, synced, rolled back, left half done by a crash and    *)
(* replayed from the rows: balances stay natural, the supply is what the    *)
(* schedule says of the height, a block leaves the state its header commits *)
(* to, no chain holds two transactions of one account and nonce, and a      *)
(* ledger rebuilt from its chain's own rows is that chain's execution.      *)
(*                                                                         *)
(* Only the last needs the rows to be those of the chain, and they may not  *)
(* be: what a reopening finds of abandoned blocks moves balances, but every *)
(* reward row states what the schedule says of its height, and every        *)
(* transaction of a chain has left a row.  A transaction may even be valid  *)
(* only because of such rows; its own row then comes behind them, and no    *)
(* chain it is on finds its own rows in order again (RowsWereTheChains).    *)
(***************************************************************************)
EXTENDS RewardLedger, CollectionLemmas, SequenceTheorems

----------------------------------------------------------------------------
(* Balances *)

TxRows == {TxRow(h, t, m) : h \in Nat, t \in Txs, m \in Accounts}
RewardRows == {RewardRow(h, m, r) : h \in Nat, m \in Accounts, r \in Nat}

LEMMA TxType ==
  ASSUME NEW t \in Txs
  PROVE  /\ t.from \in Accounts /\ t.to \in Accounts /\ t.from # t.to
         /\ t.amount \in Nat /\ t.fee \in Nat /\ t.nonce \in Nat
BY TxAssumption

LEMMA AddType ==
  ASSUME NEW b \in [Accounts -> Nat], NEW a \in Accounts, NEW n \in Int, b[a] + n \in Nat
  PROVE  Add(b, a, n) \in [Accounts -> Nat] /\ Add(b, a, n)[a] = b[a] + n
BY DEF Add

LEMMA EmptyType == Empty \in Ledgers
BY DEF Empty, Ledgers

\* apply_transaction: the sender has the amount and the fee.
LEMMA TransferType ==
  ASSUME NEW l \in Ledgers, NEW t \in Txs, NEW m \in Accounts, Valid(l, t)
  PROVE  /\ Transfer(l, t, m) \in Ledgers
         /\ Transfer(l, t, m).nonce = [l.nonce EXCEPT ![t.from] = t.nonce + 1]
         /\ Transfer(l, t, m).total = l.total
<1> DEFINE b1 == Add(l.balance, t.from, -(t.amount + t.fee))
           b2 == Add(b1, t.to, t.amount)
           b3 == Add(b2, m, t.fee)
<1>1. l.balance \in [Accounts -> Nat] /\ l.nonce \in [Accounts -> Nat] /\ l.total \in Nat
  BY DEF Ledgers
<1>2. /\ -(t.amount + t.fee) \in Int
      /\ l.balance[t.from] + (-(t.amount + t.fee)) \in Nat
  <2>1. l.balance[t.from] \in Nat /\ l.balance[t.from] >= t.amount + t.fee
    BY <1>1, TxType DEF Valid
  <2> QED
    BY <2>1, TxType
<1>3. b1 \in [Accounts -> Nat]
  BY <1>1, <1>2, TxType, AddType
<1> HIDE DEF b1
<1>4. b2 \in [Accounts -> Nat]
  <2>1. b1[t.to] + t.amount \in Nat
    BY <1>3, TxType
  <2> QED
    BY <1>3, <2>1, TxType, AddType
<1> HIDE DEF b2
<1>5. b3 \in [Accounts -> Nat]
  <2>1. b2[m] + t.fee \in Nat
    BY <1>4, TxType
  <2> QED
    BY <1>4, <2>1, TxType, AddType
<1>6. Transfer(l, t, m) = [l EXCEPT !.balance = b3, !.nonce = [@ EXCEPT ![t.from] = t.nonce + 1]]
  BY DEF Transfer, b1, b2
<1> HIDE DEF b3
<1>7. [l.nonce EXCEPT ![t.from] = t.nonce + 1] \in [Accounts -> Nat]
  BY <1>1, TxType
<1> QED
  BY <1>1, <1>5, <1>6, <1>7 DEF Ledgers

LEMMA RewardType ==
  ASSUME NEW l \in Ledgers, NEW m \in Accounts, NEW r \in Nat
  PROVE  /\ Reward(l, m, r) \in Ledgers
         /\ Reward(l, m, r).nonce = l.nonce
         /\ Reward(l, m, r).total = l.total + r
<1>1. l.balance \in [Accounts -> Nat] /\ l.total \in Nat /\ l.nonce \in [Accounts -> Nat]
  BY DEF Ledgers
<1>2. l.balance[m] + r \in Nat
  BY <1>1
<1> DEFINE b == Add(l.balance, m, r)
<1>3. b \in [Accounts -> Nat]
  BY <1>1, <1>2, AddType
<1>4. Reward(l, m, r) = [l EXCEPT !.balance = b, !.total = @ + r]
  BY DEF Reward
<1> HIDE DEF b
<1>5. l.total + r \in Nat
  BY <1>1
<1> QED
  BY <1>1, <1>3, <1>4, <1>5 DEF Ledgers

\* open_scoped: a replayed row takes at most what is there, and no nonce falls.
LEMMA ReplayType ==
  ASSUME NEW l \in Ledgers, NEW r \in TxRows
  PROVE  /\ ReplayTx(l, r) \in Ledgers
         /\ ReplayTx(l, r).total = l.total
         /\ \A a \in Accounts : ReplayTx(l, r).nonce[a] >= l.nonce[a]
         /\ r.tx.nonce < ReplayTx(l, r).nonce[r.tx.from]
<1>1. PICK h \in Nat, t \in Txs, m \in Accounts : r = TxRow(h, t, m)
  BY DEF TxRows
<1>2. r.tx = t /\ r.miner = m
  BY <1>1 DEF TxRow
<1> DEFINE b1 == Debit(l.balance, t.from, t.amount + t.fee)
           b2 == Add(b1, t.to, t.amount)
           b3 == Add(b2, m, t.fee)
           n == Larger(l.nonce[t.from], t.nonce + 1)
<1>3. l.balance \in [Accounts -> Nat] /\ l.nonce \in [Accounts -> Nat] /\ l.total \in Nat
  BY DEF Ledgers
<1>4. b1 \in [Accounts -> Nat]
  BY <1>3, TxType DEF Debit
<1> HIDE DEF b1
<1>5. b2 \in [Accounts -> Nat]
  <2>1. b1[t.to] + t.amount \in Nat
    BY <1>4, TxType
  <2> QED
    BY <1>4, <2>1, TxType, AddType
<1> HIDE DEF b2
<1>6. b3 \in [Accounts -> Nat]
  <2>1. b2[m] + t.fee \in Nat
    BY <1>5, TxType
  <2> QED
    BY <1>5, <2>1, TxType, AddType
<1>7. n \in Nat /\ n >= l.nonce[t.from] /\ t.nonce < n
  BY <1>3, TxType DEF Larger
<1>8. ReplayTx(l, r) = [l EXCEPT !.balance = b3, !.nonce = [@ EXCEPT ![t.from] = n]]
  BY <1>2 DEF ReplayTx, b1, b2
<1> HIDE DEF b3, n
<1>9. /\ [l.nonce EXCEPT ![t.from] = n] \in [Accounts -> Nat]
      /\ \A a \in Accounts : [l.nonce EXCEPT ![t.from] = n][a] >= l.nonce[a]
      /\ [l.nonce EXCEPT ![t.from] = n][t.from] = n
  BY <1>3, <1>7, TxType
<1>10. ReplayTx(l, r).nonce = [l.nonce EXCEPT ![t.from] = n] /\ ReplayTx(l, r).total = l.total
       /\ ReplayTx(l, r) \in Ledgers
  BY <1>3, <1>6, <1>8, <1>9 DEF Ledgers
<1> QED
  BY <1>2, <1>7, <1>9, <1>10

----------------------------------------------------------------------------
(* Emission *)

LEMMA PowerIsPositive == \A n \in Nat : 2^n \in Nat \ {0}
<1> TAKE n \in Nat
<1>1. IsFiniteSet(1..n) /\ Cardinality(1..n) = n
  BY FS_Interval
<1>2. IsFiniteSet(SUBSET (1..n)) /\ Cardinality(SUBSET (1..n)) = 2^n
  BY <1>1, FS_SUBSET
<1>3. Cardinality(SUBSET (1..n)) \in Nat /\ {} \in SUBSET (1..n)
  BY <1>2, FS_CardinalityType
<1>4. Cardinality(SUBSET (1..n)) # 0
  BY <1>2, <1>3, FS_EmptySet
<1> QED
  BY <1>2, <1>3, <1>4

LEMMA Quotient == \A n \in Nat, d \in Nat \ {0} : n \div d \in Nat
OBVIOUS

\* block_reward never passes the hard cap.
LEMMA RewardBounds ==
  ASSUME NEW h \in Nat, NEW total \in Nat
  PROVE  /\ BlockReward(h, total) \in Nat
         /\ total \in 0..HardCap => total + BlockReward(h, total) \in 0..HardCap
<1> DEFINE era == h \div HalvingInterval
           halved == InitialReward \div 2^era
           reward == IF era >= 64 THEN 0 ELSE halved
<1>1. HardCap \in Nat /\ InitialReward \in Nat /\ HalvingInterval \in Nat \ {0}
  BY BoundAssumption
<1>2. era \in Nat
  BY <1>1, Quotient
<1>3. halved \in Nat
  BY <1>1, <1>2, PowerIsPositive, Quotient
<1>4. BlockReward(h, total) = IF total >= HardCap THEN 0 ELSE Least(reward, HardCap - total)
  BY DEF BlockReward
<1> HIDE DEF era, halved
<1>5. reward \in Nat
  BY <1>3
<1> HIDE DEF reward
<1> QED
  BY <1>1, <1>4, <1>5 DEF Least

\* block_reward never passes the hard cap.
\* What the schedule gives at a height.
Due(h) == BlockReward(h, Scheduled(h - 1))

LEMMA ScheduledRuns ==
  ASSUME NEW h \in Nat
  PROVE  \E run : /\ run[0] = 0
                  /\ \A k \in 1..h : run[k] = run[k - 1] + BlockReward(k, run[k - 1])
                  /\ \A k \in 0..h : run[k] \in 0..HardCap
                  /\ Scheduled(h) = run[h]
<1> DEFINE seq == [k \in 1..h |-> k]
           S == SUBSET DOMAIN seq
           Step(total, k) == total + BlockReward(k, total)
           Folded(f) == [s \in S |-> IF s = {} THEN 0 ELSE Step(f[s \ {Max(s)}], seq[Max(s)])]
           f0 == CHOOSE f : f = Folded(f)
           V == 0..HardCap
           op == [p \in V \X (1..h) |-> Step(p[1], p[2])]
<1>1. seq \in Seq(1..h) /\ Len(seq) = h /\ \A k \in 1..h : seq[k] = k
  OBVIOUS
<1>2. 0 \in V /\ op \in [V \X (1..h) -> V]
  <2>1. 0 \in V
    BY BoundAssumption
  <2>2. ASSUME NEW p \in V \X (1..h) PROVE Step(p[1], p[2]) \in V
    BY RewardBounds
  <2> HIDE DEF V, Step
  <2> QED
    BY <2>1, <2>2
<1>3. Scheduled(h) = f0[DOMAIN seq]
  BY DEF Scheduled, FoldLeft, MapThenFoldSet
<1>4. \E g : g = Folded(g)
  <2>1. PICK g \in [S -> V] : FoldsOver(g, seq, 0, op)
    <3> HIDE DEF op, seq, V
    <3> QED
      BY <1>1, <1>2, FoldExists
  <2>2. ASSUME NEW s \in S, s # {}
        PROVE  op[<<g[s \ {Max(s)}], seq[Max(s)]>>] = Step(g[s \ {Max(s)}], seq[Max(s)])
    <3>1. Max(s) \in s
      BY <1>1, <2>2, LastPosition
    <3>2. g[s \ {Max(s)}] \in V /\ seq[Max(s)] \in 1..h
      BY <3>1
    <3> HIDE DEF Step, V, seq
    <3> QED
      BY <3>2
  <2> HIDE DEF op, Step
  <2>3. g = Folded(g)
    BY <2>1, <2>2 DEF FoldsOver
  <2> QED
    BY <2>3
<1>5. f0 = Folded(f0)
  BY <1>4
<1> HIDE DEF f0, Step, seq
<1>6. f0[1..0] = 0
  BY <1>1, <1>5, Stretches
<1>7. \A k \in 1..h : f0[1..k] = Step(f0[1..(k - 1)], k)
  <2>1. \A k \in 1..h : f0[1..k] = Step(f0[1..(k - 1)], seq[k])
    BY <1>1, <1>5, Stretches
  <2> QED
    BY <1>1, <2>1
<1> DEFINE run == [k \in 0..h |-> f0[1..k]]
<1>8. /\ run[0] = 0
      /\ \A k \in 1..h : run[k] = Step(run[k - 1], k)
      /\ Scheduled(h) = run[h]
  BY <1>1, <1>3, <1>6, <1>7, Stretches
<1> HIDE DEF run
<1>9. \A k \in 0..h : run[k] \in V
  <2>1. ASSUME NEW k \in 1..h, run[k - 1] \in V PROVE run[k] \in V
    <3>1. run[k] = run[k - 1] + BlockReward(k, run[k - 1])
      BY <1>8 DEF Step
    <3>2. run[k - 1] \in 0..HardCap /\ run[k - 1] \in Nat /\ k \in Nat
      BY <2>1
    <3>3. run[k - 1] + BlockReward(k, run[k - 1]) \in 0..HardCap
      BY <3>2, RewardBounds
    <3> QED
      BY <3>1, <3>3
  <2>2. run[0] \in V
    BY <1>2, <1>8
  <2> HIDE DEF V
  <2> QED
    BY <2>1, <2>2, RunStaysIn
<1> QED
  BY <1>8, <1>9 DEF Step

\* The schedule goes on by one height's reward, up to the hard cap.
LEMMA ScheduleSteps ==
  /\ Scheduled(0) = 0
  /\ \A h \in Nat : /\ Scheduled(h) \in 0..HardCap
                    /\ Due(h + 1) \in Nat
                    /\ Scheduled(h + 1) = Scheduled(h) + Due(h + 1)
<1>1. Scheduled(0) = 0
  <2>1. PICK run : run[0] = 0 /\ Scheduled(0) = run[0]
    BY ScheduledRuns
  <2> QED
    BY <2>1
<1>2. ASSUME NEW h \in Nat
      PROVE  /\ Scheduled(h) \in 0..HardCap /\ Due(h + 1) \in Nat
             /\ Scheduled(h + 1) = Scheduled(h) + Due(h + 1)
  <2>1. PICK r : /\ r[0] = 0
                 /\ \A k \in 1..h : r[k] = r[k - 1] + BlockReward(k, r[k - 1])
                 /\ \A k \in 0..h : r[k] \in 0..HardCap
                 /\ Scheduled(h) = r[h]
    BY ScheduledRuns
  <2>2. PICK q : /\ q[0] = 0
                 /\ \A k \in 1..(h + 1) : q[k] = q[k - 1] + BlockReward(k, q[k - 1])
                 /\ Scheduled(h + 1) = q[h + 1]
    BY ScheduledRuns
  <2>3. \A k \in 1..h : r[k - 1] = q[k - 1] => r[k] = q[k]
    BY <2>1, <2>2
  <2>4. r[h] = q[h]
    <3>1. \A k \in 0..h : r[k] = q[k]
      BY <2>1, <2>2, <2>3, RunsAgree
    <3> QED
      BY <3>1
  <2>5. Scheduled(h + 1) = Scheduled(h) + BlockReward(h + 1, Scheduled(h))
    <3>1. q[h + 1] = q[h] + BlockReward(h + 1, q[h])
      <4>1. h + 1 \in 1..(h + 1) /\ (h + 1) - 1 = h
        OBVIOUS
      <4> QED
        BY <2>2, <4>1
    <3> QED
      BY <2>1, <2>2, <2>4, <3>1
  <2>6. Scheduled(h) \in 0..HardCap
    BY <2>1
  <2>7. (h + 1) - 1 = h /\ h + 1 \in Nat
    OBVIOUS
  <2> QED
    BY <2>5, <2>6, <2>7, RewardBounds DEF Due
<1> QED
  BY <1>1, <1>2

\* The supply at a height is the sum of what was due up to it.
LEMMA ScheduleIsSum ==
  ASSUME NEW n \in Nat
  PROVE  Scheduled(n) = SumOf([h \in 1..n |-> Due(h)], 1..n)
<1> DEFINE part == [k \in 0..n |-> [h \in 1..n |-> IF h <= k THEN Due(h) ELSE 0]]
           sum == [k \in 0..n |-> SumOf(part[k], 1..n)]
           due == [k \in 0..n |-> Scheduled(k)]
<1>1. \A h \in 1..n : Due(h) \in Nat
  <2>1. ASSUME NEW h \in 1..n PROVE Due(h) \in Nat
    <3>1. h - 1 \in Nat /\ (h - 1) + 1 = h
      OBVIOUS
    <3> QED
      BY <3>1, ScheduleSteps
  <2> QED
    BY <2>1
<1>2. IsFiniteSet(1..n)
  BY FS_Interval
<1>3. \A k \in 0..n : part[k] \in [1..n -> Int]
  BY <1>1
<1>4. sum[0] = due[0]
  <2>1. \A h \in 1..n : part[0][h] = 0
    OBVIOUS
  <2>2. part[0] \in [1..n -> Int]
    BY <1>3
  <2> HIDE DEF part
  <2>3. SumOf(part[0], 1..n) = 0
    BY <1>2, <2>1, <2>2, SumIsNumber
  <2> QED
    BY <2>3, ScheduleSteps
<1>5. ASSUME NEW k \in 1..n, sum[k - 1] = due[k - 1] PROVE sum[k] = due[k]
  <2>1. k - 1 \in Nat /\ (k - 1) + 1 = k /\ k - 1 \in 0..n /\ k \in 0..n
    OBVIOUS
  <2>2. part[k] = [part[k - 1] EXCEPT ![k] = Due(k)] /\ part[k - 1][k] = 0
    <3>1. \A h \in 1..n : part[k][h] = IF h = k THEN Due(k) ELSE part[k - 1][h]
      BY <2>1
    <3>2. /\ part[k] = [h \in 1..n |-> part[k][h]]
          /\ part[k - 1] = [h \in 1..n |-> part[k - 1][h]]
          /\ part[k - 1][k] = 0
      BY <2>1
    <3> HIDE DEF part
    <3> QED
      BY <3>1, <3>2
  <2>3. part[k - 1] \in [1..n -> Int] /\ Due(k) \in Int
    BY <1>1, <1>3, <2>1
  <2> HIDE DEF part
  <2>4. SumOf(part[k], 1..n) = SumOf(part[k - 1], 1..n) + Due(k) - 0
    BY <1>2, <2>2, <2>3, SumChanges
  <2>5. SumOf(part[k - 1], 1..n) \in Int
    BY <1>2, <2>3, SumIsNumber
  <2>6. Scheduled(k) = Scheduled(k - 1) + Due(k)
    BY <2>1, ScheduleSteps
  <2>7. sum[k] = SumOf(part[k], 1..n) /\ sum[k - 1] = SumOf(part[k - 1], 1..n)
        /\ due[k] = Scheduled(k) /\ due[k - 1] = Scheduled(k - 1)
    BY <2>1
  <2> HIDE DEF sum, due
  <2>8. SumOf(part[k - 1], 1..n) = Scheduled(k - 1)
    BY <1>5, <2>7
  <2>9. SumOf(part[k], 1..n) = Scheduled(k)
    BY <2>3, <2>4, <2>5, <2>6, <2>8
  <2> QED
    BY <2>7, <2>9
<1>6. sum[n] = due[n]
  <2>1. \A k \in 1..n : sum[k - 1] = due[k - 1] => sum[k] = due[k]
    BY <1>5
  <2> HIDE DEF sum, due
  <2>2. \A k \in 0..n : sum[k] = due[k]
    BY <1>4, <2>1, RunsAgree
  <2> QED
    BY <2>2
<1>7. part[n] = [h \in 1..n |-> Due(h)]
  OBVIOUS
<1>8. sum[n] = SumOf(part[n], 1..n) /\ due[n] = Scheduled(n)
  OBVIOUS
<1> HIDE DEF sum, due, part
<1> QED
  BY <1>6, <1>7, <1>8

----------------------------------------------------------------------------
(* Simulation *)

\* s passes from l through the transactions q of miner m, none refused.
Applies(s, l, q, m) ==
  /\ s[0] = l
  /\ \A k \in 1..Len(q) : /\ s[k - 1] \in Ledgers /\ Valid(s[k - 1], q[k])
                          /\ s[k] = Transfer(s[k - 1], q[k], m)

\* What simulate_block_execution keeps applies, one after another, to the state
\* it began with, and leads to the state it ends with.
Simulated(l, m) ==
  {r \in [applied : Seq(Txs), ledger : Ledgers] :
     \E s : Applies(s, l, r.applied, m) /\ s[Len(r.applied)] = r.ledger}

LEMMA SimulationStep ==
  ASSUME NEW l \in Ledgers, NEW m \in Accounts, NEW r \in Simulated(l, m), NEW t \in Txs,
         Valid(r.ledger, t)
  PROVE  [applied |-> Append(r.applied, t), ledger |-> Transfer(r.ledger, t, m)] \in Simulated(l, m)
<1> DEFINE q == Append(r.applied, t)
           n == Len(r.applied)
           after == Transfer(r.ledger, t, m)
<1>1. r.applied \in Seq(Txs) /\ r.ledger \in Ledgers
  BY DEF Simulated
<1>2. PICK s : Applies(s, l, r.applied, m) /\ s[n] = r.ledger
  BY DEF Simulated
<1>3. /\ q \in Seq(Txs) /\ Len(q) = n + 1 /\ n \in Nat /\ q[n + 1] = t
      /\ \A k \in 1..n : q[k] = r.applied[k]
  BY <1>1
<1>4. after \in Ledgers
  BY <1>1, TransferType
<1> HIDE DEF q, n, after
<1> DEFINE z == [k \in 0..(n + 1) |-> IF k = n + 1 THEN after ELSE s[k]]
<1>5. /\ z[n + 1] = after /\ z[n] = r.ledger /\ z[0] = l
      /\ \A k \in 0..n : z[k] = s[k]
  BY <1>2, <1>3 DEF Applies
<1> HIDE DEF z
<1>6. ASSUME NEW k \in 1..n
      PROVE  z[k - 1] \in Ledgers /\ Valid(z[k - 1], q[k]) /\ z[k] = Transfer(z[k - 1], q[k], m)
  <2>1. /\ s[k - 1] \in Ledgers /\ Valid(s[k - 1], r.applied[k])
        /\ s[k] = Transfer(s[k - 1], r.applied[k], m)
    BY <1>2 DEF Applies, n
  <2>2. k - 1 \in 0..n /\ k \in 0..n
    BY <1>3
  <2>3. z[k - 1] = s[k - 1] /\ z[k] = s[k] /\ q[k] = r.applied[k]
    BY <1>3, <1>5, <2>2
  <2> QED
    BY <2>1, <2>3
<1>7. z[n] \in Ledgers /\ Valid(z[n], q[n + 1]) /\ z[n + 1] = Transfer(z[n], q[n + 1], m)
  BY <1>1, <1>3, <1>5 DEF after
<1>8. Applies(z, l, q, m)
  <2>1. \A k \in 1..(n + 1) : k \in 1..n \/ (k = n + 1 /\ k - 1 = n)
    BY <1>3
  <2> QED
    BY <1>3, <1>5, <1>6, <1>7, <2>1 DEF Applies
<1>9. [applied |-> q, ledger |-> after] \in Simulated(l, m)
  BY <1>3, <1>4, <1>5, <1>8 DEF Simulated
<1> QED
  BY <1>9 DEF q, after

LEMMA SimulationApplies ==
  ASSUME NEW l \in Ledgers, NEW txs \in Seq(Txs), NEW m \in Accounts
  PROVE  Simulate(l, txs, m) \in Simulated(l, m)
<1> DEFINE S == SUBSET DOMAIN txs
           V == Simulated(l, m)
           base == [applied |-> <<>>, ledger |-> l]
           Step(s, t) == IF Valid(s.ledger, t)
                           THEN [applied |-> Append(s.applied, t), ledger |-> Transfer(s.ledger, t, m)]
                           ELSE s
           Folded(f) == [s \in S |-> IF s = {} THEN base ELSE Step(f[s \ {Max(s)}], txs[Max(s)])]
           f0 == CHOOSE f : f = Folded(f)
           op == [p \in V \X Txs |-> Step(p[1], p[2])]
<1>1. base \in V
  <2> DEFINE s == [k \in {0} |-> l]
  <2>1. Applies(s, l, <<>>, m) /\ s[Len(<<>>)] = l
    BY DEF Applies
  <2>2. <<>> \in Seq(Txs)
    OBVIOUS
  <2> HIDE DEF s
  <2> QED
    BY <2>1, <2>2 DEF Simulated
<1>2. \A s \in V, t \in Txs : Step(s, t) \in V
  BY SimulationStep
<1>3. op \in [V \X Txs -> V]
  <2> HIDE DEF V, Step
  <2> QED
    BY <1>2
<1>4. Simulate(l, txs, m) = f0[DOMAIN txs]
  BY DEF Simulate, FoldLeft, MapThenFoldSet
<1>5. DOMAIN txs = 1..Len(txs) /\ Len(txs) \in Nat /\ \A i \in DOMAIN txs : txs[i] \in Txs
  BY LenProperties, ElementOfSeq
<1>6. \A s \in S : s # {} => Max(s) \in s
  BY <1>5, LastPosition
<1>7. \E g : g = Folded(g)
  <2>1. PICK g \in [S -> V] : FoldsOver(g, txs, base, op)
    <3> HIDE DEF op, V, base
    <3> QED
      BY <1>1, <1>3, FoldExists, Zenon
  <2>2. ASSUME NEW s \in S, s # {}
        PROVE  op[<<g[s \ {Max(s)}], txs[Max(s)]>>] = Step(g[s \ {Max(s)}], txs[Max(s)])
    <3>1. g[s \ {Max(s)}] \in V /\ txs[Max(s)] \in Txs
      BY <1>5, <1>6, <2>2
    <3> HIDE DEF Step, V
    <3> QED
      BY <3>1
  <2> HIDE DEF op, Step, base
  <2>3. g = Folded(g)
    BY <2>1, <2>2, Zenon DEF FoldsOver
  <2> QED
    BY <2>3
<1>8. f0 = Folded(f0)
  BY <1>7, Zenon
<1> HIDE DEF f0, Step, base, V
<1>9. \A s \in S : s # {} => (f0[s \ {Max(s)}] \in V => f0[s] \in V)
  <2>1. ASSUME NEW s \in S, s # {}, f0[s \ {Max(s)}] \in V PROVE f0[s] \in V
    <3>1. txs[Max(s)] \in Txs
      BY <1>5, <1>6, <2>1
    <3>2. f0[s] = Step(f0[s \ {Max(s)}], txs[Max(s)])
      BY <1>8, <2>1
    <3> QED
      BY <1>2, <2>1, <3>1, <3>2
  <2> QED
    BY <2>1
<1>10. f0[{}] \in V
  BY <1>1, <1>8
<1>11. IsFiniteSet(DOMAIN txs)
  BY <1>5, FS_Interval
<1>12. \A s \in S : f0[s] \in V
  <2> DEFINE ch == [s \in S |-> Max(s)]
  <2>1. \A s \in S : s # {} => ch[s] \in s /\ (f0[s \ {ch[s]}] \in V => f0[s] \in V)
    BY <1>6, <1>9
  <2> HIDE DEF ch
  <2> QED
    BY <1>10, <1>11, <2>1, FoldStaysIn
<1> QED
  BY <1>4, <1>12 DEF V

----------------------------------------------------------------------------
(* Reopening *)

\* What the row at position i does to the balances open_scoped is rebuilding.
Replayed(l, i, h) ==
  IF rows[i].height > h THEN l
  ELSE IF rows[i].kind = "tx" THEN ReplayTx(l, rows[i])
  ELSE IF LatestReward(i) THEN Reward(l, rows[i].miner, rows[i].reward)
  ELSE l

LEMMA RowType ==
  ASSUME NEW r \in TxRows \union RewardRows
  PROVE  /\ r.height \in Nat /\ r.miner \in Accounts /\ r.reward \in Nat
         /\ r.kind = "tx" => r \in TxRows /\ r.tx \in Txs
         /\ r.kind # "tx" => r.kind = "reward"
<1>1. CASE r \in TxRows
  <2>1. PICK h \in Nat, t \in Txs, m \in Accounts : r = TxRow(h, t, m)
    BY <1>1 DEF TxRows
  <2> QED
    BY <1>1, <2>1 DEF TxRow
<1>2. CASE r \in RewardRows
  <2>1. PICK h \in Nat, m \in Accounts, x \in Nat : r = RewardRow(h, m, x)
    BY <1>2 DEF RewardRows
  <2> QED
    BY <2>1 DEF RewardRow
<1> QED
  BY <1>1, <1>2

LEMMA ReplayedType ==
  ASSUME rows \in Seq(TxRows \union RewardRows), NEW i \in 1..Len(rows), NEW l \in Ledgers,
         NEW h \in Nat
  PROVE  /\ Replayed(l, i, h) \in Ledgers
         /\ \A a \in Accounts : Replayed(l, i, h).nonce[a] >= l.nonce[a]
<1>1. rows[i] \in TxRows \union RewardRows
  BY ElementOfSeq
<1>2. \A a \in Accounts : l.nonce[a] \in Nat
  BY DEF Ledgers
<1>3. CASE rows[i].kind = "tx" /\ ~(rows[i].height > h)
  <2>1. Replayed(l, i, h) = ReplayTx(l, rows[i]) /\ rows[i] \in TxRows
    BY <1>1, <1>3, RowType DEF Replayed
  <2> QED
    BY <2>1, ReplayType
<1>4. CASE rows[i].kind # "tx" /\ ~(rows[i].height > h) /\ LatestReward(i)
  <2>1. Replayed(l, i, h) = Reward(l, rows[i].miner, rows[i].reward)
    BY <1>4 DEF Replayed
  <2>2. rows[i].miner \in Accounts /\ rows[i].reward \in Nat
    BY <1>1, RowType
  <2>3. PICK m \in Accounts, r \in Nat : m = rows[i].miner /\ r = rows[i].reward
    BY <2>2
  <2>4. Reward(l, m, r) \in Ledgers /\ Reward(l, m, r).nonce = l.nonce
    BY RewardType
  <2>5. Replayed(l, i, h) = Reward(l, m, r)
    BY <2>1, <2>3
  <2> QED
    BY <1>2, <2>4, <2>5
<1>5. CASE rows[i].height > h \/ (rows[i].kind # "tx" /\ ~LatestReward(i))
  <2>1. Replayed(l, i, h) = l
    BY <1>5 DEF Replayed
  <2> QED
    BY <1>2, <2>1
<1> QED
  BY <1>3, <1>4, <1>5

\* open_scoped goes through the rows from the first to the last.
Replays(run, h) ==
  /\ run[0] = Empty
  /\ \A k \in 0..Len(rows) : run[k] \in Ledgers
  /\ \A k \in 1..Len(rows) : run[k] = Replayed(run[k - 1], k, h)

LEMMA ReopeningReplays ==
  ASSUME rows \in Seq(TxRows \union RewardRows), NEW h \in Nat
  PROVE  \E run : Replays(run, h) /\ OpenScoped(h) = run[Len(rows)]
<1> DEFINE n == Len(rows)
           seq == [i \in 1..n |-> i]
           S == SUBSET DOMAIN seq
           inScope == {i \in 1..n : rows[i].height <= h}
           Step(l, i) ==
             IF i \notin inScope THEN l
             ELSE IF rows[i].kind = "tx" THEN ReplayTx(l, rows[i])
             ELSE IF LatestReward(i) THEN Reward(l, rows[i].miner, rows[i].reward)
             ELSE l
           Folded(f) == [s \in S |-> IF s = {} THEN Empty ELSE Step(f[s \ {Max(s)}], seq[Max(s)])]
           f0 == CHOOSE f : f = Folded(f)
           op == [p \in Ledgers \X (1..n) |-> Step(p[1], p[2])]
<1>0. n \in Nat /\ \A i \in 1..n : rows[i] \in TxRows \union RewardRows
  BY LenProperties, ElementOfSeq
<1>1. seq \in Seq(1..n) /\ Len(seq) = n /\ DOMAIN seq = 1..n /\ \A k \in 1..n : seq[k] = k
  BY <1>0
<1>2. \A l \in Ledgers, i \in 1..n : Step(l, i) = Replayed(l, i, h)
  <2>1. ASSUME NEW l \in Ledgers, NEW i \in 1..n PROVE Step(l, i) = Replayed(l, i, h)
    <3>1. i \in inScope <=> ~(rows[i].height > h)
      <4>1. rows[i].height \in Nat
        BY <1>0, RowType
      <4> QED
        BY <4>1
    <3> QED
      BY <3>1 DEF Replayed
  <2> QED
    BY <2>1
<1>3. \A l \in Ledgers, i \in 1..n : Step(l, i) \in Ledgers
  <2> HIDE DEF Step
  <2> QED
    BY <1>2, ReplayedType
<1>4. OpenScoped(h) = f0[DOMAIN seq]
  BY DEF OpenScoped, FoldLeft, MapThenFoldSet
<1>5. op \in [Ledgers \X (1..n) -> Ledgers]
  <2> HIDE DEF Step, n
  <2> QED
    BY <1>3
<1>6. \A s \in S : s # {} => Max(s) \in s
  BY <1>0, <1>1, LastPosition
<1>7. \E g : g = Folded(g)
  <2>1. PICK g \in [S -> Ledgers] : FoldsOver(g, seq, Empty, op)
    <3> HIDE DEF op, seq, n
    <3> QED
      BY <1>1, <1>5, EmptyType, FoldExists
  <2>2. ASSUME NEW s \in S, s # {}
        PROVE  op[<<g[s \ {Max(s)}], seq[Max(s)]>>] = Step(g[s \ {Max(s)}], seq[Max(s)])
    <3>1. g[s \ {Max(s)}] \in Ledgers /\ seq[Max(s)] \in 1..n
      BY <1>1, <1>6, <2>2, Zenon
    <3> HIDE DEF Step, seq, n
    <3> QED
      BY <3>1
  <2> HIDE DEF op, Step
  <2>3. g = Folded(g)
    BY <2>1, <2>2, Zenon DEF FoldsOver
  <2> QED
    BY <2>3
<1>8. f0 = Folded(f0)
  BY <1>7, Zenon
<1> HIDE DEF f0, Step, seq, n
<1>9. f0[1..0] = Empty
  BY <1>1, <1>8, Stretches
<1>10. \A k \in 1..n : f0[1..k] = Step(f0[1..(k - 1)], k)
  <2>1. ASSUME NEW k \in 1..n PROVE f0[1..k] = Step(f0[1..(k - 1)], k)
    <3>1. /\ 1..k \in S /\ 1..k # {}
          /\ Max(1..k) = k /\ (1..k) \ {Max(1..k)} = 1..(k - 1)
      BY <1>1, Stretches
    <3>2. f0[1..k] = Step(f0[(1..k) \ {Max(1..k)}], seq[Max(1..k)])
      BY <1>8, <3>1
    <3> QED
      BY <1>1, <3>1, <3>2
  <2> QED
    BY <2>1
<1> DEFINE run == [k \in 0..n |-> f0[1..k]]
<1>11. /\ run[0] = Empty
       /\ \A k \in 1..n : run[k] = Step(run[k - 1], k)
       /\ OpenScoped(h) = run[n]
  <2>1. \A k \in 1..n : k \in 0..n /\ k - 1 \in 0..n
    BY <1>0
  <2>2. 0 \in 0..n /\ n \in 0..n
    BY <1>0
  <2> QED
    BY <1>1, <1>4, <1>9, <1>10, <2>1, <2>2
<1> HIDE DEF run
<1>12. \A k \in 0..n : run[k] \in Ledgers
  <2>1. \A k \in 1..n : run[k - 1] \in Ledgers => run[k] \in Ledgers
    BY <1>3, <1>11
  <2>2. run[0] \in Ledgers
    BY <1>11, EmptyType
  <2> QED
    BY <1>0, <2>1, <2>2, RunStaysIn
<1>13. \A k \in 1..n : run[k] = Replayed(run[k - 1], k, h)
  <2>1. \A k \in 1..n : k - 1 \in 0..n
    BY <1>0
  <2> QED
    BY <1>2, <1>11, <1>12, <2>1
<1>14. Replays(run, h)
  BY <1>11, <1>12, <1>13 DEF Replays, n
<1> QED
  BY <1>11, <1>14 DEF n

\* What a run of ledgers has from some row on, it has at the end.
LEMMA NoncesGrow ==
  ASSUME rows \in Seq(TxRows \union RewardRows), NEW h \in Nat, NEW run, Replays(run, h),
         NEW i \in 1..Len(rows), NEW a \in Accounts
  PROVE  run[Len(rows)].nonce[a] >= run[i].nonce[a]
<1> DEFINE n == Len(rows)
           first == run[i].nonce[a]
           from == [k \in 0..n |-> IF k < i THEN first ELSE run[k].nonce[a]]
           V == {x \in Nat : x >= first}
<1>0. n \in Nat
  BY LenProperties
<1>1. \A k \in 0..n : run[k].nonce[a] \in Nat
  BY DEF Replays, Ledgers
<1>2. \A k \in 1..n : run[k].nonce[a] >= run[k - 1].nonce[a]
  <2>1. ASSUME NEW k \in 1..n PROVE run[k].nonce[a] >= run[k - 1].nonce[a]
    <3>1. k - 1 \in 0..n
      BY <1>0
    <3>2. run[k - 1] \in Ledgers /\ run[k] = Replayed(run[k - 1], k, h)
      BY <3>1 DEF Replays
    <3> QED
      BY <3>2, ReplayedType
  <2> QED
    BY <2>1
<1>3. first \in V
  BY <1>0, <1>1
<1>4. from[0] \in V
  BY <1>0, <1>3
<1>5. ASSUME NEW k \in 1..n, from[k - 1] \in V PROVE from[k] \in V
  <2>1. k - 1 \in 0..n /\ k \in 0..n
    BY <1>0
  <2>2. CASE k <= i
    <3>1. from[k] = first
      BY <2>1, <2>2
    <3> QED
      BY <1>3, <3>1
  <2>3. CASE k > i
    <3>1. from[k] = run[k].nonce[a] /\ from[k - 1] = run[k - 1].nonce[a]
      BY <2>1, <2>3
    <3>2. run[k - 1].nonce[a] >= first /\ first \in Nat
      BY <1>3, <1>5, <3>1
    <3> HIDE DEF first, from
    <3>3. run[k].nonce[a] >= first
      BY <1>1, <1>2, <2>1, <3>2
    <3> QED
      BY <1>1, <2>1, <3>1, <3>3
  <2> QED
    BY <2>2, <2>3
<1>6. from[n] = run[n].nonce[a]
  BY <1>0
<1> HIDE DEF V, n, from, first
<1>7. from[n] \in V
  <2>1. \A k \in 0..n : from[k] \in V
    BY <1>0, <1>4, <1>5, RunStaysIn
  <2> QED
    BY <1>0, <2>1
<1> QED
  BY <1>6, <1>7 DEF V, n, first

\* After a reopening every transaction of the rows read is behind its account's
\* nonce, whichever chain the row was written for.
LEMMA RowsBehind ==
  ASSUME rows \in Seq(TxRows \union RewardRows), NEW h \in Nat, NEW i \in 1..Len(rows),
         rows[i].kind = "tx", rows[i].height <= h
  PROVE  rows[i].tx.nonce < OpenScoped(h).nonce[rows[i].tx.from]
<1>1. PICK run : Replays(run, h) /\ OpenScoped(h) = run[Len(rows)]
  BY ReopeningReplays
<1>2. rows[i] \in TxRows \union RewardRows /\ Len(rows) \in Nat
  BY LenProperties, ElementOfSeq
<1>3. rows[i] \in TxRows /\ rows[i].tx \in Txs /\ rows[i].height \in Nat
  BY <1>2, RowType
<1>4. i - 1 \in 0..Len(rows) /\ i \in 0..Len(rows) /\ Len(rows) \in 0..Len(rows)
  BY <1>2
<1>5. run[i - 1] \in Ledgers /\ run[i] \in Ledgers /\ run[Len(rows)] \in Ledgers
      /\ run[i] = Replayed(run[i - 1], i, h)
  BY <1>1, <1>4 DEF Replays
<1>6. run[i] = ReplayTx(run[i - 1], rows[i])
  BY <1>3, <1>5 DEF Replayed
<1>7. rows[i].tx.nonce < run[i].nonce[rows[i].tx.from]
  BY <1>3, <1>5, <1>6, ReplayType
<1>8. rows[i].tx.from \in Accounts /\ rows[i].tx.nonce \in Nat
  BY <1>3, TxType
<1>9. run[Len(rows)].nonce[rows[i].tx.from] >= run[i].nonce[rows[i].tx.from]
  BY <1>1, <1>8, NoncesGrow
<1>10. run[Len(rows)].nonce[rows[i].tx.from] \in Nat /\ run[i].nonce[rows[i].tx.from] \in Nat
  BY <1>5, <1>8 DEF Ledgers
<1> QED
  BY <1>1, <1>7, <1>8, <1>9, <1>10

\* Every reward row states what the schedule gives at its height.
RewardsAreDue ==
  \A i \in 1..Len(rows) :
    rows[i].kind = "reward" => rows[i].height # 0 /\ rows[i].reward = Due(rows[i].height)

\* Every height up to n that has a reward has left a row of it.
Paid(n) ==
  \A h \in 1..n : Due(h) # 0 =>
    \E i \in 1..Len(rows) : rows[i].kind = "reward" /\ rows[i].height = h

LEMMA DueIsNat == \A h \in Nat \ {0} : Due(h) \in Nat
<1> TAKE h \in Nat \ {0}
<1>1. h - 1 \in Nat /\ (h - 1) + 1 = h
  OBVIOUS
<1> QED
  BY <1>1, ScheduleSteps

\* The last reward row of a height.
LEMMA LatestExists ==
  ASSUME rows \in Seq(TxRows \union RewardRows),
         NEW h, \E i \in 1..Len(rows) : rows[i].kind = "reward" /\ rows[i].height = h
  PROVE  \E i \in 1..Len(rows) :
           rows[i].kind = "reward" /\ rows[i].height = h /\ LatestReward(i)
<1> DEFINE n == Len(rows)
           back == {n - i : i \in {j \in 1..n : rows[j].kind = "reward" /\ rows[j].height = h}}
<1>1. n \in Nat
  BY LenProperties
<1>2. back \in SUBSET Nat /\ back # {}
  BY <1>1
<1>3. PICK d \in back : \A m \in back : m >= d
  BY <1>2, LeastOf
<1>4. PICK i \in 1..n : d = n - i /\ rows[i].kind = "reward" /\ rows[i].height = h
  BY <1>3
<1>5. ASSUME NEW j \in (i + 1)..n, rows[j].kind = "reward", rows[j].height = h PROVE FALSE
  <2>1. j \in 1..n
    BY <1>1, <1>4
  <2>2. n - j \in back
    BY <1>5, <2>1
  <2>3. n - j >= n - i
    BY <1>3, <1>4, <2>2
  <2> QED
    BY <1>1, <1>4, <1>5, <2>1, <2>3
<1> QED
  BY <1>4, <1>5 DEF LatestReward

\* open_scoped adds up one reward of every height it covers: the supply is the
\* schedule's however often a height was mined.
LEMMA ReopenedSupply ==
  ASSUME rows \in Seq(TxRows \union RewardRows), RewardsAreDue, NEW n \in Nat, Paid(n)
  PROVE  OpenScoped(n).total = Scheduled(n)
<1> DEFINE len == Len(rows)
           Counts(i, h) == rows[i].kind = "reward" /\ rows[i].height = h /\ LatestReward(i)
           part == [k \in 0..len |->
                      [h \in 1..n |-> IF \E i \in 1..k : Counts(i, h) THEN Due(h) ELSE 0]]
           sum == [k \in 0..len |-> SumOf(part[k], 1..n)]
<1>1. len \in Nat /\ \A i \in 1..len : rows[i] \in TxRows \union RewardRows
  BY LenProperties, ElementOfSeq
<1>2. PICK run : Replays(run, n) /\ OpenScoped(n) = run[len]
  BY ReopeningReplays
<1> DEFINE total == [k \in 0..len |-> run[k].total]
<1>3. IsFiniteSet(1..n)
  BY FS_Interval
<1>4. \A h \in 1..n : Due(h) \in Nat
  BY DueIsNat
<1>5. \A k \in 0..len : part[k] \in [1..n -> Nat]
  BY <1>4
<1>6. sum[0] = total[0]
  <2>1. 0 \in 0..len
    BY <1>1
  <2>2. part[0] \in [1..n -> Int] /\ \A h \in 1..n : part[0][h] = 0
    BY <2>1
  <2>3. total[0] = 0 /\ sum[0] = SumOf(part[0], 1..n)
    BY <1>2, <2>1 DEF Replays, Empty
  <2> HIDE DEF part, sum, total
  <2> QED
    BY <1>3, <2>2, <2>3, SumIsNumber
<1>7. ASSUME NEW k \in 1..len, sum[k - 1] = total[k - 1] PROVE sum[k] = total[k]
  <2>1. k - 1 \in 0..len /\ k \in 0..len
    BY <1>1
  <2>2. /\ sum[k] = SumOf(part[k], 1..n) /\ sum[k - 1] = SumOf(part[k - 1], 1..n)
        /\ total[k] = run[k].total /\ total[k - 1] = run[k - 1].total
    BY <2>1
  <2>3. run[k - 1] \in Ledgers /\ run[k] = Replayed(run[k - 1], k, n)
        /\ run[k - 1].total \in Nat
    BY <1>2, <2>1 DEF Replays, Ledgers
  <2>4. rows[k] \in TxRows \union RewardRows /\ rows[k].height \in Nat
        /\ (rows[k].kind = "tx" => rows[k] \in TxRows) /\ rows[k].miner \in Accounts
        /\ rows[k].reward \in Nat /\ (rows[k].kind # "tx" => rows[k].kind = "reward")
    BY <1>1, RowType
  <2>5. \A h \in 1..n : part[k][h] = IF Counts(k, h) THEN Due(h) ELSE part[k - 1][h]
    <3>1. 1..k = (1..(k - 1)) \union {k}
      BY <1>1
    <3> HIDE DEF Counts
    <3> QED
      BY <2>1, <3>1
  <2>6. part[k] \in [1..n -> Int] /\ part[k - 1] \in [1..n -> Int]
    BY <1>5, <2>1
  <2>7. CASE \E h \in 1..n : Counts(k, h)
    <3>1. PICK h \in 1..n : Counts(k, h)
      BY <2>7
    <3>2. part[k - 1][h] = 0
      <4>1. ~\E i \in 1..(k - 1) : Counts(i, h)
        <5>1. ASSUME NEW i \in 1..(k - 1), Counts(i, h) PROVE FALSE
          <6>1. k \in (i + 1)..len
            BY <1>1
          <6> QED
            BY <3>1, <5>1, <6>1 DEF LatestReward
        <5> QED
          BY <5>1
      <4> QED
        BY <2>1, <4>1
    <3>3. \A j \in 1..n : Counts(k, j) <=> j = h
      BY <3>1
    <3>4. run[k].total = run[k - 1].total + Due(h)
      <4>1. Replayed(run[k - 1], k, n) = Reward(run[k - 1], rows[k].miner, rows[k].reward)
        BY <2>4, <3>1 DEF Replayed
      <4>2. rows[k].reward = Due(h)
        BY <3>1 DEF RewardsAreDue
      <4>3. /\ run[k - 1] \in Ledgers /\ rows[k].miner \in Accounts /\ rows[k].reward \in Nat
            /\ run[k] = Reward(run[k - 1], rows[k].miner, rows[k].reward)
        BY <2>3, <2>4, <4>1
      <4>4. Reward(run[k - 1], rows[k].miner, rows[k].reward).total = run[k - 1].total + rows[k].reward
        BY <4>3, RewardType
      <4> QED
        BY <4>2, <4>3, <4>4
    <3> HIDE DEF part, sum, total, Counts
    <3>5. part[k] = [part[k - 1] EXCEPT ![h] = Due(h)]
      BY <2>5, <2>6, <3>3
    <3>6. SumOf(part[k], 1..n) = SumOf(part[k - 1], 1..n) + Due(h) - part[k - 1][h]
      <4>1. Due(h) \in Int
        BY <1>4
      <4>2. PICK b : b = part[k - 1]
        OBVIOUS
      <4>3. PICK v : v = Due(h)
        OBVIOUS
      <4>4. b \in [1..n -> Int] /\ v \in Int
        BY <2>6, <4>1, <4>2, <4>3
      <4>5. SumOf([b EXCEPT ![h] = v], 1..n) = SumOf(b, 1..n) + v - b[h]
        BY <1>3, <4>4, SumChanges
      <4> QED
        BY <3>5, <4>2, <4>3, <4>5
    <3>7. SumOf(part[k - 1], 1..n) = run[k - 1].total /\ Due(h) \in Nat
      BY <1>4, <1>7, <2>2
    <3>8. SumOf(part[k], 1..n) = run[k].total
      BY <2>3, <3>2, <3>4, <3>6, <3>7
    <3> QED
      BY <2>2, <3>8
  <2>8. CASE ~\E h \in 1..n : Counts(k, h)
    <3>1. run[k].total = run[k - 1].total
      <4>1. CASE rows[k].kind = "tx"
        <5>1. Replayed(run[k - 1], k, n) \in {run[k - 1], ReplayTx(run[k - 1], rows[k])}
          BY <4>1 DEF Replayed
        <5>2. ReplayTx(run[k - 1], rows[k]).total = run[k - 1].total
          BY <2>3, <2>4, <4>1, ReplayType
        <5> QED
          BY <2>3, <5>1, <5>2
      <4>2. CASE rows[k].kind # "tx"
        <5>1. rows[k].kind = "reward" /\ rows[k].height # 0
          BY <2>4, <4>2 DEF RewardsAreDue
        <5>2. rows[k].height > n \/ ~LatestReward(k)
          <6>1. rows[k].height \in 1..n => ~Counts(k, rows[k].height)
            BY <2>8
          <6>2. rows[k].height \in 1..n \/ rows[k].height > n
            BY <2>4, <5>1
          <6> QED
            BY <5>1, <6>1, <6>2
        <5> QED
          BY <2>3, <4>2, <5>2 DEF Replayed
      <4> QED
        BY <4>1, <4>2
    <3> HIDE DEF part, sum, total, Counts
    <3>2. part[k] = part[k - 1]
      BY <2>5, <2>6, <2>8
    <3> QED
      BY <1>7, <2>2, <3>1, <3>2
  <2> QED
    BY <2>7, <2>8
<1>8. sum[len] = total[len]
  <2>1. len \in Nat
    BY <1>1
  <2> HIDE DEF sum, total, part, len
  <2>2. \A k \in 1..len : sum[k - 1] = total[k - 1] => sum[k] = total[k]
    BY <1>7
  <2>3. \A k \in 0..len : sum[k] = total[k]
    BY <1>6, <2>1, <2>2, RunsAgree
  <2> QED
    BY <2>1, <2>3
<1>9. part[len] = [h \in 1..n |-> Due(h)]
  <2>1. ASSUME NEW h \in 1..n PROVE part[len][h] = Due(h)
    <3>1. part[len][h] = IF \E i \in 1..len : Counts(i, h) THEN Due(h) ELSE 0
      BY <1>1
    <3>2. CASE Due(h) = 0
      BY <3>1, <3>2
    <3>3. CASE Due(h) # 0
      <4>1. \E i \in 1..len : rows[i].kind = "reward" /\ rows[i].height = h
        BY <3>3 DEF Paid
      <4>2. \E i \in 1..len : Counts(i, h)
        BY <4>1, LatestExists
      <4> QED
        BY <3>1, <4>2
    <3> QED
      BY <3>2, <3>3
  <2>2. part[len] \in [1..n -> Nat]
    BY <1>1, <1>5
  <2> HIDE DEF part
  <2> QED
    BY <2>1, <2>2
<1>10. sum[len] = SumOf(part[len], 1..n) /\ total[len] = run[len].total
  BY <1>1
<1> HIDE DEF sum, total, part, len
<1> QED
  BY <1>2, <1>8, <1>9, <1>10, ScheduleIsSum

----------------------------------------------------------------------------
(* Types, and the state a header commits to *)

\* While a block is applied, what is left of it leads from the balances in memory
\* to what its header committed to; once it is credited they are that.
Consistent ==
  /\ phase = "apply" =>
       \E s : /\ Applies(s, mem, queue, block.miner)
              /\ s[Len(queue)] \in Ledgers
              /\ forecast = Reward(s[Len(queue)], block.miner, block.reward)
  /\ phase = "credited" => mem = forecast

Books ==
  /\ TypeOK
  /\ rows \in Seq(TxRows \union RewardRows)
  /\ Consistent

LEMMA NoBlockType == NoBlock \in Blocks
<1>1. (CHOOSE a \in Accounts : TRUE) \in Accounts
  BY AccountAssumption
<1>2. <<>> \in Seq(Txs)
  OBVIOUS
<1> QED
  BY <1>1, <1>2 DEF NoBlock, Blocks

LEMMA EmptyBooks == Init => Books
<1> SUFFICES ASSUME Init PROVE Books
  OBVIOUS
<1>1. MaxReopens \in Nat
  BY BoundAssumption
<1>2. TypeOK
  BY <1>1, NoBlockType, EmptyType DEF Init, TypeOK
<1>3. rows \in Seq(TxRows \union RewardRows) /\ Consistent
  BY DEF Init, Consistent
<1> QED
  BY <1>2, <1>3 DEF Books

LEMMA BuildKeepsBooks ==
  ASSUME Books, NEW txs \in Candidates, NEW m \in Accounts, BuildBlock(txs, m)
  PROVE  Books'
<1> DEFINE reward == BlockReward(Len(chain) + 1, mem.total)
           result == Simulate(mem, txs, m)
<1>1. /\ block' = [txs |-> result.applied, miner |-> m, reward |-> reward]
      /\ queue' = result.applied
      /\ forecast' = Reward(result.ledger, m, reward)
      /\ phase' = "apply"
      /\ mem' = mem /\ rows' = rows /\ chain' = chain /\ saved' = saved
      /\ exact' = exact /\ reopens' = reopens
  BY DEF BuildBlock
<1>2. mem \in Ledgers /\ chain \in Seq(Blocks) /\ txs \in Seq(Txs)
  BY TxAssumption DEF Books, TypeOK
<1>3. result \in Simulated(mem, m)
  BY <1>2, SimulationApplies
<1> HIDE DEF result
<1>4. /\ result.applied \in Seq(Txs) /\ result.ledger \in Ledgers
      /\ \E s : Applies(s, mem, result.applied, m) /\ s[Len(result.applied)] = result.ledger
  BY <1>3 DEF Simulated
<1>5. reward \in Nat
  <2>1. mem.total \in Nat /\ Len(chain) + 1 \in Nat
    BY <1>2, LenProperties DEF Ledgers
  <2> QED
    BY <2>1, RewardBounds
<1> HIDE DEF reward
<1>6. forecast' \in Ledgers /\ block' \in Blocks
  BY <1>1, <1>4, <1>5, RewardType DEF Blocks
<1>7. TypeOK'
  BY <1>1, <1>4, <1>6 DEF Books, TypeOK
<1>8. block'.miner = m /\ block'.reward = reward
  BY <1>1
<1>9. Consistent'
  <2>1. PICK s : Applies(s, mem, result.applied, m) /\ s[Len(result.applied)] = result.ledger
    BY <1>4
  <2>2. /\ Applies(s, mem', queue', block'.miner) /\ s[Len(queue')] \in Ledgers
        /\ forecast' = Reward(s[Len(queue')], block'.miner, block'.reward)
    BY <1>1, <1>4, <1>8, <2>1
  <2> QED
    BY <1>1, <2>2 DEF Consistent
<1> QED
  BY <1>1, <1>7, <1>9 DEF Books

LEMMA ApplyKeepsBooks ==
  ASSUME Books, ApplyTransaction
  PROVE  /\ Books'
         /\ Valid(mem, Head(queue))
         /\ mem' = Transfer(mem, Head(queue), block.miner)
         /\ rows' = Append(rows, TxRow(Len(chain) + 1, Head(queue), block.miner))
<1> DEFINE t == Head(queue)
           n == Len(queue)
<1>1. /\ phase = "apply" /\ queue # <<>> /\ queue' = Tail(queue)
      /\ chain' = chain /\ saved' = saved /\ phase' = phase /\ block' = block
      /\ forecast' = forecast /\ exact' = exact /\ reopens' = reopens
  BY DEF ApplyTransaction
<1>2. /\ mem \in Ledgers /\ queue \in Seq(Txs) /\ block.miner \in Accounts /\ block.reward \in Nat
      /\ chain \in Seq(Blocks)
  BY DEF Books, TypeOK, Blocks
<1>3. /\ t \in Txs /\ t = queue[1] /\ n \in Nat /\ 1 \in 1..n
      /\ queue' \in Seq(Txs) /\ Len(queue') = n - 1
      /\ \A k \in 1..(n - 1) : queue'[k] = queue[k + 1]
  BY <1>1, <1>2
<1>4. PICK s : /\ Applies(s, mem, queue, block.miner)
               /\ s[n] \in Ledgers
               /\ forecast = Reward(s[n], block.miner, block.reward)
  BY <1>1 DEF Books, Consistent
<1> HIDE DEF n, t
<1>5. Valid(mem, t) /\ s[1] = Transfer(mem, t, block.miner)
  <2>1. Valid(s[0], queue[1]) /\ s[1] = Transfer(s[0], queue[1], block.miner) /\ s[0] = mem
    BY <1>3, <1>4 DEF Applies, n
  <2> QED
    BY <1>3, <2>1
<1>6. /\ mem' = Transfer(mem, t, block.miner)
      /\ rows' = Append(rows, TxRow(Len(chain) + 1, t, block.miner))
  BY <1>5 DEF ApplyTransaction, t
<1>7. mem' \in Ledgers
  BY <1>2, <1>3, <1>5, <1>6, TransferType
<1>8. rows' \in Seq(TxRows \union RewardRows)
  <2>1. Len(chain) + 1 \in Nat
    BY <1>2, LenProperties
  <2>2. TxRow(Len(chain) + 1, t, block.miner) \in TxRows \union RewardRows
    BY <1>2, <1>3, <2>1, SMTT(40) DEF TxRows
  <2> QED
    BY <1>6, <2>2 DEF Books
<1>9. TypeOK'
  BY <1>1, <1>3, <1>7 DEF Books, TypeOK
<1>10. Consistent'
  <2> DEFINE z == [k \in 0..(n - 1) |-> s[k + 1]]
  <2>1. ASSUME NEW k \in 1..(n - 1)
        PROVE  /\ z[k - 1] \in Ledgers /\ Valid(z[k - 1], queue'[k])
               /\ z[k] = Transfer(z[k - 1], queue'[k], block.miner)
    <3>1. k + 1 \in 1..n /\ (k + 1) - 1 = k /\ (k - 1) + 1 = k
          /\ k - 1 \in 0..(n - 1) /\ k \in 0..(n - 1)
      BY <1>3
    <3>2. /\ s[k] \in Ledgers /\ Valid(s[k], queue[k + 1])
          /\ s[k + 1] = Transfer(s[k], queue[k + 1], block.miner)
      BY <1>4, <3>1 DEF Applies, n
    <3> QED
      BY <1>3, <3>1, <3>2
  <2>2. z[0] = mem' /\ z[n - 1] = s[n]
    BY <1>3, <1>5, <1>6
  <2> HIDE DEF z
  <2>3. Applies(z, mem', queue', block.miner)
    BY <1>3, <2>1, <2>2 DEF Applies
  <2> QED
    BY <1>1, <1>3, <1>4, <2>2, <2>3 DEF Consistent
<1> QED
  BY <1>5, <1>6, <1>8, <1>9, <1>10 DEF Books, t

LEMMA CreditKeepsBooks ==
  ASSUME Books, CreditReward
  PROVE  Books'
<1>1. /\ phase = "apply" /\ queue = <<>>
      /\ mem' = Reward(mem, block.miner, block.reward)
      /\ rows' = IF block.reward = 0 THEN rows
                 ELSE Append(rows, RewardRow(Len(chain) + 1, block.miner, block.reward))
      /\ chain' = Append(chain, block) /\ phase' = "credited"
      /\ saved' = saved /\ block' = block /\ queue' = queue
      /\ forecast' = forecast /\ exact' = exact /\ reopens' = reopens
  BY DEF CreditReward
<1>2. /\ mem \in Ledgers /\ block \in Blocks /\ block.miner \in Accounts /\ block.reward \in Nat
      /\ chain \in Seq(Blocks)
  BY DEF Books, TypeOK, Blocks
<1>3. forecast = Reward(mem, block.miner, block.reward)
  <2>1. PICK s : /\ Applies(s, mem, queue, block.miner)
                 /\ forecast = Reward(s[Len(queue)], block.miner, block.reward)
    BY <1>1 DEF Books, Consistent
  <2>2. s[Len(queue)] = mem
    BY <1>1, <2>1 DEF Applies
  <2> QED
    BY <2>1, <2>2
<1>4. mem' \in Ledgers
  BY <1>1, <1>2, RewardType
<1>5. rows' \in Seq(TxRows \union RewardRows)
  <2>1. Len(chain) + 1 \in Nat
    BY <1>2, LenProperties
  <2>2. RewardRow(Len(chain) + 1, block.miner, block.reward) \in TxRows \union RewardRows
    BY <1>2, <2>1 DEF RewardRows
  <2> QED
    BY <1>1, <2>2 DEF Books
<1>6. TypeOK'
  BY <1>1, <1>2, <1>4 DEF Books, TypeOK
<1> QED
  BY <1>1, <1>3, <1>5, <1>6 DEF Books, Consistent

\* A reopening rebuilds balances of the right type from any rows.
LEMMA ReopenKeepsTypes ==
  ASSUME Books, NEW c \in Seq(Blocks), Reopen(c)
  PROVE  /\ mem' \in Ledgers /\ chain' \in Seq(Blocks) /\ exact' \in BOOLEAN
         /\ reopens' \in 0..MaxReopens
         /\ rows' = rows /\ mem' = OpenScoped(Len(c)) /\ chain' = c /\ Len(c) \in Nat
<1>1. /\ reopens < MaxReopens /\ reopens' = reopens + 1 /\ chain' = c
      /\ mem' = OpenScoped(Len(c)) /\ exact' = (LiveRows(Len(c)) = RowsOf(c)) /\ rows' = rows
  BY DEF Reopen
<1>2. exact' \in BOOLEAN
  <2> HIDE DEF LiveRows, RowsOf
  <2> QED
    BY <1>1
<1>3. Len(c) \in Nat /\ rows \in Seq(TxRows \union RewardRows) /\ Len(rows) \in 0..Len(rows)
  BY LenProperties DEF Books
<1>4. mem' \in Ledgers
  <2>1. PICK run : Replays(run, Len(c)) /\ OpenScoped(Len(c)) = run[Len(rows)]
    BY <1>3, ReopeningReplays
  <2> QED
    BY <1>1, <1>3, <2>1 DEF Replays
<1>5. reopens' \in 0..MaxReopens
  BY <1>1, BoundAssumption DEF Books, TypeOK
<1> QED
  BY <1>1, <1>2, <1>3, <1>4, <1>5

LEMMA RollBackKeepsBooks ==
  ASSUME Books, NEW f \in 1 .. Len(chain) - 1, RollBack(f)
  PROVE  Books' /\ SubSeq(chain, 1, f) \in Seq(Blocks) /\ Len(SubSeq(chain, 1, f)) = f
<1>1. chain \in Seq(Blocks) /\ Len(chain) \in Nat
  BY LenProperties DEF Books, TypeOK
<1>2. SubSeq(chain, 1, f) \in Seq(Blocks) /\ Len(SubSeq(chain, 1, f)) = f
  BY <1>1
<1>3. /\ phase = "idle" /\ Reopen(SubSeq(chain, 1, f))
      /\ saved' = saved /\ phase' = phase /\ block' = block /\ queue' = queue
      /\ forecast' = forecast
  BY DEF RollBack
<1>4. /\ mem' \in Ledgers /\ chain' \in Seq(Blocks) /\ exact' \in BOOLEAN
      /\ reopens' \in 0..MaxReopens /\ rows' = rows
  BY <1>2, <1>3, ReopenKeepsTypes
<1>5. TypeOK'
  BY <1>3, <1>4 DEF Books, TypeOK
<1> QED
  BY <1>2, <1>3, <1>4, <1>5 DEF Books, Consistent

LEMMA RestartKeepsBooks ==
  ASSUME Books, Restart
  PROVE  Books'
<1>1. /\ Reopen(saved) /\ phase' = "idle" /\ block' = NoBlock /\ queue' = <<>>
      /\ forecast' = Empty /\ saved' = saved
  BY DEF Restart
<1>2. saved \in Seq(Blocks)
  BY DEF Books, TypeOK
<1>3. /\ mem' \in Ledgers /\ chain' \in Seq(Blocks) /\ exact' \in BOOLEAN
      /\ reopens' \in 0..MaxReopens /\ rows' = rows
  BY <1>1, <1>2, ReopenKeepsTypes
<1>4. TypeOK'
  BY <1>1, <1>2, <1>3, NoBlockType, EmptyType DEF TypeOK
<1> QED
  BY <1>1, <1>3, <1>4 DEF Books, Consistent

LEMMA FinishKeepsBooks ==
  ASSUME Books, FinishMined \/ FinishSynced \/ AtBound \/ UNCHANGED vars
  PROVE  Books'
<1>1. CASE FinishMined
  BY <1>1 DEF Books, TypeOK, Consistent, FinishMined
<1>2. CASE FinishSynced
  BY <1>2 DEF Books, TypeOK, Consistent, FinishSynced
<1>3. CASE AtBound \/ UNCHANGED vars
  BY <1>3 DEF Books, TypeOK, Consistent, AtBound, vars
<1> QED
  BY <1>1, <1>2, <1>3

LEMMA BooksInductive == Books /\ [Next]_vars => Books'
<1> SUFFICES ASSUME Books, [Next]_vars PROVE Books'
  OBVIOUS
<1>1. CASE \E txs \in Candidates, m \in Accounts : BuildBlock(txs, m)
  BY <1>1, BuildKeepsBooks
<1>2. CASE ApplyTransaction
  BY <1>2, ApplyKeepsBooks
<1>3. CASE CreditReward
  BY <1>3, CreditKeepsBooks
<1>4. CASE \E f \in 1 .. Len(chain) - 1 : RollBack(f)
  BY <1>4, RollBackKeepsBooks
<1>5. CASE Restart
  BY <1>5, RestartKeepsBooks
<1>6. CASE FinishMined \/ FinishSynced \/ AtBound \/ UNCHANGED vars
  BY <1>6, FinishKeepsBooks
<1> QED
  BY <1>1, <1>2, <1>3, <1>4, <1>5, <1>6 DEF Next

\* Whatever is mined, rolled back and replayed from the rows, no balance, nonce
\* or supply goes below zero: apply_transaction checks what it debits, and
\* open_scoped debits at most what is there.
THEOREM BalancesStayNatural == Spec => []TypeOK
<1>1. Init => Books
  BY EmptyBooks
<1>2. Books /\ [Next]_vars => Books'
  BY BooksInductive
<1>3. Books => TypeOK
  BY DEF Books
<1> QED
  BY <1>1, <1>2, <1>3, PTL DEF Spec

\* A block leaves exactly the state its header's state_root commits to: what
\* simulate_block_execution kept is what apply_transaction accepts.
THEOREM HeaderCommitsToOutcome == Spec => []SimulationAgrees
<1>1. Init => Books
  BY EmptyBooks
<1>2. Books /\ [Next]_vars => Books'
  BY BooksInductive
<1>3. Books => SimulationAgrees
  BY DEF Books, Consistent, SimulationAgrees
<1> QED
  BY <1>1, <1>2, <1>3, PTL DEF Spec

----------------------------------------------------------------------------
(* The supply *)

\* The supply in memory is the schedule's at the tip's height, and the rows hold
\* a reward of every height of the tip's chain and of the saved one, whichever
\* block of that height it was written for.
Supplied ==
  /\ RewardsAreDue
  /\ mem.total = Scheduled(Len(chain))
  /\ Paid(Len(chain)) /\ Paid(Len(saved))
  /\ phase = "apply" => block.reward = Due(Len(chain) + 1)

LEMMA RewardsStay ==
  ASSUME Books, RewardsAreDue, NEW r \in TxRows \union RewardRows, rows' = Append(rows, r),
         r.kind = "reward" => r.height # 0 /\ r.reward = Due(r.height)
  PROVE  RewardsAreDue' /\ \A n \in Nat : Paid(n) => Paid(n)'
<1> DEFINE len == Len(rows)
<1>1. /\ len \in Nat /\ Len(rows') = len + 1 /\ rows'[len + 1] = r
      /\ \A i \in 1..len : rows'[i] = rows[i]
  BY LenProperties DEF Books
<1>2. \A i \in 1..(len + 1) : i \in 1..len \/ i = len + 1
  BY <1>1
<1>3. 1..len \subseteq 1..(len + 1)
  BY <1>1
<1>4. RewardsAreDue'
  BY <1>1, <1>2 DEF RewardsAreDue
<1>5. ASSUME NEW n \in Nat, Paid(n) PROVE Paid(n)'
  BY <1>1, <1>3, <1>5 DEF Paid
<1> QED
  BY <1>4, <1>5

LEMMA EmptySupplied == Init => Supplied
<1> SUFFICES ASSUME Init PROVE Supplied
  OBVIOUS
<1>1. Len(rows) = 0 /\ Len(chain) = 0 /\ Len(saved) = 0 /\ phase = "idle" /\ mem.total = 0
  BY DEF Init, Empty
<1> QED
  BY <1>1, ScheduleSteps DEF Supplied, RewardsAreDue, Paid

LEMMA BuildKeepsSupply ==
  ASSUME Books, Supplied, NEW txs \in Candidates, NEW m \in Accounts, BuildBlock(txs, m)
  PROVE  Supplied'
<1>1. /\ block'.reward = BlockReward(Len(chain) + 1, mem.total)
      /\ mem' = mem /\ rows' = rows /\ chain' = chain /\ saved' = saved
  BY DEF BuildBlock
<1>2. Len(chain) \in Nat
  BY LenProperties DEF Books, TypeOK
<1>3. (Len(chain) + 1) - 1 = Len(chain)
  BY <1>2
<1>4. block'.reward = Due(Len(chain) + 1)
  BY <1>1, <1>3 DEF Supplied, Due
<1> QED
  BY <1>1, <1>4 DEF Supplied, RewardsAreDue, Paid

LEMMA ApplyKeepsSupply ==
  ASSUME Books, Supplied, ApplyTransaction
  PROVE  Supplied'
<1> DEFINE t == Head(queue)
           r == TxRow(Len(chain) + 1, t, block.miner)
<1>1. /\ phase = "apply" /\ queue # <<>> /\ chain' = chain /\ saved' = saved
      /\ phase' = phase /\ block' = block
  BY DEF ApplyTransaction
<1>2. Valid(mem, t) /\ mem' = Transfer(mem, t, block.miner) /\ rows' = Append(rows, r)
  BY ApplyKeepsBooks
<1>3. /\ mem \in Ledgers /\ t \in Txs /\ block.miner \in Accounts
      /\ Len(chain) \in Nat /\ Len(saved) \in Nat
  BY <1>1, LenProperties DEF Books, TypeOK, Blocks
<1>4. r \in TxRows \union RewardRows /\ r.kind # "reward"
  BY <1>3 DEF TxRow, TxRows
<1> HIDE DEF t, r
<1>5. mem'.total = mem.total
  BY <1>2, <1>3, TransferType
<1>6. RewardsAreDue' /\ \A n \in Nat : Paid(n) => Paid(n)'
  BY <1>2, <1>4, RewardsStay DEF Supplied
<1>7. Paid(Len(chain))' /\ Paid(Len(saved))'
  <2>1. PICK n \in Nat : n = Len(chain)
    BY <1>3
  <2>2. PICK k \in Nat : k = Len(saved)
    BY <1>3
  <2>3. Paid(n)' /\ Paid(k)'
    BY <1>6, <2>1, <2>2 DEF Supplied
  <2> QED
    BY <1>1, <2>1, <2>2, <2>3 DEF Paid
<1> QED
  BY <1>1, <1>5, <1>6, <1>7 DEF Supplied

LEMMA CreditKeepsSupply ==
  ASSUME Books, Supplied, CreditReward
  PROVE  Supplied'
<1>1. /\ phase = "apply" /\ mem' = Reward(mem, block.miner, block.reward)
      /\ rows' = IF block.reward = 0 THEN rows
                 ELSE Append(rows, RewardRow(Len(chain) + 1, block.miner, block.reward))
      /\ chain' = Append(chain, block) /\ phase' = "credited" /\ saved' = saved
  BY DEF CreditReward
<1>2. /\ mem \in Ledgers /\ block.miner \in Accounts /\ block.reward \in Nat
      /\ chain \in Seq(Blocks) /\ block \in Blocks /\ rows \in Seq(TxRows \union RewardRows)
  BY DEF Books, TypeOK, Blocks
<1>3. PICK n \in Nat : n = Len(chain)
  BY <1>2, LenProperties
<1>4. PICK k \in Nat : k = Len(saved)
  BY LenProperties DEF Books, TypeOK
<1>5. Len(chain') = n + 1 /\ Len(saved') = k
  BY <1>1, <1>2, <1>3, <1>4
<1>6. block.reward = Due(n + 1)
  BY <1>1, <1>3 DEF Supplied
<1>7. mem'.total = Scheduled(n + 1)
  <2>1. mem'.total = mem.total + block.reward
    BY <1>1, <1>2, RewardType
  <2> QED
    BY <1>3, <1>6, <2>1, ScheduleSteps DEF Supplied
<1>8. RewardsAreDue' /\ Paid(n + 1)' /\ Paid(k)'
  <2>1. CASE block.reward = 0
    <3>1. rows' = rows
      BY <1>1, <2>1
    <3>2. \A h \in 1..(n + 1) : h \in 1..n \/ h = n + 1
      OBVIOUS
    <3> QED
      BY <1>3, <1>4, <1>6, <2>1, <3>1, <3>2 DEF Supplied, RewardsAreDue, Paid
  <2>2. CASE block.reward # 0
    <3> DEFINE r == RewardRow(n + 1, block.miner, block.reward)
    <3>1. rows' = Append(rows, r)
      BY <1>1, <1>3, <2>2
    <3>2. /\ r \in TxRows \union RewardRows /\ r.kind = "reward" /\ r.height = n + 1
          /\ r.height # 0 /\ r.reward = block.reward
      BY <1>2 DEF RewardRow, RewardRows
    <3> HIDE DEF r
    <3>3. RewardsAreDue' /\ Paid(n)' /\ Paid(k)'
      <4>1. RewardsAreDue' /\ \A i \in Nat : Paid(i) => Paid(i)'
        BY <1>6, <3>1, <3>2, RewardsStay DEF Supplied
      <4>2. Paid(n) /\ Paid(k)
        BY <1>3, <1>4 DEF Supplied
      <4> QED
        BY <4>1, <4>2
    <3>4. Len(rows') \in Nat /\ Len(rows') \in 1..Len(rows') /\ rows'[Len(rows')] = r
      BY <1>2, <3>1
    <3>5. \A h \in 1..(n + 1) : h \in 1..n \/ h = n + 1
      OBVIOUS
    <3>6. Paid(n + 1)'
      BY <3>2, <3>3, <3>4, <3>5 DEF Paid
    <3> QED
      BY <3>3, <3>6
  <2> QED
    BY <2>1, <2>2
<1>9. Paid(Len(chain))' /\ Paid(Len(saved))'
  BY <1>5, <1>8 DEF Paid
<1> QED
  BY <1>1, <1>5, <1>7, <1>8, <1>9 DEF Supplied

LEMMA ReopenKeepsSupply ==
  ASSUME Books, Supplied, NEW c \in Seq(Blocks), Paid(Len(c)), Reopen(c),
         saved' = saved, phase' = "idle"
  PROVE  Supplied'
<1>1. rows' = rows /\ mem' = OpenScoped(Len(c)) /\ chain' = c /\ Len(c) \in Nat
  BY ReopenKeepsTypes
<1>2. mem'.total = Scheduled(Len(c))
  BY <1>1, ReopenedSupply DEF Books, Supplied
<1>3. RewardsAreDue' /\ Paid(Len(chain))' /\ Paid(Len(saved))'
  BY <1>1 DEF Supplied, RewardsAreDue, Paid
<1> QED
  BY <1>1, <1>2, <1>3 DEF Supplied

LEMMA SuppliedInductive == Books /\ Supplied /\ [Next]_vars => Supplied'
<1> SUFFICES ASSUME Books, Supplied, [Next]_vars PROVE Supplied'
  OBVIOUS
<1>1. CASE \E txs \in Candidates, m \in Accounts : BuildBlock(txs, m)
  BY <1>1, BuildKeepsSupply
<1>2. CASE ApplyTransaction
  BY <1>2, ApplyKeepsSupply
<1>3. CASE CreditReward
  BY <1>3, CreditKeepsSupply
<1>4. CASE \E f \in 1 .. Len(chain) - 1 : RollBack(f)
  <2>1. PICK f \in 1 .. Len(chain) - 1 : RollBack(f)
    BY <1>4
  <2>2. SubSeq(chain, 1, f) \in Seq(Blocks) /\ Len(SubSeq(chain, 1, f)) = f
    BY <2>1, RollBackKeepsBooks
  <2>3. Reopen(SubSeq(chain, 1, f)) /\ saved' = saved /\ phase' = "idle"
    BY <2>1 DEF RollBack
  <2>4. Paid(f)
    <3>1. Len(chain) \in Nat
      BY LenProperties DEF Books, TypeOK
    <3>2. 1..f \subseteq 1..Len(chain)
      BY <3>1
    <3> QED
      BY <3>2 DEF Supplied, Paid
  <2> QED
    BY <2>2, <2>3, <2>4, ReopenKeepsSupply
<1>5. CASE Restart
  <2>1. Reopen(saved) /\ saved' = saved /\ phase' = "idle"
    BY <1>5 DEF Restart
  <2>2. saved \in Seq(Blocks) /\ Paid(Len(saved))
    BY DEF Books, TypeOK, Supplied
  <2> QED
    BY <2>1, <2>2, ReopenKeepsSupply
<1>6. CASE FinishMined
  <2>1. rows' = rows /\ mem' = mem /\ chain' = chain /\ saved' = chain /\ phase' = "idle"
    BY <1>6 DEF FinishMined
  <2> QED
    BY <2>1 DEF Supplied, RewardsAreDue, Paid
<1>7. CASE FinishSynced
  <2>1. rows' = rows /\ mem' = mem /\ chain' = chain /\ saved' = saved /\ phase' = "idle"
    BY <1>7 DEF FinishSynced
  <2> QED
    BY <2>1 DEF Supplied, RewardsAreDue, Paid
<1>8. CASE AtBound \/ UNCHANGED vars
  <2>1. rows' = rows /\ mem' = mem /\ chain' = chain /\ saved' = saved /\ phase' = phase
        /\ block' = block
    BY <1>8 DEF AtBound, vars
  <2> QED
    BY <2>1 DEF Supplied, RewardsAreDue, Paid
<1> QED
  BY <1>1, <1>2, <1>3, <1>4, <1>5, <1>6, <1>7, <1>8 DEF Next

\* total_mined is what the emission schedule gives at the tip's height, and never
\* more than the hard cap, whatever was mined twice, rolled back, left unsaved by
\* a crash or replayed: latest_reward_index counts one reward of a height.
THEOREM SupplyNeverDrifts == Spec => []SupplyIsScheduled
<1>1. Init => Books /\ Supplied
  BY EmptyBooks, EmptySupplied
<1>2. Books /\ Supplied /\ [Next]_vars => (Books /\ Supplied)'
  BY BooksInductive, SuppliedInductive
<1>3. Books /\ Supplied => SupplyIsScheduled
  <2> SUFFICES ASSUME Books, Supplied PROVE SupplyIsScheduled
    OBVIOUS
  <2>1. Len(chain) \in Nat
    BY LenProperties DEF Books, TypeOK
  <2>2. Scheduled(Len(chain)) \in 0..HardCap /\ HardCap \in Nat
    BY <2>1, ScheduleSteps, BoundAssumption
  <2> QED
    BY <2>2 DEF Supplied, SupplyIsScheduled
<1> QED
  BY <1>1, <1>2, <1>3, PTL DEF Spec

----------------------------------------------------------------------------
(* Nonces *)

Same(t, u) == t.from = u.from /\ t.nonce = u.nonce

\* No two transactions of a chain are of one account and nonce.
Once(c) ==
  \A k, l \in 1..Len(c) : \A p \in 1..Len(c[k].txs), q \in 1..Len(c[l].txs) :
    Same(c[k].txs[p], c[l].txs[q]) => k = l /\ p = q

\* Every transaction of a chain has left a row of its height.
Written(c) ==
  \A k \in 1..Len(c) : \A p \in 1..Len(c[k].txs) :
    \E i \in 1..Len(rows) :
      rows[i].kind = "tx" /\ rows[i].height = k /\ rows[i].tx = c[k].txs[p]

\* Every transaction of a chain is behind its account's nonce.
Behind(c, l) ==
  \A k \in 1..Len(c) : \A p \in 1..Len(c[k].txs) :
    c[k].txs[p].nonce < l.nonce[c[k].txs[p].from]

\* The tip's chain with as much of the current block as has been applied.
With(done) == Append(chain, [block EXCEPT !.txs = done])

Spent ==
  /\ Once(chain) /\ Written(chain) /\ Behind(chain, mem)
  /\ Once(saved) /\ Written(saved)
  /\ phase = "apply" =>
       \E done \in Seq(Txs) : /\ block.txs = done \o queue
                              /\ Once(With(done)) /\ Written(With(done)) /\ Behind(With(done), mem)

LEMMA BlockTxs ==
  ASSUME NEW c \in Seq(Blocks), NEW k \in 1..Len(c)
  PROVE  /\ c[k] \in Blocks /\ c[k].txs \in Seq(Txs) /\ Len(c[k].txs) \in Nat
         /\ \A p \in 1..Len(c[k].txs) :
              /\ c[k].txs[p] \in Txs
              /\ c[k].txs[p].from \in Accounts /\ c[k].txs[p].nonce \in Nat
<1>1. c[k] \in Blocks
  BY ElementOfSeq
<1>2. c[k].txs \in Seq(Txs)
  BY <1>1 DEF Blocks
<1>3. \A p \in 1..Len(c[k].txs) : c[k].txs[p] \in Txs
  BY <1>2, ElementOfSeq
<1> QED
  BY <1>1, <1>2, <1>3, LenProperties, TxType

\* The transactions of a chain in one list.
UsedTxs(c) == FoldLeft(LAMBDA s, b : s \o b.txs, <<>>, c)

LEMMA UsedRuns ==
  ASSUME NEW c \in Seq(Blocks)
  PROVE  \E run : /\ run[0] = <<>>
                  /\ \A k \in 0..Len(c) : run[k] \in Seq(Txs)
                  /\ \A k \in 1..Len(c) : run[k] = run[k - 1] \o c[k].txs
                  /\ UsedTxs(c) = run[Len(c)]
<1> DEFINE n == Len(c)
           S == SUBSET DOMAIN c
           Step(s, b) == s \o b.txs
           Folded(f) == [s \in S |-> IF s = {} THEN <<>> ELSE Step(f[s \ {Max(s)}], c[Max(s)])]
           f0 == CHOOSE f : f = Folded(f)
           op == [p \in Seq(Txs) \X Blocks |-> Step(p[1], p[2])]
<1>1. n \in Nat /\ DOMAIN c = 1..n /\ \A k \in 1..n : c[k] \in Blocks
  BY LenProperties, ElementOfSeq
<1>2. \A s \in Seq(Txs), b \in Blocks : Step(s, b) \in Seq(Txs)
  <2>1. ASSUME NEW s \in Seq(Txs), NEW b \in Blocks PROVE Step(s, b) \in Seq(Txs)
    <3>1. b.txs \in Seq(Txs)
      BY DEF Blocks
    <3> QED
      BY <3>1, ConcatProperties
  <2> QED
    BY <2>1
<1>3. op \in [Seq(Txs) \X Blocks -> Seq(Txs)]
  <2> HIDE DEF Step
  <2> QED
    BY <1>2
<1>4. UsedTxs(c) = f0[DOMAIN c]
  BY DEF UsedTxs, FoldLeft, MapThenFoldSet
<1>5. <<>> \in Seq(Txs)
  OBVIOUS
<1>6. \A s \in S : s # {} => Max(s) \in s
  BY <1>1, LastPosition
<1>7. \E g : g = Folded(g)
  <2>1. PICK g \in [S -> Seq(Txs)] : FoldsOver(g, c, <<>>, op)
    <3> HIDE DEF op
    <3> QED
      BY <1>3, <1>5, FoldExists, Zenon
  <2>2. ASSUME NEW s \in S, s # {}
        PROVE  op[<<g[s \ {Max(s)}], c[Max(s)]>>] = Step(g[s \ {Max(s)}], c[Max(s)])
    <3>1. g[s \ {Max(s)}] \in Seq(Txs) /\ c[Max(s)] \in Blocks
      BY <1>1, <1>6, <2>2
    <3> HIDE DEF Step
    <3> QED
      BY <3>1
  <2> HIDE DEF op, Step
  <2>3. g = Folded(g)
    BY <2>1, <2>2, Zenon DEF FoldsOver
  <2> QED
    BY <2>3, Zenon
<1>8. f0 = Folded(f0)
  BY <1>7, Zenon
<1> HIDE DEF f0, Step, n
<1>9. f0[1..0] = <<>>
  BY <1>8, Stretches
<1>10. \A k \in 1..n : f0[1..k] = Step(f0[1..(k - 1)], c[k])
  <2>1. ASSUME NEW k \in 1..n PROVE f0[1..k] = Step(f0[1..(k - 1)], c[k])
    <3>1. /\ 1..k \in S /\ 1..k # {}
          /\ Max(1..k) = k /\ (1..k) \ {Max(1..k)} = 1..(k - 1)
      BY Stretches DEF n
    <3>2. f0[1..k] = Step(f0[(1..k) \ {Max(1..k)}], c[Max(1..k)])
      BY <1>8, <3>1
    <3> QED
      BY <3>1, <3>2
  <2> QED
    BY <2>1
<1> DEFINE run == [k \in 0..n |-> f0[1..k]]
<1>11. /\ run[0] = <<>>
       /\ \A k \in 1..n : run[k] = Step(run[k - 1], c[k])
       /\ UsedTxs(c) = run[n]
  <2>1. \A k \in 1..n : k \in 0..n /\ k - 1 \in 0..n
    BY <1>1
  <2>2. 0 \in 0..n /\ n \in 0..n
    BY <1>1
  <2> QED
    BY <1>1, <1>4, <1>9, <1>10, <2>1, <2>2
<1> HIDE DEF run
<1>12. \A k \in 0..n : run[k] \in Seq(Txs)
  <2>1. \A k \in 1..n : run[k - 1] \in Seq(Txs) => run[k] \in Seq(Txs)
    BY <1>1, <1>2, <1>11
  <2> QED
    BY <1>1, <1>5, <1>11, <2>1, RunStaysIn
<1> QED
  BY <1>11, <1>12 DEF Step, n

\* Where the element at position i of a concatenation comes from.
LEMMA ConcatSplits ==
  ASSUME NEW s \in Seq(Txs), NEW t \in Seq(Txs), NEW i \in 1..Len(s \o t)
  PROVE  \/ i \in 1..Len(s) /\ (s \o t)[i] = s[i]
         \/ \E p \in 1..Len(t) : i = Len(s) + p /\ (s \o t)[i] = t[p]
<1>1. Len(s) \in Nat /\ Len(t) \in Nat /\ Len(s \o t) = Len(s) + Len(t)
  BY LenProperties, ConcatProperties
<1>2. CASE i \in 1..Len(s)
  BY <1>2, ConcatProperties
<1>3. CASE i \notin 1..Len(s)
  <2>1. i - Len(s) \in 1..Len(t) /\ i = Len(s) + (i - Len(s)) /\ i > Len(s)
    BY <1>1, <1>3
  <2>2. (s \o t)[i] = t[i - Len(s)]
    BY <1>1, <2>1, ConcatProperties
  <2> QED
    BY <2>1, <2>2
<1> QED
  BY <1>2, <1>3

\* What holds for pairs of positions holds for that list.
LEMMA OnceMeansDistinct ==
  ASSUME NEW c \in Seq(Blocks), Once(c)
  PROVE  \A i, j \in 1..Len(UsedTxs(c)) : Same(UsedTxs(c)[i], UsedTxs(c)[j]) => i = j
<1>1. PICK n \in Nat : n = Len(c)
  BY LenProperties
<1>2. PICK run : /\ run[0] = <<>>
                 /\ \A k \in 0..n : run[k] \in Seq(Txs)
                 /\ \A k \in 1..n : run[k] = run[k - 1] \o c[k].txs
                 /\ UsedTxs(c) = run[n]
  BY <1>1, UsedRuns
<1> DEFINE Listed(k) == \A i \in 1..Len(run[k]) :
             \E l \in 1..k : \E p \in 1..Len(c[l].txs) : run[k][i] = c[l].txs[p]
           Distinct(k) == \A i, j \in 1..Len(run[k]) : Same(run[k][i], run[k][j]) => i = j
           G == {k \in 0..n : Listed(k) /\ Distinct(k)}
<1>3. Listed(0) /\ Distinct(0)
  <2>1. Len(run[0]) = 0
    <3>1. Len(<<>>) = 0
      OBVIOUS
    <3> QED
      BY <1>2, <3>1
  <2>2. 1..Len(run[0]) = {}
    BY <2>1
  <2> QED
    BY <2>2
<1>4. ASSUME NEW k \in 1..n, Listed(k - 1), Distinct(k - 1) PROVE Listed(k) /\ Distinct(k)
  <2>1. PICK s \in Seq(Txs) : s = run[k - 1]
    <3>1. k - 1 \in 0..n
      OBVIOUS
    <3> QED
      BY <1>2, <3>1
  <2>2. PICK t \in Seq(Txs) : t = c[k].txs
    BY <1>1, BlockTxs
  <2>3. run[k] = s \o t
    BY <1>2, <2>1, <2>2
  <2>4. \A i \in 1..Len(run[k]) :
          \/ i \in 1..Len(s) /\ run[k][i] = s[i]
          \/ \E p \in 1..Len(t) : i = Len(s) + p /\ run[k][i] = t[p]
    <3>1. ASSUME NEW i \in 1..Len(s \o t)
          PROVE  \/ i \in 1..Len(s) /\ (s \o t)[i] = s[i]
                 \/ \E p \in 1..Len(t) : i = Len(s) + p /\ (s \o t)[i] = t[p]
      BY ConcatSplits
    <3> QED
      BY <2>3, <3>1
  <2>5. \A i \in 1..Len(s) : \E l \in 1..(k - 1) : \E p \in 1..Len(c[l].txs) : s[i] = c[l].txs[p]
    BY <1>4, <2>1
  <2>6. \A i, j \in 1..Len(s) : Same(s[i], s[j]) => i = j
    BY <1>4, <2>1
  <2>7. \A p, q \in 1..Len(t) : Same(t[p], t[q]) => p = q
    BY <1>1, <2>2 DEF Once
  <2>8. \A i \in 1..Len(s), q \in 1..Len(t) : ~Same(s[i], t[q]) /\ ~Same(t[q], s[i])
    <3> SUFFICES ASSUME NEW i \in 1..Len(s), NEW q \in 1..Len(t),
                        Same(s[i], t[q]) \/ Same(t[q], s[i])
                 PROVE  FALSE
      OBVIOUS
    <3>1. PICK l \in 1..(k - 1) : \E p \in 1..Len(c[l].txs) : s[i] = c[l].txs[p]
      BY <2>5
    <3>2. PICK p \in 1..Len(c[l].txs) : s[i] = c[l].txs[p]
      BY <3>1
    <3>3. l \in 1..n /\ l # k
      OBVIOUS
    <3>4. Same(c[l].txs[p], c[k].txs[q])
      BY <2>2, <3>2 DEF Same
    <3> QED
      BY <1>1, <2>2, <3>3, <3>4 DEF Once
  <2>9. Listed(k)
    <3> SUFFICES ASSUME NEW i \in 1..Len(run[k])
                 PROVE  \E l \in 1..k : \E p \in 1..Len(c[l].txs) : run[k][i] = c[l].txs[p]
      OBVIOUS
    <3>1. 1..(k - 1) \subseteq 1..k /\ k \in 1..k
      OBVIOUS
    <3>2. CASE i \in 1..Len(s) /\ run[k][i] = s[i]
      BY <2>5, <3>1, <3>2
    <3>3. CASE \E p \in 1..Len(t) : i = Len(s) + p /\ run[k][i] = t[p]
      BY <2>2, <3>1, <3>3
    <3> QED
      BY <2>4, <3>2, <3>3
  <2>10. Distinct(k)
    <3> SUFFICES ASSUME NEW i \in 1..Len(run[k]), NEW j \in 1..Len(run[k]),
                        Same(run[k][i], run[k][j])
                 PROVE  i = j
      OBVIOUS
    <3> QED
      BY <2>4, <2>6, <2>7, <2>8
  <2> QED
    BY <2>9, <2>10
<1> HIDE DEF Listed, Distinct
<1>5. 0 \in G /\ \A k \in 1..n : k - 1 \in G => k \in G
  <2>1. \A k \in 1..n : k \in 0..n
    OBVIOUS
  <2> QED
    BY <1>3, <1>4, <2>1
<1> HIDE DEF G
<1>6. n \in G
  <2>1. \A k \in 0..n : k \in G
    BY <1>5, StepByStep
  <2> QED
    BY <2>1
<1>7. Distinct(n)
  BY <1>6 DEF G
<1> QED
  BY <1>2, <1>7 DEF Distinct

\* The chain with one more transaction of the current block: the same positions,
\* and one more.
LEMMA WithOneMore ==
  ASSUME Books, NEW done \in Seq(Txs), NEW t \in Txs
  PROVE  LET old == With(done)
             new == With(Append(done, t))
             n == Len(chain) + 1
             e == Len(done) + 1
         IN  /\ old \in Seq(Blocks) /\ new \in Seq(Blocks) /\ Len(old) = n /\ Len(new) = n
             /\ \A k \in 1..n : \A p \in 1..Len(new[k].txs) :
                  \/ p \in 1..Len(old[k].txs) /\ new[k].txs[p] = old[k].txs[p]
                     /\ ~(k = n /\ p = e)
                  \/ k = n /\ p = e /\ new[k].txs[p] = t
<1> DEFINE old == With(done)
           new == With(Append(done, t))
           n == Len(chain) + 1
           e == Len(done) + 1
<1>1. chain \in Seq(Blocks) /\ block \in Blocks /\ Len(chain) \in Nat /\ Len(done) \in Nat
  BY LenProperties DEF Books, TypeOK
<1>2. Append(done, t) \in Seq(Txs) /\ Len(Append(done, t)) = e /\ Append(done, t)[e] = t
      /\ \A p \in 1..Len(done) : Append(done, t)[p] = done[p]
  <2>1. Append(done, t) \in Seq(Txs)
    OBVIOUS
  <2>2. Len(Append(done, t)) = e /\ Append(done, t)[e] = t
        /\ \A p \in 1..Len(done) : Append(done, t)[p] = done[p]
    OBVIOUS
  <2> QED
    BY <2>1, <2>2
<1>3. [block EXCEPT !.txs = done] \in Blocks /\ [block EXCEPT !.txs = Append(done, t)] \in Blocks
  BY <1>1, <1>2 DEF Blocks
<1>4. /\ [block EXCEPT !.txs = done].txs = done
      /\ [block EXCEPT !.txs = Append(done, t)].txs = Append(done, t)
  BY <1>1 DEF Blocks
<1>5. /\ old \in Seq(Blocks) /\ Len(old) = n /\ old[n].txs = done
      /\ new \in Seq(Blocks) /\ Len(new) = n /\ new[n].txs = Append(done, t)
      /\ \A k \in 1..Len(chain) : old[k] = chain[k] /\ new[k] = chain[k]
  <2>1. /\ Append(chain, [block EXCEPT !.txs = done]) \in Seq(Blocks)
        /\ Len(Append(chain, [block EXCEPT !.txs = done])) = n
        /\ Append(chain, [block EXCEPT !.txs = done])[n] = [block EXCEPT !.txs = done]
        /\ \A k \in 1..Len(chain) : Append(chain, [block EXCEPT !.txs = done])[k] = chain[k]
    BY <1>1, <1>3
  <2>2. /\ Append(chain, [block EXCEPT !.txs = Append(done, t)]) \in Seq(Blocks)
        /\ Len(Append(chain, [block EXCEPT !.txs = Append(done, t)])) = n
        /\ Append(chain, [block EXCEPT !.txs = Append(done, t)])[n]
             = [block EXCEPT !.txs = Append(done, t)]
        /\ \A k \in 1..Len(chain) :
             Append(chain, [block EXCEPT !.txs = Append(done, t)])[k] = chain[k]
    BY <1>1, <1>3
  <2> QED
    BY <1>4, <2>1, <2>2 DEF With
<1> HIDE DEF old, new
<1>6. ASSUME NEW k \in 1..n, NEW p \in 1..Len(new[k].txs)
      PROVE  \/ p \in 1..Len(old[k].txs) /\ new[k].txs[p] = old[k].txs[p] /\ ~(k = n /\ p = e)
             \/ k = n /\ p = e /\ new[k].txs[p] = t
  <2>1. CASE k = n
    <3>1. p \in 1..e
      BY <1>2, <1>5, <1>6, <2>1
    <3>2. (p \in 1..Len(done) /\ p # e) \/ p = e
      BY <1>1, <3>1
    <3> QED
      BY <1>2, <1>5, <2>1, <3>2
  <2>2. CASE k # n
    <3>1. k \in 1..Len(chain)
      BY <1>1, <2>2
    <3> QED
      BY <1>5, <1>6, <2>2, <3>1
  <2> QED
    BY <2>1, <2>2
<1> QED
  BY <1>5, <1>6 DEF old, new

LEMMA BehindStays ==
  ASSUME NEW c \in Seq(Blocks), NEW l \in Ledgers, NEW k \in Ledgers, Behind(c, l),
         \A a \in Accounts : k.nonce[a] >= l.nonce[a]
  PROVE  Behind(c, k)
<1> SUFFICES ASSUME NEW b \in 1..Len(c), NEW p \in 1..Len(c[b].txs)
             PROVE  c[b].txs[p].nonce < k.nonce[c[b].txs[p].from]
  BY DEF Behind
<1>1. c[b].txs[p].from \in Accounts /\ c[b].txs[p].nonce \in Nat
  BY BlockTxs
<1>2. l.nonce[c[b].txs[p].from] \in Nat /\ k.nonce[c[b].txs[p].from] \in Nat
  BY <1>1 DEF Ledgers
<1>3. c[b].txs[p].nonce < l.nonce[c[b].txs[p].from]
  BY DEF Behind
<1> QED
  BY <1>1, <1>2, <1>3, SMTT(40)

LEMMA WrittenStays ==
  ASSUME Books, NEW r, rows' = Append(rows, r)
  PROVE  /\ \A c : Written(c) => Written(c)'
         /\ Len(rows') = Len(rows) + 1 /\ rows'[Len(rows) + 1] = r
         /\ \A i \in 1..Len(rows) : i \in 1..Len(rows') /\ rows'[i] = rows[i]
<1>1. Len(rows) \in Nat /\ rows \in Seq(TxRows \union RewardRows)
  BY LenProperties DEF Books
<1>2. /\ Len(rows') = Len(rows) + 1 /\ rows'[Len(rows) + 1] = r
      /\ \A i \in 1..Len(rows) : i \in 1..Len(rows') /\ rows'[i] = rows[i]
  BY <1>1
<1>3. ASSUME NEW c, Written(c) PROVE Written(c)'
  <2> SUFFICES ASSUME NEW k \in 1..Len(c), NEW p \in 1..Len(c[k].txs)
               PROVE  \E i \in 1..Len(rows') :
                        rows'[i].kind = "tx" /\ rows'[i].height = k /\ rows'[i].tx = c[k].txs[p]
    BY DEF Written
  <2>1. PICK i \in 1..Len(rows) :
          rows[i].kind = "tx" /\ rows[i].height = k /\ rows[i].tx = c[k].txs[p]
    BY <1>3 DEF Written
  <2> QED
    BY <1>2, <2>1
<1> QED
  BY <1>2, <1>3

LEMMA EmptySpent == Init => Spent
<1> SUFFICES ASSUME Init PROVE Spent
  OBVIOUS
<1>1. chain = <<>> /\ saved = <<>> /\ phase = "idle"
  BY DEF Init
<1>2. Len(<<>>) = 0 /\ 1..0 = {}
  OBVIOUS
<1> QED
  BY <1>1, <1>2 DEF Spent, Once, Written, Behind

LEMMA BuildKeepsSpent ==
  ASSUME Books, Spent, NEW txs \in Candidates, NEW m \in Accounts, BuildBlock(txs, m)
  PROVE  Spent'
<1> DEFINE result == Simulate(mem, txs, m)
           b == [txs |-> result.applied, miner |-> m, reward |-> BlockReward(Len(chain) + 1, mem.total)]
           none == [b EXCEPT !.txs = <<>>]
<1>1. /\ block' = b /\ queue' = result.applied
      /\ mem' = mem /\ rows' = rows /\ chain' = chain /\ saved' = saved
  BY DEF BuildBlock
<1>2. block' \in Blocks
  BY BuildKeepsBooks DEF Books, TypeOK
<1>3. chain \in Seq(Blocks) /\ Len(chain) \in Nat
  BY LenProperties DEF Books, TypeOK
<1>4. none \in Blocks /\ none.txs = <<>> /\ b.txs = queue' /\ b.txs \in Seq(Txs) /\ Len(<<>>) = 0
  <2>1. b \in Blocks
    BY <1>1, <1>2
  <2>2. <<>> \in Seq(Txs) /\ Len(<<>>) = 0
    OBVIOUS
  <2> QED
    BY <1>1, <2>1, <2>2 DEF Blocks
<1> HIDE DEF none, b
<1> DEFINE c == Append(chain, none)
<1>5. /\ Len(c) = Len(chain) + 1 /\ c[Len(chain) + 1] = none
      /\ \A k \in 1..Len(chain) : c[k] = chain[k]
  BY <1>3, <1>4
<1> HIDE DEF c
<1>6. \A k \in 1..Len(c) : \A p \in 1..Len(c[k].txs) : k \in 1..Len(chain) /\ c[k] = chain[k]
  <2>1. ASSUME NEW k \in 1..Len(c), NEW p \in 1..Len(c[k].txs)
        PROVE  k \in 1..Len(chain) /\ c[k] = chain[k]
    <3>1. k # Len(chain) + 1
      BY <1>4, <1>5, <2>1
    <3> QED
      BY <1>3, <1>5, <3>1
  <2> QED
    BY <2>1
<1>7. Once(c) /\ Written(c) /\ Behind(c, mem)
  <2>1. Once(c)
    BY <1>6, SMTT(40) DEF Spent, Once
  <2>2. Written(c)
    BY <1>6 DEF Spent, Written
  <2>3. Behind(c, mem)
    BY <1>6 DEF Spent, Behind
  <2> QED
    BY <2>1, <2>2, <2>3
<1>8. With(<<>>)' = c
  BY <1>1 DEF With, c, none
<1>9. <<>> \in Seq(Txs) /\ block'.txs = <<>> \o queue'
  BY <1>1, <1>4, ConcatEmptySeq
<1>10. /\ Once(With(<<>>)') /\ Behind(With(<<>>)', mem')
       /\ (Written(With(<<>>)))'
  BY <1>1, <1>7, <1>8 DEF Written
<1>11. Written(chain)' /\ Written(saved)'
  BY <1>1 DEF Spent, Written
<1> QED
  BY <1>1, <1>9, <1>10, <1>11 DEF Spent

LEMMA ApplyKeepsSpent ==
  ASSUME Books, Spent, ApplyTransaction
  PROVE  Spent'
<1>1. /\ phase = "apply" /\ queue # <<>> /\ queue' = Tail(queue)
      /\ chain' = chain /\ saved' = saved /\ phase' = phase /\ block' = block
  BY DEF ApplyTransaction
<1>2. /\ mem \in Ledgers /\ queue \in Seq(Txs) /\ chain \in Seq(Blocks) /\ Len(chain) \in Nat
      /\ saved \in Seq(Blocks) /\ block.miner \in Accounts
  BY LenProperties DEF Books, TypeOK, Blocks
<1>3. PICK t \in Txs : t = Head(queue)
  BY <1>1, <1>2
<1>4. /\ Books' /\ Valid(mem, t) /\ mem' = Transfer(mem, t, block.miner)
      /\ rows' = Append(rows, TxRow(Len(chain) + 1, t, block.miner))
  BY <1>3, ApplyKeepsBooks
<1>5. /\ t.nonce = mem.nonce[t.from] /\ t.from \in Accounts /\ t.nonce \in Nat
      /\ mem' \in Ledgers /\ mem'.nonce = [mem.nonce EXCEPT ![t.from] = t.nonce + 1]
  BY <1>2, <1>4, TxType, TransferType, ZenonT(60) DEF Valid
<1>6. /\ \A a \in Accounts : mem'.nonce[a] >= mem.nonce[a]
      /\ t.nonce < mem'.nonce[t.from]
  BY <1>2, <1>5, SMTT(40) DEF Ledgers
<1>7. PICK done \in Seq(Txs) : /\ block.txs = done \o queue
                               /\ Once(With(done)) /\ Written(With(done)) /\ Behind(With(done), mem)
  BY <1>1 DEF Spent
<1> DEFINE more == Append(done, t)
<1>8. more \in Seq(Txs) /\ block'.txs = more \o queue'
  <2>1. more \in Seq(Txs)
    OBVIOUS
  <2>2. queue' \in Seq(Txs) /\ queue = <<t>> \o queue'
    BY <1>1, <1>2, <1>3
  <2>3. <<t>> \in Seq(Txs) /\ more = done \o <<t>>
    OBVIOUS
  <2> HIDE DEF more
  <2>4. done \o (<<t>> \o queue') = (done \o <<t>>) \o queue'
    BY <2>2, <2>3, ConcatAssociative
  <2> QED
    BY <1>1, <1>7, <2>1, <2>2, <2>3, <2>4
<1>9. /\ \A c : Written(c) => Written(c)'
      /\ \E i \in 1..Len(rows') :
           rows'[i].kind = "tx" /\ rows'[i].height = Len(chain) + 1 /\ rows'[i].tx = t
  <2>1. /\ \A c : Written(c) => Written(c)'
        /\ Len(rows') = Len(rows) + 1
        /\ rows'[Len(rows) + 1] = TxRow(Len(chain) + 1, t, block.miner)
    BY <1>4, WrittenStays
  <2>2. Len(rows) + 1 \in 1..Len(rows')
    BY <2>1, LenProperties DEF Books
  <2> QED
    BY <2>1, <2>2 DEF TxRow
<1> DEFINE n == Len(chain) + 1
           e == Len(done) + 1
<1>10. PICK old, new :
         /\ old = With(done) /\ new = With(more)
         /\ old \in Seq(Blocks) /\ new \in Seq(Blocks) /\ Len(old) = n /\ Len(new) = n
         /\ \A k \in 1..n : \A p \in 1..Len(new[k].txs) :
              \/ p \in 1..Len(old[k].txs) /\ new[k].txs[p] = old[k].txs[p] /\ ~(k = n /\ p = e)
              \/ k = n /\ p = e /\ new[k].txs[p] = t
  BY <1>3, WithOneMore, SMTT(40)
<1>11. Once(old) /\ Written(old) /\ Behind(old, mem) /\ Behind(old, mem')
  <2>1. Once(old) /\ Written(old) /\ Behind(old, mem)
    BY <1>7, <1>10
  <2> QED
    BY <1>2, <1>5, <1>6, <1>10, <2>1, BehindStays
<1> HIDE DEF n, e, more
<1>12. \A k \in 1..n : \A p \in 1..Len(old[k].txs) : ~Same(old[k].txs[p], t) /\ ~Same(t, old[k].txs[p])
  <2> SUFFICES ASSUME NEW k \in 1..n, NEW p \in 1..Len(old[k].txs),
                      Same(old[k].txs[p], t) \/ Same(t, old[k].txs[p])
               PROVE  FALSE
    OBVIOUS
  <2>1. old[k].txs[p].nonce < mem.nonce[old[k].txs[p].from]
    BY <1>10, <1>11 DEF Behind
  <2>2. old[k].txs[p].nonce = t.nonce /\ old[k].txs[p].from = t.from
    BY DEF Same
  <2> QED
    BY <1>5, <2>1, <2>2
<1>13. Once(new)
  <2> SUFFICES ASSUME NEW k \in 1..Len(new), NEW l \in 1..Len(new),
                      NEW p \in 1..Len(new[k].txs), NEW q \in 1..Len(new[l].txs),
                      Same(new[k].txs[p], new[l].txs[q])
               PROVE  k = l /\ p = q
    BY DEF Once
  <2>0. k \in 1..n /\ l \in 1..n
    BY <1>10
  <2>1. \/ p \in 1..Len(old[k].txs) /\ new[k].txs[p] = old[k].txs[p]
        \/ k = n /\ p = e /\ new[k].txs[p] = t
    BY <1>10, <2>0
  <2>2. \/ q \in 1..Len(old[l].txs) /\ new[l].txs[q] = old[l].txs[q]
        \/ l = n /\ q = e /\ new[l].txs[q] = t
    BY <1>10, <2>0
  <2>3. CASE /\ p \in 1..Len(old[k].txs) /\ new[k].txs[p] = old[k].txs[p]
             /\ q \in 1..Len(old[l].txs) /\ new[l].txs[q] = old[l].txs[q]
    BY <1>10, <1>11, <2>0, <2>3, SMTT(40) DEF Once
  <2> QED
    BY <1>12, <2>0, <2>1, <2>2, <2>3
<1>14. Written(new)'
  <2> SUFFICES ASSUME NEW k \in 1..n, NEW p \in 1..Len(new[k].txs)
               PROVE  \E i \in 1..Len(rows') :
                        rows'[i].kind = "tx" /\ rows'[i].height = k /\ rows'[i].tx = new[k].txs[p]
    BY <1>10 DEF Written
  <2>1. CASE p \in 1..Len(old[k].txs) /\ new[k].txs[p] = old[k].txs[p]
    <3>1. Written(old)'
      BY <1>9, <1>11
    <3>2. k \in 1..Len(old)
      BY <1>10
    <3>3. \E i \in 1..Len(rows') :
            rows'[i].kind = "tx" /\ rows'[i].height = k /\ rows'[i].tx = old[k].txs[p]
      BY <2>1, <3>1, <3>2 DEF Written
    <3> QED
      BY <2>1, <3>3
  <2>2. CASE k = n /\ p = e /\ new[k].txs[p] = t
    BY <1>9, <2>2 DEF n
  <2> QED
    BY <1>10, <2>1, <2>2
<1>15. Behind(new, mem')
  <2> SUFFICES ASSUME NEW k \in 1..n, NEW p \in 1..Len(new[k].txs)
               PROVE  new[k].txs[p].nonce < mem'.nonce[new[k].txs[p].from]
    BY <1>10 DEF Behind
  <2>1. CASE p \in 1..Len(old[k].txs) /\ new[k].txs[p] = old[k].txs[p]
    BY <1>10, <1>11, <2>1 DEF Behind
  <2>2. CASE k = n /\ p = e /\ new[k].txs[p] = t
    BY <1>6, <2>2
  <2> QED
    BY <1>10, <2>1, <2>2
<1>16. With(more)' = new
  BY <1>1, <1>10 DEF With, more
<1>17. Once(With(more)') /\ Written(With(more))' /\ Behind(With(more)', mem')
  <2>1. Once(With(more)') /\ Behind(With(more)', mem')
    BY <1>13, <1>15, <1>16
  <2>2. Written(With(more))'
    BY <1>14, <1>16 DEF Written
  <2> QED
    BY <2>1, <2>2
<1>18. Once(chain') /\ Once(saved') /\ Behind(chain', mem')
  BY <1>1, <1>2, <1>5, <1>6, BehindStays DEF Spent
<1>19. Written(chain)' /\ Written(saved)'
  <2>1. PICK c : c = chain
    OBVIOUS
  <2>2. PICK s : s = saved
    OBVIOUS
  <2>3. Written(c) /\ Written(s)
    BY <2>1, <2>2 DEF Spent
  <2>4. Written(c)' /\ Written(s)'
    BY <1>9, <2>3
  <2>5. Written(chain)'
    <3>1. chain' = c /\ Written(c)'
      BY <1>1, <2>1, <2>4
    <3> QED
      BY <3>1 DEF Written
  <2>6. Written(saved)'
    <3>1. saved' = s /\ Written(s)'
      BY <1>1, <2>2, <2>4
    <3> QED
      BY <3>1 DEF Written
  <2> QED
    BY <2>5, <2>6
<1> QED
  BY <1>8, <1>17, <1>18, <1>19 DEF Spent

LEMMA CreditKeepsSpent ==
  ASSUME Books, Spent, CreditReward
  PROVE  Spent'
<1>1. /\ phase = "apply" /\ queue = <<>>
      /\ mem' = Reward(mem, block.miner, block.reward)
      /\ rows' = rows \/ rows' = Append(rows, RewardRow(Len(chain) + 1, block.miner, block.reward))
      /\ chain' = Append(chain, block) /\ phase' = "credited" /\ saved' = saved
  BY DEF CreditReward
<1>2. /\ mem \in Ledgers /\ block \in Blocks /\ block.miner \in Accounts /\ block.reward \in Nat
      /\ block.txs \in Seq(Txs)
  BY DEF Books, TypeOK, Blocks
<1>3. mem' \in Ledgers /\ mem'.nonce = mem.nonce
  BY <1>1, <1>2, RewardType
<1>4. PICK done \in Seq(Txs) : /\ block.txs = done \o queue
                               /\ Once(With(done)) /\ Written(With(done)) /\ Behind(With(done), mem)
  BY <1>1 DEF Spent
<1>5. With(done) = chain'
  <2>1. block.txs = done
    BY <1>1, <1>4, ConcatEmptySeq
  <2>2. [block EXCEPT !.txs = block.txs] = block
    BY <1>2 DEF Blocks
  <2> QED
    BY <1>1, <2>1, <2>2 DEF With
<1>6. Once(chain') /\ Behind(chain', mem') /\ Written(chain')
  <2>1. Behind(chain', mem)
    BY <1>4, <1>5
  <2>2. Behind(chain', mem')
    BY <1>3, <2>1 DEF Behind
  <2>3. Once(chain')
    BY <1>4, <1>5
  <2>4. Written(chain')
    BY <1>4, <1>5 DEF Written
  <2> QED
    BY <2>2, <2>3, <2>4
<1>7. \A c : Written(c) => Written(c)'
  <2>1. CASE rows' = rows
    BY <2>1 DEF Written
  <2>2. CASE rows' = Append(rows, RewardRow(Len(chain) + 1, block.miner, block.reward))
    BY <2>2, WrittenStays
  <2> QED
    BY <1>1, <2>1, <2>2
<1>8. Written(chain)' /\ Written(saved)'
  <2>1. PICK c : c = chain'
    OBVIOUS
  <2>2. PICK s : s = saved
    OBVIOUS
  <2>3. Written(c) /\ Written(s)
    BY <1>6, <2>1, <2>2 DEF Spent
  <2>4. Written(c)' /\ Written(s)'
    BY <1>7, <2>3
  <2>5. Written(chain)'
    <3>1. chain' = c /\ Written(c)'
      BY <2>1, <2>4
    <3> QED
      BY <3>1 DEF Written
  <2>6. Written(saved)'
    <3>1. saved' = s /\ Written(s)'
      BY <1>1, <2>2, <2>4
    <3> QED
      BY <3>1 DEF Written
  <2> QED
    BY <2>5, <2>6
<1> QED
  BY <1>1, <1>6, <1>8 DEF Spent

\* A chain read back from the file is behind the nonces rebuilt from it.
LEMMA ReopenKeepsSpent ==
  ASSUME Books, Spent, NEW c \in Seq(Blocks), Once(c), Written(c), Reopen(c),
         saved' = saved, phase' = "idle"
  PROVE  Spent'
<1>1. rows' = rows /\ mem' = OpenScoped(Len(c)) /\ chain' = c /\ Len(c) \in Nat
  BY ReopenKeepsTypes
<1>2. Behind(c, mem')
  <2> SUFFICES ASSUME NEW k \in 1..Len(c), NEW p \in 1..Len(c[k].txs)
               PROVE  c[k].txs[p].nonce < mem'.nonce[c[k].txs[p].from]
    BY DEF Behind
  <2>1. PICK i \in 1..Len(rows) :
          rows[i].kind = "tx" /\ rows[i].height = k /\ rows[i].tx = c[k].txs[p]
    BY DEF Written
  <2>2. rows[i].height <= Len(c)
    BY <1>1, <2>1
  <2>3. rows[i].tx.nonce < OpenScoped(Len(c)).nonce[rows[i].tx.from]
    BY <1>1, <2>1, <2>2, RowsBehind DEF Books
  <2> QED
    BY <1>1, <2>1, <2>3
<1>3. Written(chain)' /\ Written(saved)'
  BY <1>1 DEF Spent, Written
<1> QED
  BY <1>1, <1>2, <1>3 DEF Spent

LEMMA SpentInductive == Books /\ Spent /\ [Next]_vars => Spent'
<1> SUFFICES ASSUME Books, Spent, [Next]_vars PROVE Spent'
  OBVIOUS
<1>1. CASE \E txs \in Candidates, m \in Accounts : BuildBlock(txs, m)
  BY <1>1, BuildKeepsSpent
<1>2. CASE ApplyTransaction
  BY <1>2, ApplyKeepsSpent
<1>3. CASE CreditReward
  BY <1>3, CreditKeepsSpent
<1>4. CASE \E f \in 1 .. Len(chain) - 1 : RollBack(f)
  <2>1. PICK f \in 1 .. Len(chain) - 1 : RollBack(f)
    BY <1>4
  <2> DEFINE c == SubSeq(chain, 1, f)
  <2>2. c \in Seq(Blocks) /\ Len(c) = f
    BY <2>1, RollBackKeepsBooks
  <2>3. Reopen(c) /\ saved' = saved /\ phase' = "idle"
    BY <2>1 DEF RollBack
  <2>4. \A k \in 1..Len(c) : k \in 1..Len(chain) /\ c[k] = chain[k]
    <3>1. chain \in Seq(Blocks) /\ Len(chain) \in Nat
      BY LenProperties DEF Books, TypeOK
    <3> QED
      BY <2>2, <3>1
  <2> HIDE DEF c
  <2>5. Once(c)
    BY <2>4, SMTT(40) DEF Spent, Once
  <2>6. Written(c)
    <3> SUFFICES ASSUME NEW k \in 1..Len(c), NEW p \in 1..Len(c[k].txs)
                 PROVE  \E i \in 1..Len(rows) :
                          rows[i].kind = "tx" /\ rows[i].height = k /\ rows[i].tx = c[k].txs[p]
      BY DEF Written
    <3>1. k \in 1..Len(chain) /\ c[k] = chain[k] /\ Written(chain)
      BY <2>4 DEF Spent
    <3>2. p \in 1..Len(chain[k].txs)
      BY <3>1
    <3>3. \E i \in 1..Len(rows) :
            rows[i].kind = "tx" /\ rows[i].height = k /\ rows[i].tx = chain[k].txs[p]
      BY <3>1, <3>2 DEF Written
    <3> QED
      BY <3>1, <3>3
  <2> QED
    BY <2>2, <2>3, <2>5, <2>6, ReopenKeepsSpent
<1>5. CASE Restart
  <2>1. Reopen(saved) /\ saved' = saved /\ phase' = "idle"
    BY <1>5 DEF Restart
  <2>2. saved \in Seq(Blocks) /\ Once(saved) /\ Written(saved)
    BY DEF Books, TypeOK, Spent
  <2> QED
    BY <2>1, <2>2, ReopenKeepsSpent
<1>6. CASE FinishMined
  <2>1. rows' = rows /\ mem' = mem /\ chain' = chain /\ saved' = chain /\ phase' = "idle"
    BY <1>6 DEF FinishMined
  <2> QED
    BY <2>1 DEF Spent, Written
<1>7. CASE FinishSynced
  <2>1. rows' = rows /\ mem' = mem /\ chain' = chain /\ saved' = saved /\ phase' = "idle"
    BY <1>7 DEF FinishSynced
  <2> QED
    BY <2>1 DEF Spent, Written
<1>8. CASE AtBound \/ UNCHANGED vars
  <2>1. rows' = rows /\ mem' = mem /\ chain' = chain /\ saved' = saved /\ phase' = phase
        /\ block' = block /\ queue' = queue
    BY <1>8 DEF AtBound, vars
  <2>2. Written(chain)' /\ Written(saved)'
    BY <2>1 DEF Spent, Written
  <2>3. ASSUME NEW done, Written(With(done)) PROVE With(done)' = With(done) /\ Written(With(done))'
    <3>1. With(done)' = With(done)
      BY <2>1 DEF With
    <3>2. PICK c : c = With(done)
      OBVIOUS
    <3>3. Written(c)
      BY <2>3, <3>2
    <3>4. Written(c)'
      BY <2>1, <3>3 DEF Written
    <3> QED
      BY <3>1, <3>2, <3>4, SMTT(40) DEF Written
  <2> QED
    BY <2>1, <2>2, <2>3 DEF Spent
<1> QED
  BY <1>1, <1>2, <1>3, <1>4, <1>5, <1>6, <1>7, <1>8 DEF Next

\* No chain the node holds spends one nonce of an account twice, even when its
\* ledger was rebuilt from rows of other chains: open_scoped lifts every nonce
\* past the rows it reads, and every transaction of the chain is among them.
THEOREM NoncesNeverRepeat == Spec => []NoNonceTwice
<1>1. Init => Books /\ Spent
  BY EmptyBooks, EmptySpent
<1>2. Books /\ Spent /\ [Next]_vars => (Books /\ Spent)'
  BY BooksInductive, SpentInductive
<1>3. Books /\ Spent => NoNonceTwice
  <2> SUFFICES ASSUME Books, Spent PROVE NoNonceTwice
    OBVIOUS
  <2>1. \A i, j \in 1..Len(UsedTxs(chain)) : Same(UsedTxs(chain)[i], UsedTxs(chain)[j]) => i = j
    BY OnceMeansDistinct DEF Books, TypeOK, Spent
  <2> QED
    BY <2>1 DEF NoNonceTwice, UsedTxs, Same
<1> QED
  BY <1>1, <1>2, <1>3, PTL DEF Spec

----------------------------------------------------------------------------
(* Execution *)

First(c, n) == SubSeq(c, 1, n)

LEMMA FirstOfSeq ==
  ASSUME NEW S, NEW c \in Seq(S), NEW n \in 0..Len(c)
  PROVE  /\ First(c, n) \in Seq(S) /\ Len(First(c, n)) = n
         /\ \A i \in 1..n : First(c, n)[i] = c[i]
<1>1. n \in Int /\ \A i \in 1..n : c[i] \in S
  BY LenProperties, ElementOfSeq
<1>2. /\ SubSeq(c, 1, n) \in Seq(S)
      /\ Len(SubSeq(c, 1, n)) = IF 1 <= n THEN n - 1 + 1 ELSE 0
      /\ \A i \in 1..(n - 1 + 1) : SubSeq(c, 1, n)[i] = c[1 + i - 1]
  BY <1>1, SubSeqProperties
<1> QED
  BY <1>1, <1>2 DEF First

\* The first elements of a sequence, one more, all, and the first of the first.
LEMMA FirstSteps ==
  ASSUME NEW S, NEW c \in Seq(S)
  PROVE  /\ First(c, 0) = <<>> /\ First(c, Len(c)) = c
         /\ \A n \in 1..Len(c) : First(c, n) = Append(First(c, n - 1), c[n])
         /\ \A n \in 0..Len(c) : \A k \in 0..n : First(First(c, n), k) = First(c, k)
         /\ \A e \in S : \A k \in 0..Len(c) : First(Append(c, e), k) = First(c, k)
<1>1. Len(c) \in Nat
  BY LenProperties
<1>2. First(c, 0) = <<>> /\ First(c, Len(c)) = c
  BY SubSeqEmpty, SubSeqFull DEF First
<1>3. ASSUME NEW n \in 1..Len(c) PROVE First(c, n) = Append(First(c, n - 1), c[n])
  <2>1. n - 1 \in 0..Len(c) /\ n \in 0..Len(c) /\ c[n] \in S
    BY <1>1, ElementOfSeq
  <2>2. /\ First(c, n) \in Seq(S) /\ Len(First(c, n)) = n
        /\ \A i \in 1..n : First(c, n)[i] = c[i]
    BY <2>1, FirstOfSeq
  <2>3. /\ First(c, n - 1) \in Seq(S) /\ Len(First(c, n - 1)) = n - 1
        /\ \A i \in 1..(n - 1) : First(c, n - 1)[i] = c[i]
    BY <2>1, FirstOfSeq
  <2> DEFINE a == Append(First(c, n - 1), c[n])
  <2>4. /\ a \in Seq(S) /\ Len(a) = (n - 1) + 1
        /\ \A i \in 1..(n - 1) : a[i] = First(c, n - 1)[i]
        /\ a[(n - 1) + 1] = c[n]
    BY <2>1, <2>3, AppendProperties
  <2> HIDE DEF a
  <2>5. Len(a) = n /\ \A i \in 1..n : a[i] = c[i]
    BY <2>3, <2>4
  <2>6. First(c, n) = a
    BY <2>2, <2>4, <2>5, SeqEqual
  <2> QED
    BY <2>6 DEF a
<1>4. ASSUME NEW n \in 0..Len(c), NEW k \in 0..n PROVE First(First(c, n), k) = First(c, k)
  <2>1. /\ First(c, n) \in Seq(S) /\ Len(First(c, n)) = n
        /\ \A i \in 1..n : First(c, n)[i] = c[i]
    BY FirstOfSeq
  <2>2. PICK d \in Seq(S) : d = First(c, n)
    BY <2>1
  <2>3. /\ First(d, k) \in Seq(S) /\ Len(First(d, k)) = k
        /\ \A i \in 1..k : First(d, k)[i] = d[i]
    BY <2>1, <2>2, FirstOfSeq
  <2>4. k \in 0..Len(c)
    BY <1>1
  <2>5. /\ First(c, k) \in Seq(S) /\ Len(First(c, k)) = k
        /\ \A i \in 1..k : First(c, k)[i] = c[i]
    BY <2>4, FirstOfSeq
  <2>6. \A i \in 1..k : First(d, k)[i] = First(c, k)[i]
    BY <2>1, <2>2, <2>3, <2>5
  <2>7. First(d, k) = First(c, k)
    BY <2>3, <2>5, <2>6, SeqEqual
  <2> QED
    BY <2>2, <2>7
<1>5. ASSUME NEW e \in S, NEW k \in 0..Len(c) PROVE First(Append(c, e), k) = First(c, k)
  <2>1. PICK d \in Seq(S) : d = Append(c, e)
    BY AppendProperties
  <2>2. Len(d) = Len(c) + 1 /\ \A i \in 1..Len(c) : d[i] = c[i]
    BY <2>1, AppendProperties
  <2>3. k \in 0..Len(d)
    BY <1>1, <2>2
  <2>4. /\ First(d, k) \in Seq(S) /\ Len(First(d, k)) = k
        /\ \A i \in 1..k : First(d, k)[i] = d[i]
    BY <2>3, FirstOfSeq
  <2>5. /\ First(c, k) \in Seq(S) /\ Len(First(c, k)) = k
        /\ \A i \in 1..k : First(c, k)[i] = c[i]
    BY FirstOfSeq
  <2>6. \A i \in 1..k : First(d, k)[i] = First(c, k)[i]
    BY <1>1, <2>2, <2>4, <2>5
  <2>7. First(d, k) = First(c, k)
    BY <2>4, <2>5, <2>6, SeqEqual
  <2> QED
    BY <2>1, <2>7
<1> QED
  BY <1>2, <1>3, <1>4, <1>5

\* Ledgers that executing any chain may lead to: nothing is checked.
Wide == [balance : [Accounts -> Int], nonce : [Accounts -> Nat], total : Nat]

LEMMA WideSteps ==
  /\ Ledgers \subseteq Wide
  /\ \A l \in Wide, t \in Txs, m \in Accounts : Transfer(l, t, m) \in Wide
  /\ \A l \in Wide, m \in Accounts, r \in Nat : Reward(l, m, r) \in Wide
<1>1. Ledgers \subseteq Wide
  BY DEF Ledgers, Wide
<1>2. ASSUME NEW b \in [Accounts -> Int], NEW a \in Accounts, NEW n \in Int
      PROVE  Add(b, a, n) \in [Accounts -> Int]
  BY DEF Add
<1>3. ASSUME NEW l \in Wide, NEW t \in Txs, NEW m \in Accounts PROVE Transfer(l, t, m) \in Wide
  <2> DEFINE b == Add(Add(Add(l.balance, t.from, -(t.amount + t.fee)), t.to, t.amount), m, t.fee)
             w == [l.nonce EXCEPT ![t.from] = t.nonce + 1]
  <2>1. l.balance \in [Accounts -> Int] /\ l.nonce \in [Accounts -> Nat] /\ l.total \in Nat
    BY DEF Wide
  <2>2. /\ t.from \in Accounts /\ t.to \in Accounts
        /\ t.amount \in Int /\ t.fee \in Int /\ -(t.amount + t.fee) \in Int /\ t.nonce + 1 \in Nat
    BY TxType
  <2>3. b \in [Accounts -> Int]
    BY <1>2, <2>1, <2>2
  <2>4. w \in [Accounts -> Nat]
    BY <2>1, <2>2
  <2>5. Transfer(l, t, m) = [l EXCEPT !.balance = b, !.nonce = w]
    BY DEF Transfer
  <2> HIDE DEF b, w
  <2> QED
    BY <2>3, <2>4, <2>5 DEF Wide
<1>4. ASSUME NEW l \in Wide, NEW m \in Accounts, NEW r \in Nat PROVE Reward(l, m, r) \in Wide
  <2> DEFINE b == Add(l.balance, m, r)
  <2>1. l.balance \in [Accounts -> Int] /\ l.total \in Nat
    BY DEF Wide
  <2>2. b \in [Accounts -> Int] /\ l.total + r \in Nat
    BY <1>2, <2>1
  <2>3. Reward(l, m, r) = [l EXCEPT !.balance = b, !.total = l.total + r]
    BY DEF Reward
  <2> HIDE DEF b
  <2> QED
    BY <2>2, <2>3 DEF Wide
<1> QED
  BY <1>1, <1>3, <1>4

\* A block's transactions, one after another.
TransferAll(l, q, m) == FoldLeft(LAMBDA s, t : Transfer(s, t, m), l, q)

LEMMA TransfersRun ==
  ASSUME NEW l \in Wide, NEW q \in Seq(Txs), NEW m \in Accounts
  PROVE  \E run : /\ run[0] = l
                  /\ \A k \in 0..Len(q) : run[k] \in Wide
                  /\ \A k \in 1..Len(q) : run[k] = Transfer(run[k - 1], q[k], m)
                  /\ TransferAll(l, q, m) = run[Len(q)]
<1> DEFINE S == SUBSET DOMAIN q
           Folded(f) == [s \in S |-> IF s = {} THEN l ELSE Transfer(f[s \ {Max(s)}], q[Max(s)], m)]
           f0 == CHOOSE f : f = Folded(f)
           op == [p \in Wide \X Txs |-> Transfer(p[1], p[2], m)]
<1>1. op \in [Wide \X Txs -> Wide] /\ \A s \in Wide, t \in Txs : op[<<s, t>>] = Transfer(s, t, m)
  BY WideSteps
<1>2. \A s \in S : s # {} => Max(s) \in DOMAIN q /\ q[Max(s)] \in Txs
  <2>1. DOMAIN q = 1..Len(q) /\ Len(q) \in Nat
    BY LenProperties
  <2> QED
    BY <2>1, LastPosition, ElementOfSeq
<1>3. TransferAll(l, q, m) = f0[DOMAIN q]
  BY DEF TransferAll, FoldLeft, MapThenFoldSet
<1> HIDE DEF op
<1>4. f0 = Folded(f0)
  <2>1. PICK g \in [S -> Wide] : FoldsOver(g, q, l, op)
    BY <1>1, FoldExists
  <2>2. \A s \in S : s # {} => op[<<g[s \ {Max(s)}], q[Max(s)]>>] = Transfer(g[s \ {Max(s)}], q[Max(s)], m)
    BY <1>1, <1>2
  <2>3. g = Folded(g)
    BY <2>1, <2>2 DEF FoldsOver
  <2> QED
    BY <2>3, Zenon
<1> HIDE DEF f0
<1>5. TakesLast(f0, q, Wide, l, op)
  <2>1. f0[{}] = l
    BY <1>4
  <2>2. \A s \in SUBSET DOMAIN q :
          s # {} /\ f0[s \ {Max(s)}] \in Wide => f0[s] = op[<<f0[s \ {Max(s)}], q[Max(s)]>>]
    BY <1>1, <1>2, <1>4
  <2> QED
    BY <2>1, <2>2 DEF TakesLast
<1>6. PICK run : GoesThrough(run, q, Wide, l, op) /\ f0[DOMAIN q] = run[Len(q)]
  <2>1. HasRun(f0, q, Wide, l, op)
    BY <1>1, <1>5, FoldRuns
  <2> QED
    BY <2>1 DEF HasRun
<1>7. \A k \in 1..Len(q) : q[k] \in Txs /\ k - 1 \in 0..Len(q)
  BY LenProperties, ElementOfSeq
<1>8. \A k \in 1..Len(q) : run[k] = Transfer(run[k - 1], q[k], m)
  BY <1>1, <1>6, <1>7 DEF GoesThrough
<1> QED
  BY <1>3, <1>6, <1>8 DEF GoesThrough

LEMMA TransfersGoOn ==
  ASSUME NEW l \in Wide, NEW q \in Seq(Txs), NEW m \in Accounts
  PROVE  /\ TransferAll(l, <<>>, m) = l
         /\ TransferAll(l, q, m) \in Wide
         /\ \A t \in Txs : TransferAll(l, Append(q, t), m) = Transfer(TransferAll(l, q, m), t, m)
<1>1. Len(q) \in Nat
  BY LenProperties
<1>2. PICK r : /\ r[0] = l
               /\ \A k \in 0..Len(q) : r[k] \in Wide
               /\ \A k \in 1..Len(q) : r[k] = Transfer(r[k - 1], q[k], m)
               /\ TransferAll(l, q, m) = r[Len(q)]
  BY TransfersRun
<1>3. TransferAll(l, <<>>, m) = l
  <2>1. PICK none \in Seq(Txs) : none = <<>> /\ Len(none) = 0
    BY EmptySeq
  <2>2. PICK e : e[0] = l /\ TransferAll(l, none, m) = e[Len(none)]
    BY TransfersRun
  <2> QED
    BY <2>1, <2>2
<1>4. ASSUME NEW t \in Txs
      PROVE  TransferAll(l, Append(q, t), m) = Transfer(TransferAll(l, q, m), t, m)
  <2>1. PICK d \in Seq(Txs) : d = Append(q, t)
    BY AppendProperties
  <2>2. Len(d) = Len(q) + 1 /\ d[Len(q) + 1] = t /\ \A k \in 1..Len(q) : d[k] = q[k]
    BY <2>1, AppendProperties
  <2>3. PICK z : /\ z[0] = l
                 /\ \A k \in 1..Len(d) : z[k] = Transfer(z[k - 1], d[k], m)
                 /\ TransferAll(l, d, m) = z[Len(d)]
    BY TransfersRun
  <2>4. InStep(r, z, Len(q))
    <3>1. \A k \in 1..Len(q) : k \in 1..Len(d)
      BY <1>1, <2>2
    <3> QED
      BY <1>2, <2>2, <2>3, <3>1 DEF InStep
  <2>5. r[Len(q)] = z[Len(q)]
    BY <1>1, <2>4, InStepAgree
  <2>6. z[Len(q) + 1] = Transfer(z[Len(q)], t, m)
    <3>1. Len(q) + 1 \in 1..Len(d) /\ (Len(q) + 1) - 1 = Len(q)
      BY <1>1, <2>2
    <3> QED
      BY <2>2, <2>3, <3>1
  <2> QED
    BY <1>2, <2>1, <2>2, <2>3, <2>5, <2>6
<1> QED
  BY <1>1, <1>2, <1>3, <1>4

LEMMA ExecuteStep ==
  ASSUME NEW l \in Wide, NEW b \in Blocks
  PROVE  /\ Execute(l, b) = Reward(TransferAll(l, b.txs, b.miner), b.miner, b.reward)
         /\ Execute(l, b) \in Wide
<1>1. b.txs \in Seq(Txs) /\ b.miner \in Accounts /\ b.reward \in Nat
  BY DEF Blocks
<1>2. Execute(l, b) = Reward(TransferAll(l, b.txs, b.miner), b.miner, b.reward)
  BY DEF Execute, TransferAll
<1>3. TransferAll(l, b.txs, b.miner) \in Wide
  BY <1>1, TransfersGoOn
<1> QED
  BY <1>1, <1>2, <1>3, WideSteps

LEMMA ExecutionRuns ==
  ASSUME NEW c \in Seq(Blocks)
  PROVE  \E run : /\ run[0] = Empty
                  /\ \A k \in 0..Len(c) : run[k] \in Wide
                  /\ \A k \in 1..Len(c) : run[k] = Execute(run[k - 1], c[k])
                  /\ ExecuteChain(c) = run[Len(c)]
<1> DEFINE S == SUBSET DOMAIN c
           Folded(f) == [s \in S |-> IF s = {} THEN Empty ELSE Execute(f[s \ {Max(s)}], c[Max(s)])]
           f0 == CHOOSE f : f = Folded(f)
           op == [p \in Wide \X Blocks |-> Execute(p[1], p[2])]
<1>1. /\ op \in [Wide \X Blocks -> Wide]
      /\ \A s \in Wide, b \in Blocks : op[<<s, b>>] = Execute(s, b)
      /\ Empty \in Wide
  BY ExecuteStep, EmptyType, WideSteps
<1>2. \A s \in S : s # {} => Max(s) \in DOMAIN c /\ c[Max(s)] \in Blocks
  <2>1. DOMAIN c = 1..Len(c) /\ Len(c) \in Nat
    BY LenProperties
  <2> QED
    BY <2>1, LastPosition, ElementOfSeq
<1>3. ExecuteChain(c) = f0[DOMAIN c]
  BY DEF ExecuteChain, FoldLeft, MapThenFoldSet
<1> HIDE DEF op
<1>4. f0 = Folded(f0)
  <2>1. PICK g \in [S -> Wide] : FoldsOver(g, c, Empty, op)
    BY <1>1, FoldExists
  <2>2. \A s \in S : s # {} => op[<<g[s \ {Max(s)}], c[Max(s)]>>] = Execute(g[s \ {Max(s)}], c[Max(s)])
    BY <1>1, <1>2
  <2>3. g = Folded(g)
    BY <2>1, <2>2 DEF FoldsOver
  <2> QED
    BY <2>3, Zenon
<1> HIDE DEF f0
<1>5. TakesLast(f0, c, Wide, Empty, op)
  <2>1. f0[{}] = Empty
    BY <1>4
  <2>2. \A s \in SUBSET DOMAIN c :
          s # {} /\ f0[s \ {Max(s)}] \in Wide => f0[s] = op[<<f0[s \ {Max(s)}], c[Max(s)]>>]
    BY <1>1, <1>2, <1>4
  <2> QED
    BY <2>1, <2>2 DEF TakesLast
<1>6. PICK run : GoesThrough(run, c, Wide, Empty, op) /\ f0[DOMAIN c] = run[Len(c)]
  <2>1. HasRun(f0, c, Wide, Empty, op)
    BY <1>1, <1>5, FoldRuns
  <2> QED
    BY <2>1 DEF HasRun
<1>7. \A k \in 1..Len(c) : c[k] \in Blocks /\ k - 1 \in 0..Len(c)
  BY LenProperties, ElementOfSeq
<1>8. \A k \in 1..Len(c) : run[k] = Execute(run[k - 1], c[k])
  BY <1>1, <1>6, <1>7 DEF GoesThrough
<1> QED
  BY <1>3, <1>6, <1>8 DEF GoesThrough

LEMMA ExecutionGoesOn ==
  ASSUME NEW c \in Seq(Blocks)
  PROVE  /\ ExecuteChain(<<>>) = Empty
         /\ ExecuteChain(c) \in Wide
         /\ \A b \in Blocks : ExecuteChain(Append(c, b)) = Execute(ExecuteChain(c), b)
<1>1. Len(c) \in Nat
  BY LenProperties
<1>2. PICK r : /\ r[0] = Empty
               /\ \A k \in 0..Len(c) : r[k] \in Wide
               /\ \A k \in 1..Len(c) : r[k] = Execute(r[k - 1], c[k])
               /\ ExecuteChain(c) = r[Len(c)]
  BY ExecutionRuns
<1>3. ExecuteChain(<<>>) = Empty
  <2>1. PICK none \in Seq(Blocks) : none = <<>> /\ Len(none) = 0
    BY EmptySeq
  <2>2. PICK e : e[0] = Empty /\ ExecuteChain(none) = e[Len(none)]
    BY ExecutionRuns
  <2> QED
    BY <2>1, <2>2
<1>4. ASSUME NEW b \in Blocks PROVE ExecuteChain(Append(c, b)) = Execute(ExecuteChain(c), b)
  <2>1. PICK d \in Seq(Blocks) : d = Append(c, b)
    BY AppendProperties
  <2>2. Len(d) = Len(c) + 1 /\ d[Len(c) + 1] = b /\ \A k \in 1..Len(c) : d[k] = c[k]
    BY <2>1, AppendProperties
  <2>3. PICK z : /\ z[0] = Empty
                 /\ \A k \in 1..Len(d) : z[k] = Execute(z[k - 1], d[k])
                 /\ ExecuteChain(d) = z[Len(d)]
    BY ExecutionRuns
  <2>4. InStep(r, z, Len(c))
    <3>1. \A k \in 1..Len(c) : k \in 1..Len(d)
      BY <1>1, <2>2
    <3> QED
      BY <1>2, <2>2, <2>3, <3>1 DEF InStep
  <2>5. r[Len(c)] = z[Len(c)]
    BY <1>1, <2>4, InStepAgree
  <2>6. z[Len(c) + 1] = Execute(z[Len(c)], b)
    <3>1. Len(c) + 1 \in 1..Len(d) /\ (Len(c) + 1) - 1 = Len(c)
      BY <1>1, <2>2
    <3> QED
      BY <2>2, <2>3, <3>1
  <2> QED
    BY <1>2, <2>1, <2>2, <2>3, <2>5, <2>6
<1> QED
  BY <1>1, <1>2, <1>3, <1>4

----------------------------------------------------------------------------
(* Rows *)

RowSet == TxRows \union RewardRows

\* What open_scoped does with a row that counts.
ReplayRow(l, r) == IF r.kind = "tx" THEN ReplayTx(l, r) ELSE Reward(l, r.miner, r.reward)

LEMMA ReplayRowType ==
  ASSUME NEW l \in Ledgers, NEW r \in RowSet
  PROVE  ReplayRow(l, r) \in Ledgers
<1>1. r.miner \in Accounts /\ r.reward \in Nat /\ (r.kind = "tx" => r \in TxRows)
  BY RowType DEF RowSet
<1>2. r.kind = "tx" => ReplayTx(l, r) \in Ledgers
  BY <1>1, ReplayType
<1>3. Reward(l, r.miner, r.reward) \in Ledgers
  BY <1>1, RewardType
<1> QED
  BY <1>2, <1>3 DEF ReplayRow

ReplayAll(s) == FoldLeft(ReplayRow, Empty, s)

LEMMA ReplaysRun ==
  ASSUME NEW c \in Seq(RowSet)
  PROVE  \E run : /\ run[0] = Empty
                  /\ \A k \in 0..Len(c) : run[k] \in Ledgers
                  /\ \A k \in 1..Len(c) : run[k] = ReplayRow(run[k - 1], c[k])
                  /\ ReplayAll(c) = run[Len(c)]
<1> DEFINE S == SUBSET DOMAIN c
           Folded(f) == [s \in S |-> IF s = {} THEN Empty ELSE ReplayRow(f[s \ {Max(s)}], c[Max(s)])]
           f0 == CHOOSE f : f = Folded(f)
           op == [p \in Ledgers \X RowSet |-> ReplayRow(p[1], p[2])]
<1>1. /\ op \in [Ledgers \X RowSet -> Ledgers]
      /\ \A s \in Ledgers, b \in RowSet : op[<<s, b>>] = ReplayRow(s, b)
      /\ Empty \in Ledgers
  BY ReplayRowType, EmptyType
<1>2. \A s \in S : s # {} => Max(s) \in DOMAIN c /\ c[Max(s)] \in RowSet
  <2>1. DOMAIN c = 1..Len(c) /\ Len(c) \in Nat
    BY LenProperties
  <2> QED
    BY <2>1, LastPosition, ElementOfSeq
<1>3. ReplayAll(c) = f0[DOMAIN c]
  BY DEF ReplayAll, FoldLeft, MapThenFoldSet
<1> HIDE DEF op
<1>4. f0 = Folded(f0)
  <2>1. PICK g \in [S -> Ledgers] : FoldsOver(g, c, Empty, op)
    BY <1>1, FoldExists
  <2>2. \A s \in S : s # {} => op[<<g[s \ {Max(s)}], c[Max(s)]>>] = ReplayRow(g[s \ {Max(s)}], c[Max(s)])
    BY <1>1, <1>2
  <2>3. g = Folded(g)
    BY <2>1, <2>2 DEF FoldsOver
  <2> QED
    BY <2>3, Zenon
<1> HIDE DEF f0
<1>5. TakesLast(f0, c, Ledgers, Empty, op)
  <2>1. f0[{}] = Empty
    BY <1>4
  <2>2. \A s \in SUBSET DOMAIN c :
          s # {} /\ f0[s \ {Max(s)}] \in Ledgers => f0[s] = op[<<f0[s \ {Max(s)}], c[Max(s)]>>]
    BY <1>1, <1>2, <1>4
  <2> QED
    BY <2>1, <2>2 DEF TakesLast
<1>6. PICK run : GoesThrough(run, c, Ledgers, Empty, op) /\ f0[DOMAIN c] = run[Len(c)]
  <2>1. HasRun(f0, c, Ledgers, Empty, op)
    BY <1>1, <1>5, FoldRuns
  <2> QED
    BY <2>1 DEF HasRun
<1>7. \A k \in 1..Len(c) : c[k] \in RowSet /\ k - 1 \in 0..Len(c)
  BY LenProperties, ElementOfSeq
<1>8. \A k \in 1..Len(c) : run[k] = ReplayRow(run[k - 1], c[k])
  BY <1>1, <1>6, <1>7 DEF GoesThrough
<1> QED
  BY <1>3, <1>6, <1>8 DEF GoesThrough

LEMMA ReplayGoesOn ==
  ASSUME NEW c \in Seq(RowSet)
  PROVE  /\ ReplayAll(<<>>) = Empty
         /\ ReplayAll(c) \in Ledgers
         /\ \A b \in RowSet : ReplayAll(Append(c, b)) = ReplayRow(ReplayAll(c), b)
<1>1. Len(c) \in Nat
  BY LenProperties
<1>2. PICK r : /\ r[0] = Empty
               /\ \A k \in 0..Len(c) : r[k] \in Ledgers
               /\ \A k \in 1..Len(c) : r[k] = ReplayRow(r[k - 1], c[k])
               /\ ReplayAll(c) = r[Len(c)]
  BY ReplaysRun
<1>3. ReplayAll(<<>>) = Empty
  <2>1. PICK none \in Seq(RowSet) : none = <<>> /\ Len(none) = 0
    BY EmptySeq
  <2>2. PICK e : e[0] = Empty /\ ReplayAll(none) = e[Len(none)]
    BY ReplaysRun
  <2> QED
    BY <2>1, <2>2
<1>4. ASSUME NEW b \in RowSet PROVE ReplayAll(Append(c, b)) = ReplayRow(ReplayAll(c), b)
  <2>1. PICK d \in Seq(RowSet) : d = Append(c, b)
    BY AppendProperties
  <2>2. Len(d) = Len(c) + 1 /\ d[Len(c) + 1] = b /\ \A k \in 1..Len(c) : d[k] = c[k]
    BY <2>1, AppendProperties
  <2>3. PICK z : /\ z[0] = Empty
                 /\ \A k \in 1..Len(d) : z[k] = ReplayRow(z[k - 1], d[k])
                 /\ ReplayAll(d) = z[Len(d)]
    BY ReplaysRun
  <2>4. InStep(r, z, Len(c))
    <3>1. \A k \in 1..Len(c) : k \in 1..Len(d)
      BY <1>1, <2>2
    <3> QED
      BY <1>2, <2>2, <2>3, <3>1 DEF InStep
  <2>5. r[Len(c)] = z[Len(c)]
    BY <1>1, <2>4, InStepAgree
  <2>6. z[Len(c) + 1] = ReplayRow(z[Len(c)], b)
    <3>1. Len(c) + 1 \in 1..Len(d) /\ (Len(c) + 1) - 1 = Len(c)
      BY <1>1, <2>2
    <3> QED
      BY <2>2, <2>3, <3>1
  <2> QED
    BY <1>2, <2>1, <2>2, <2>3, <2>5, <2>6
<1> QED
  BY <1>1, <1>2, <1>3, <1>4

\* The rows of a block's transactions, and that of its reward.
TxRowsOf(h, b) == [i \in 1..Len(b.txs) |-> TxRow(h, b.txs[i], b.miner)]
RewardRowsOf(h, b) == IF b.reward = 0 THEN <<>> ELSE <<RewardRow(h, b.miner, b.reward)>>

LEMMA BlockRows ==
  ASSUME NEW h \in Nat, NEW b \in Blocks
  PROVE  /\ RowsOfBlock(h, b) = TxRowsOf(h, b) \o RewardRowsOf(h, b)
         /\ TxRowsOf(h, b) \in Seq(RowSet) /\ RewardRowsOf(h, b) \in Seq(RowSet)
         /\ RowsOfBlock(h, b) \in Seq(RowSet)
         /\ \A i \in 1..Len(RowsOfBlock(h, b)) : RowsOfBlock(h, b)[i].height = h
<1>1. b.txs \in Seq(Txs) /\ b.miner \in Accounts /\ b.reward \in Nat /\ Len(b.txs) \in Nat
  BY LenProperties DEF Blocks
<1>2. RowsOfBlock(h, b) = TxRowsOf(h, b) \o RewardRowsOf(h, b)
  BY DEF RowsOfBlock, TxRowsOf, RewardRowsOf
<1>3. /\ TxRowsOf(h, b) \in Seq(RowSet)
      /\ \A i \in 1..Len(TxRowsOf(h, b)) : TxRowsOf(h, b)[i].height = h
  <2> DEFINE n == Len(b.txs)
  <2>1. ASSUME NEW i \in 1..n
        PROVE  TxRow(h, b.txs[i], b.miner) \in RowSet /\ TxRow(h, b.txs[i], b.miner).height = h
    <3>1. PICK t \in Txs : t = b.txs[i]
      BY <1>1, ElementOfSeq
    <3>2. TxRow(h, t, b.miner) \in TxRows
      BY <1>1 DEF TxRows
    <3>3. TxRow(h, t, b.miner).height = h
      BY DEF TxRow
    <3> QED
      BY <3>1, <3>2, <3>3 DEF RowSet
  <2>2. TxRowsOf(h, b) \in [1..n -> RowSet] /\ n \in Nat
    BY <1>1, <2>1 DEF TxRowsOf
  <2>3. TxRowsOf(h, b) \in Seq(RowSet) /\ Len(TxRowsOf(h, b)) = n
    BY <2>2
  <2>4. \A i \in 1..n : TxRowsOf(h, b)[i] = TxRow(h, b.txs[i], b.miner)
    BY DEF TxRowsOf
  <2> QED
    BY <2>1, <2>3, <2>4
<1>4. /\ RewardRowsOf(h, b) \in Seq(RowSet)
      /\ \A i \in 1..Len(RewardRowsOf(h, b)) : RewardRowsOf(h, b)[i].height = h
  <2>1. CASE b.reward = 0
    <3>1. RewardRowsOf(h, b) = <<>>
      BY <2>1 DEF RewardRowsOf
    <3> QED
      BY <3>1, EmptySeq
  <2>2. CASE b.reward # 0
    <3>1. PICK r : r = RewardRow(h, b.miner, b.reward)
      OBVIOUS
    <3>2. r \in RowSet /\ r.height = h
      <4>1. r \in RewardRows
        BY <1>1, <3>1 DEF RewardRows
      <4>2. r.height = h
        BY <3>1 DEF RewardRow
      <4> QED
        BY <4>1, <4>2 DEF RowSet
    <3>3. RewardRowsOf(h, b) = <<r>>
      BY <2>2, <3>1 DEF RewardRowsOf
    <3>4. <<r>> \in Seq(RowSet) /\ Len(<<r>>) = 1 /\ <<r>>[1] = r
      BY <3>2
    <3> QED
      BY <3>2, <3>3, <3>4
  <2> QED
    BY <2>1, <2>2
<1>5. PICK s \in Seq(RowSet), u \in Seq(RowSet) : s = TxRowsOf(h, b) /\ u = RewardRowsOf(h, b)
  BY <1>3, <1>4
<1>6. /\ s \o u \in Seq(RowSet) /\ Len(s \o u) = Len(s) + Len(u)
      /\ Len(s) \in Nat /\ Len(u) \in Nat
      /\ \A i \in 1..Len(s) + Len(u) : (s \o u)[i] = IF i <= Len(s) THEN s[i] ELSE u[i - Len(s)]
  BY ConcatProperties, LenProperties
<1>7. \A i \in 1..Len(s \o u) : (s \o u)[i].height = h
  <2> TAKE i \in 1..Len(s \o u)
  <2>1. CASE i <= Len(s)
    BY <1>3, <1>5, <1>6, <2>1
  <2>2. CASE ~(i <= Len(s))
    <3>1. i - Len(s) \in 1..Len(u)
      BY <1>6, <2>2
    <3> QED
      BY <1>4, <1>5, <1>6, <2>2, <3>1
  <2> QED
    BY <2>1, <2>2
<1> QED
  BY <1>2, <1>3, <1>4, <1>5, <1>6, <1>7

LEMMA RowsRun ==
  ASSUME NEW c \in Seq(Blocks)
  PROVE  \E run : /\ run[0] = <<>>
                  /\ \A k \in 0..Len(c) : run[k] \in Seq(RowSet)
                  /\ \A k \in 1..Len(c) : run[k] = run[k - 1] \o RowsOfBlock(k, c[k])
                  /\ RowsOf(c) = run[Len(c)]
<1> DEFINE n == Len(c)
           seq == [h \in 1..n |-> h]
           V == Seq(RowSet)
           S == SUBSET DOMAIN seq
           Step(s, h) == s \o RowsOfBlock(h, c[h])
           Folded(f) == [s \in S |-> IF s = {} THEN <<>> ELSE Step(f[s \ {Max(s)}], seq[Max(s)])]
           f0 == CHOOSE f : f = Folded(f)
           op == [p \in V \X (1..n) |-> Step(p[1], p[2])]
<1>0. n \in Nat /\ seq \in Seq(1..n) /\ Len(seq) = n /\ DOMAIN seq = 1..n
      /\ \A k \in 1..n : seq[k] = k
  BY LenProperties
<1>1. \A s \in V, h \in 1..n : Step(s, h) \in V
  <2> TAKE s \in V, h \in 1..n
  <2>1. PICK b \in Blocks : b = c[h]
    BY ElementOfSeq
  <2>2. h \in Nat
    BY <1>0
  <2>3. RowsOfBlock(h, b) \in Seq(RowSet)
    BY <2>2, BlockRows
  <2> QED
    BY <2>1, <2>3, ConcatProperties
<1>2. <<>> \in V
  BY EmptySeq
<1>3. RowsOf(c) = f0[DOMAIN seq]
  BY DEF RowsOf, FoldLeft, MapThenFoldSet
<1> HIDE DEF Step, V, n, seq
<1>4. /\ op \in [V \X (1..n) -> V]
      /\ \A s \in V, b \in 1..n : op[<<s, b>>] = Step(s, b)
  BY <1>1
<1> HIDE DEF op
<1>5. \A s \in S : s # {} => Max(s) \in DOMAIN seq /\ seq[Max(s)] \in 1..n
  BY <1>0, LastPosition
<1>6. f0 = Folded(f0)
  <2>1. PICK g \in [S -> V] : FoldsOver(g, seq, <<>>, op)
    BY <1>0, <1>2, <1>4, FoldExists
  <2>2. \A s \in S : s # {} => op[<<g[s \ {Max(s)}], seq[Max(s)]>>] = Step(g[s \ {Max(s)}], seq[Max(s)])
    BY <1>4, <1>5
  <2>3. g = Folded(g)
    BY <2>1, <2>2 DEF FoldsOver
  <2> QED
    BY <2>3, Zenon
<1> HIDE DEF f0
<1>7. TakesLast(f0, seq, V, <<>>, op)
  <2>1. f0[{}] = <<>>
    BY <1>6
  <2>2. \A s \in SUBSET DOMAIN seq :
          s # {} /\ f0[s \ {Max(s)}] \in V => f0[s] = op[<<f0[s \ {Max(s)}], seq[Max(s)]>>]
    BY <1>4, <1>5, <1>6
  <2> QED
    BY <2>1, <2>2 DEF TakesLast
<1>8. PICK run : GoesThrough(run, seq, V, <<>>, op) /\ f0[DOMAIN seq] = run[n]
  <2>1. HasRun(f0, seq, V, <<>>, op)
    BY <1>0, <1>2, <1>4, <1>7, FoldRuns
  <2> QED
    BY <1>0, <2>1 DEF HasRun
<1>9. \A k \in 1..n : run[k] = Step(run[k - 1], k)
  <2> TAKE k \in 1..n
  <2>1. k - 1 \in 0..n /\ seq[k] = k
    BY <1>0
  <2>2. run[k - 1] \in V /\ run[k] = op[<<run[k - 1], seq[k]>>]
    BY <1>0, <1>8, <2>1 DEF GoesThrough
  <2>3. op[<<run[k - 1], k>>] = Step(run[k - 1], k)
    BY <1>4, <2>2
  <2> QED
    BY <2>1, <2>2, <2>3
<1> QED
  BY <1>0, <1>3, <1>8, <1>9 DEF GoesThrough, Step, V, n

LEMMA RowsGoOn ==
  ASSUME NEW c \in Seq(Blocks)
  PROVE  /\ RowsOf(<<>>) = <<>>
         /\ RowsOf(c) \in Seq(RowSet)
         /\ \A b \in Blocks : RowsOf(Append(c, b)) = RowsOf(c) \o RowsOfBlock(Len(c) + 1, b)
<1>1. Len(c) \in Nat
  BY LenProperties
<1>2. PICK r : /\ r[0] = <<>>
               /\ \A k \in 0..Len(c) : r[k] \in Seq(RowSet)
               /\ \A k \in 1..Len(c) : r[k] = r[k - 1] \o RowsOfBlock(k, c[k])
               /\ RowsOf(c) = r[Len(c)]
  BY RowsRun
<1>3. RowsOf(<<>>) = <<>>
  <2>1. PICK none \in Seq(Blocks) : none = <<>> /\ Len(none) = 0
    BY EmptySeq
  <2>2. PICK e : e[0] = <<>> /\ RowsOf(none) = e[Len(none)]
    BY RowsRun
  <2> QED
    BY <2>1, <2>2
<1>4. ASSUME NEW b \in Blocks PROVE RowsOf(Append(c, b)) = RowsOf(c) \o RowsOfBlock(Len(c) + 1, b)
  <2>1. PICK d \in Seq(Blocks) : d = Append(c, b)
    BY AppendProperties
  <2>2. Len(d) = Len(c) + 1 /\ d[Len(c) + 1] = b /\ \A k \in 1..Len(c) : d[k] = c[k]
    BY <2>1, AppendProperties
  <2>3. PICK z : /\ z[0] = <<>>
                 /\ \A k \in 1..Len(d) : z[k] = z[k - 1] \o RowsOfBlock(k, d[k])
                 /\ RowsOf(d) = z[Len(d)]
    BY RowsRun
  <2>4. InStep(r, z, Len(c))
    <3>1. \A k \in 1..Len(c) : k \in 1..Len(d)
      BY <1>1, <2>2
    <3> QED
      BY <1>2, <2>2, <2>3, <3>1 DEF InStep
  <2>5. r[Len(c)] = z[Len(c)]
    BY <1>1, <2>4, InStepAgree
  <2>6. z[Len(c) + 1] = z[Len(c)] \o RowsOfBlock(Len(c) + 1, b)
    <3>1. Len(c) + 1 \in 1..Len(d) /\ (Len(c) + 1) - 1 = Len(c)
      BY <1>1, <2>2
    <3> QED
      BY <2>2, <2>3, <3>1
  <2> QED
    BY <1>2, <2>1, <2>2, <2>3, <2>5, <2>6
<1>5. RowsOf(c) \in Seq(RowSet)
  <2>1. Len(c) \in 0..Len(c)
    BY <1>1
  <2> QED
    BY <1>2, <2>1
<1> QED
  BY <1>3, <1>4, <1>5

\* A row of the file f that counts up to height h, and the list of them.
LatestIn(f, i) == ~\E j \in i+1 .. Len(f) : f[j].kind = "reward" /\ f[j].height = f[i].height
Lives(f, i, h) == f[i].height <= h /\ (f[i].kind = "reward" => LatestIn(f, i))
Live(f, h) ==
  FoldLeft(LAMBDA s, i : IF Lives(f, i, h) THEN Append(s, f[i]) ELSE s, <<>>,
           [i \in 1..Len(f) |-> i])

LEMMA LiveRowsOfFile == \A h : LiveRows(h) = Live(rows, h)
BY DEF LiveRows, Live, Lives, LatestIn, LatestReward

\* The list as it grows from row to row.
LiveRun(run, f, h) ==
  /\ run[0] = <<>>
  /\ \A k \in 0..Len(f) : run[k] \in Seq(RowSet)
  /\ \A k \in 1..Len(f) : run[k] = IF Lives(f, k, h) THEN Append(run[k - 1], f[k]) ELSE run[k - 1]

LEMMA LiveRuns ==
  ASSUME NEW c \in Seq(RowSet), NEW h
  PROVE  \E run : LiveRun(run, c, h) /\ Live(c, h) = run[Len(c)]
<1> DEFINE n == Len(c)
           seq == [i \in 1..n |-> i]
           V == Seq(RowSet)
           S == SUBSET DOMAIN seq
           Step(s, i) == IF Lives(c, i, h) THEN Append(s, c[i]) ELSE s
           Folded(f) == [s \in S |-> IF s = {} THEN <<>> ELSE Step(f[s \ {Max(s)}], seq[Max(s)])]
           f0 == CHOOSE f : f = Folded(f)
           op == [p \in V \X (1..n) |-> Step(p[1], p[2])]
<1>0. n \in Nat /\ seq \in Seq(1..n) /\ Len(seq) = n /\ DOMAIN seq = 1..n
      /\ \A k \in 1..n : seq[k] = k
  BY LenProperties
<1>1. \A s \in V, i \in 1..n : Step(s, i) \in V
  <2> TAKE s \in V, i \in 1..n
  <2>1. PICK b \in RowSet : b = c[i]
    BY ElementOfSeq
  <2>2. Append(s, b) \in V
    BY AppendProperties
  <2> QED
    BY <2>1, <2>2
<1>2. <<>> \in V
  BY EmptySeq
<1>3. Live(c, h) = f0[DOMAIN seq]
  BY DEF Live, FoldLeft, MapThenFoldSet
<1> HIDE DEF Step, V, n, seq
<1>4. /\ op \in [V \X (1..n) -> V]
      /\ \A s \in V, b \in 1..n : op[<<s, b>>] = Step(s, b)
  BY <1>1
<1> HIDE DEF op
<1>5. \A s \in S : s # {} => Max(s) \in DOMAIN seq /\ seq[Max(s)] \in 1..n
  BY <1>0, LastPosition
<1>6. f0 = Folded(f0)
  <2>1. PICK g \in [S -> V] : FoldsOver(g, seq, <<>>, op)
    BY <1>0, <1>2, <1>4, FoldExists
  <2>2. \A s \in S : s # {} => op[<<g[s \ {Max(s)}], seq[Max(s)]>>] = Step(g[s \ {Max(s)}], seq[Max(s)])
    BY <1>4, <1>5
  <2>3. g = Folded(g)
    BY <2>1, <2>2 DEF FoldsOver
  <2> QED
    BY <2>3, Zenon
<1> HIDE DEF f0
<1>7. TakesLast(f0, seq, V, <<>>, op)
  <2>1. f0[{}] = <<>>
    BY <1>6
  <2>2. \A s \in SUBSET DOMAIN seq :
          s # {} /\ f0[s \ {Max(s)}] \in V => f0[s] = op[<<f0[s \ {Max(s)}], seq[Max(s)]>>]
    BY <1>4, <1>5, <1>6
  <2> QED
    BY <2>1, <2>2 DEF TakesLast
<1>8. PICK run : GoesThrough(run, seq, V, <<>>, op) /\ f0[DOMAIN seq] = run[n]
  <2>1. HasRun(f0, seq, V, <<>>, op)
    BY <1>0, <1>2, <1>4, <1>7, FoldRuns
  <2> QED
    BY <1>0, <2>1 DEF HasRun
<1>9. \A k \in 1..n : run[k] = Step(run[k - 1], k)
  <2> TAKE k \in 1..n
  <2>1. k - 1 \in 0..n /\ seq[k] = k
    BY <1>0
  <2>2. run[k - 1] \in V /\ run[k] = op[<<run[k - 1], seq[k]>>]
    BY <1>0, <1>8, <2>1 DEF GoesThrough
  <2>3. op[<<run[k - 1], k>>] = Step(run[k - 1], k)
    BY <1>4, <2>2
  <2> QED
    BY <2>1, <2>2, <2>3
<1> QED
  BY <1>0, <1>3, <1>8, <1>9 DEF GoesThrough, Step, V, n, LiveRun

\* s is how t begins.
Begins(s, t) == Len(s) <= Len(t) /\ \A i \in 1..Len(s) : t[i] = s[i]

\* The rows of a chain's first h blocks come first, and are those of no height
\* above h.
LEMMA RowsInOrder ==
  ASSUME NEW c \in Seq(Blocks), NEW h \in 0..Len(c)
  PROVE  LET g == RowsOf(First(c, h))
             r == RowsOf(c)
         IN  /\ Begins(g, r)
             /\ \A i \in 1..Len(g) : g[i].height <= h
             /\ \A i \in (Len(g) + 1)..Len(r) : r[i].height > h
<1> DEFINE n == Len(c)
           R(k) == RowsOf(First(c, k))
           Low(k) == \A i \in 1..Len(R(k)) : R(k)[i].height <= k
           High(k) == Begins(R(h), R(k)) /\ \A i \in (Len(R(h)) + 1)..Len(R(k)) : R(k)[i].height > h
<1>0. n \in Nat /\ First(c, n) = c /\ First(c, 0) = <<>>
  BY LenProperties, FirstSteps
<1>1. \A k \in 0..n : R(k) \in Seq(RowSet) /\ Len(R(k)) \in Nat
  <2> TAKE k \in 0..n
  <2>1. First(c, k) \in Seq(Blocks)
    BY FirstOfSeq
  <2> QED
    BY <2>1, RowsGoOn, LenProperties
<1>2. ASSUME NEW k \in 1..n
      PROVE  /\ Len(R(k - 1)) <= Len(R(k))
             /\ \A i \in 1..Len(R(k - 1)) : R(k)[i] = R(k - 1)[i]
             /\ \A i \in (Len(R(k - 1)) + 1)..Len(R(k)) : R(k)[i].height = k
  <2>1. PICK b \in Blocks : b = c[k]
    BY ElementOfSeq
  <2>2. k - 1 \in 0..n /\ k \in Nat /\ (k - 1) + 1 = k
    BY <1>0
  <2>3. PICK d \in Seq(Blocks) : d = First(c, k - 1) /\ Len(d) = k - 1
    BY <2>2, FirstOfSeq
  <2>4. First(c, k) = Append(d, b)
    BY <2>1, <2>3, FirstSteps
  <2>5. R(k) = R(k - 1) \o RowsOfBlock(k, b)
    BY <2>2, <2>3, <2>4, RowsGoOn
  <2>6. PICK s \in Seq(RowSet) : s = R(k - 1)
    BY <1>1, <2>2
  <2>7. PICK u \in Seq(RowSet) : u = RowsOfBlock(k, b) /\ \A i \in 1..Len(u) : u[i].height = k
    BY <2>2, BlockRows
  <2>8. /\ Len(s \o u) = Len(s) + Len(u) /\ Len(s) \in Nat /\ Len(u) \in Nat
        /\ \A i \in 1..Len(s) + Len(u) : (s \o u)[i] = IF i <= Len(s) THEN s[i] ELSE u[i - Len(s)]
    BY ConcatProperties, LenProperties
  <2>9. \A i \in 1..Len(s) : (s \o u)[i] = s[i]
    BY <2>8
  <2>10. \A i \in (Len(s) + 1)..Len(s \o u) : (s \o u)[i].height = k
    <3> TAKE i \in (Len(s) + 1)..Len(s \o u)
    <3>1. i - Len(s) \in 1..Len(u) /\ i \in 1..Len(s) + Len(u) /\ ~(i <= Len(s))
      BY <2>8
    <3> QED
      BY <2>7, <2>8, <3>1
  <2>11. R(k) = s \o u
    BY <2>5, <2>6, <2>7
  <2> HIDE DEF R
  <2> QED
    BY <2>6, <2>8, <2>9, <2>10, <2>11
<1>3. Low(h)
  <2> DEFINE G == {k \in 0..n : Low(k)}
  <2>1. R(0) = <<>> /\ Len(<<>>) = 0
    BY <1>0, RowsGoOn, EmptySeq
  <2> HIDE DEF R
  <2>2. 0 \in G
    BY <1>0, <2>1
  <2>3. ASSUME NEW k \in 1..n, k - 1 \in G PROVE k \in G
    <3>1. k - 1 \in 0..n /\ k \in 0..n /\ Low(k - 1)
      BY <1>0, <2>3
    <3>2. Len(R(k - 1)) \in Nat /\ Len(R(k)) \in Nat
      BY <1>1, <3>1
    <3>3. ASSUME NEW i \in 1..Len(R(k)) PROVE R(k)[i].height <= k
      <4>1. CASE i <= Len(R(k - 1))
        <5>1. R(k)[i] = R(k - 1)[i] /\ R(k - 1)[i].height <= k - 1
          BY <1>2, <3>1, <3>2, <4>1
        <5>2. R(k - 1)[i] \in RowSet
          <6>1. i \in 1..Len(R(k - 1)) /\ R(k - 1) \in Seq(RowSet)
            BY <1>1, <3>1, <3>2, <4>1
          <6> QED
            BY <6>1, ElementOfSeq
        <5>3. R(k - 1)[i].height \in Nat
          BY <5>2, RowType DEF RowSet
        <5> QED
          BY <5>1, <5>3
      <4>2. CASE ~(i <= Len(R(k - 1)))
        <5>1. i \in (Len(R(k - 1)) + 1)..Len(R(k))
          BY <3>2, <4>2
        <5>2. R(k)[i].height = k
          BY <1>2, <5>1
        <5> QED
          BY <5>2
      <4> QED
        BY <4>1, <4>2
    <3> QED
      BY <3>1, <3>3
  <2> HIDE DEF G, Low
  <2>4. \A k \in 0..n : k \in G
    BY <1>0, <2>2, <2>3, StepByStep
  <2>5. h \in G
    BY <2>4
  <2> QED
    BY <2>5 DEF G
<1>4. High(n)
  <2> DEFINE G == {k \in 0..n : k < h \/ High(k)}
  <2> HIDE DEF R
  <2>1. High(h)
    <3>1. Len(R(h)) \in Nat
      BY <1>1
    <3> QED
      BY <3>1 DEF Begins
  <2>2. 0 \in G
    <3>1. 0 < h \/ h = 0
      BY <1>0
    <3> QED
      BY <1>0, <2>1, <3>1
  <2>3. ASSUME NEW k \in 1..n, k - 1 \in G PROVE k \in G
    <3>0. k - 1 \in 0..n /\ k \in 0..n
      BY <1>0
    <3>1. CASE k <= h
      <4>1. k < h \/ k = h
        BY <3>1
      <4> QED
        BY <2>1, <3>0, <4>1
    <3>2. CASE k > h
      <4>1. High(k - 1)
        <5>1. ~(k - 1 < h)
          BY <3>2
        <5> QED
          BY <2>3, <5>1
      <4>2. Len(R(k - 1)) \in Nat /\ Len(R(k)) \in Nat /\ Len(R(h)) \in Nat
        BY <1>1, <3>0
      <4>3. Begins(R(h), R(k))
        BY <1>2, <4>1, <4>2 DEF Begins
      <4>4. ASSUME NEW i \in (Len(R(h)) + 1)..Len(R(k)) PROVE R(k)[i].height > h
        <5>1. CASE i <= Len(R(k - 1))
          <6>1. i \in (Len(R(h)) + 1)..Len(R(k - 1)) /\ i \in 1..Len(R(k - 1))
            BY <4>2, <5>1
          <6>2. R(k - 1)[i].height > h /\ R(k)[i] = R(k - 1)[i]
            BY <1>2, <4>1, <6>1
          <6> QED
            BY <6>2
        <5>2. CASE ~(i <= Len(R(k - 1)))
          <6>1. i \in (Len(R(k - 1)) + 1)..Len(R(k))
            BY <4>2, <5>2
          <6>2. R(k)[i].height = k
            BY <1>2, <6>1
          <6> QED
            BY <3>2, <6>2
        <5> QED
          BY <5>1, <5>2
      <4> QED
        BY <3>0, <4>3, <4>4
    <3> QED
      BY <3>1, <3>2
  <2> HIDE DEF G, High
  <2>4. \A k \in 0..n : k \in G
    BY <1>0, <2>2, <2>3, StepByStep
  <2>5. n \in G /\ ~(n < h)
    BY <1>0, <2>4
  <2> QED
    BY <2>5 DEF G
<1> QED
  BY <1>0, <1>3, <1>4

\* The list only grows, by rows that count.
LEMMA LiveGrows ==
  ASSUME NEW f \in Seq(RowSet), NEW h, NEW run, LiveRun(run, f, h),
         NEW i \in 0..Len(f), NEW j \in i..Len(f)
  PROVE  Begins(run[i], run[j])
<1> DEFINE n == Len(f)
           G == {k \in 0..n : k < i \/ Begins(run[i], run[k])}
<1>0. n \in Nat /\ \A k \in 0..n : run[k] \in Seq(RowSet) /\ Len(run[k]) \in Nat
  BY LenProperties DEF LiveRun
<1>1. ASSUME NEW k \in 1..n
      PROVE  Len(run[k - 1]) <= Len(run[k]) /\ \A p \in 1..Len(run[k - 1]) : run[k][p] = run[k - 1][p]
  <2>1. k - 1 \in 0..n /\ f[k] \in RowSet
    BY <1>0, ElementOfSeq
  <2>2. PICK s \in Seq(RowSet), r \in RowSet : s = run[k - 1] /\ r = f[k] /\ Len(s) \in Nat
    BY <1>0, <2>1
  <2>3. run[k] = Append(s, r) \/ run[k] = s
    BY <2>2 DEF LiveRun
  <2>4. Len(Append(s, r)) = Len(s) + 1 /\ \A p \in 1..Len(s) : Append(s, r)[p] = s[p]
    BY AppendProperties
  <2> QED
    BY <2>2, <2>3, <2>4
<1>2. Begins(run[i], run[i])
  BY <1>0 DEF Begins
<1>3. 0 \in G
  <2>1. 0 < i \/ i = 0
    BY <1>0
  <2> QED
    BY <1>0, <1>2, <2>1
<1>4. ASSUME NEW k \in 1..n, k - 1 \in G PROVE k \in G
  <2>0. k - 1 \in 0..n /\ k \in 0..n
    BY <1>0
  <2>1. CASE k <= i
    <3>1. k < i \/ k = i
      BY <2>1
    <3> QED
      BY <1>2, <2>0, <3>1
  <2>2. CASE k > i
    <3>1. Begins(run[i], run[k - 1])
      <4>1. ~(k - 1 < i)
        BY <2>2
      <4> QED
        BY <1>4, <4>1
    <3>2. Len(run[i]) \in Nat /\ Len(run[k - 1]) \in Nat /\ Len(run[k]) \in Nat
      BY <1>0, <2>0
    <3>3. PICK a, b, d : a = run[i] /\ b = run[k - 1] /\ d = run[k]
      OBVIOUS
    <3>4. Begins(a, b)
      BY <3>1, <3>3
    <3>5. Len(b) <= Len(d) /\ \A p \in 1..Len(b) : d[p] = b[p]
      BY <1>1, <3>3
    <3>6. Begins(a, d)
      BY <3>2, <3>3, <3>4, <3>5 DEF Begins
    <3>7. Begins(run[i], run[k])
      BY <3>3, <3>6
    <3> QED
      BY <2>0, <3>7
  <2> QED
    BY <2>1, <2>2
<1>5. j \in 0..n /\ ~(j < i)
  BY <1>0
<1> HIDE DEF G, n
<1>6. \A k \in 0..n : k \in G
  BY <1>0, <1>3, <1>4, StepByStep
<1>7. j \in G
  BY <1>5, <1>6
<1> QED
  BY <1>5, <1>7 DEF G

\* A row that counts is the last of the list when it is read.
LEMMA LiveTakes ==
  ASSUME NEW f \in Seq(RowSet), NEW h, NEW run, LiveRun(run, f, h),
         NEW k \in 1..Len(f), Lives(f, k, h)
  PROVE  /\ run[k - 1] \in Seq(RowSet) /\ Len(run[k - 1]) \in Nat
         /\ run[k] = Append(run[k - 1], f[k])
         /\ Len(run[k]) = Len(run[k - 1]) + 1 /\ run[k][Len(run[k])] = f[k]
<1>1. k - 1 \in 0..Len(f) /\ f[k] \in RowSet
  BY LenProperties, ElementOfSeq
<1>2. run[k - 1] \in Seq(RowSet) /\ run[k] = Append(run[k - 1], f[k])
  BY <1>1 DEF LiveRun
<1>3. PICK s \in Seq(RowSet), r \in RowSet : s = run[k - 1] /\ r = f[k]
  BY <1>1, <1>2
<1>4. Len(s) \in Nat /\ Len(Append(s, r)) = Len(s) + 1 /\ Append(s, r)[Len(s) + 1] = r
  BY AppendProperties, LenProperties
<1> QED
  BY <1>2, <1>3, <1>4

\* Of the reward rows of a height after some row, the last one counts.
LEMMA LaterRewardLives ==
  ASSUME NEW f \in Seq(RowSet), NEW q \in 0..Len(f), NEW n, NEW h,
         h <= n, \E j \in (q + 1)..Len(f) : f[j].kind = "reward" /\ f[j].height = h
  PROVE  \E j \in (q + 1)..Len(f) : f[j].kind = "reward" /\ f[j].height = h /\ Lives(f, j, n)
<1> DEFINE len == Len(f)
           of == {j \in (q + 1)..len : f[j].kind = "reward" /\ f[j].height = h}
           back == {len - j : j \in of}
<1>1. len \in Nat /\ q \in Nat
  BY LenProperties
<1>2. back \in SUBSET Nat /\ back # {}
  BY <1>1
<1>3. PICK d \in back : \A m \in back : m >= d
  BY <1>2, LeastOf
<1>4. PICK j \in of : d = len - j
  BY <1>3
<1>5. ASSUME NEW i \in (j + 1)..len, f[i].kind = "reward", f[i].height = h PROVE FALSE
  <2>1. i \in of
    BY <1>1, <1>4, <1>5
  <2>2. len - i \in back
    BY <2>1
  <2>3. len - i >= len - j
    BY <1>3, <1>4, <2>2
  <2> QED
    BY <1>1, <1>4, <1>5, <2>3
<1>6. LatestIn(f, j)
  BY <1>4, <1>5 DEF LatestIn
<1> QED
  BY <1>4, <1>6 DEF Lives

\* Where the rows that count are those of a chain, they already were when any
\* transaction of a later block left its row: the rows of lower heights are all
\* before it, and none of them was superseded since.
LEMMA RowsWereTheChains ==
  ASSUME NEW f \in Seq(RowSet), NEW c \in Seq(Blocks), Live(f, Len(c)) = RowsOf(c),
         NEW q \in 1..Len(f), f[q].kind = "tx", f[q].height <= Len(c),
         NEW h \in 0..Len(c), h < f[q].height
  PROVE  Live(First(f, q), h) = RowsOf(First(c, h))
<1> DEFINE n == Len(c)
           e == First(f, q)
           g == RowsOf(First(c, h))
           R == RowsOf(c)
           m == Len(g)
<1>0. /\ n \in Nat /\ h \in Nat /\ Len(f) \in Nat /\ q \in 0..Len(f)
      /\ \A i \in 1..Len(f) : /\ f[i] \in RowSet /\ f[i].height \in Nat
                              /\ f[i].kind # "tx" => f[i].kind = "reward"
  BY LenProperties, ElementOfSeq, RowType DEF RowSet
<1>1. e \in Seq(RowSet) /\ Len(e) = q /\ \A i \in 1..q : e[i] = f[i]
  BY <1>0, FirstOfSeq
<1>2. /\ g \in Seq(RowSet) /\ m \in Nat
      /\ Begins(g, R)
      /\ \A i \in 1..m : g[i].height <= h
      /\ \A i \in (m + 1)..Len(R) : R[i].height > h
  <2>1. First(c, h) \in Seq(Blocks)
    BY FirstOfSeq
  <2> QED
    BY <2>1, RowsGoOn, LenProperties, RowsInOrder
<1>3. PICK A : LiveRun(A, f, n) /\ Live(f, n) = A[Len(f)]
  BY LiveRuns
<1>4. PICK B : LiveRun(B, e, h) /\ Live(e, h) = B[q]
  BY <1>1, LiveRuns
<1> HIDE DEF n, e, g, R, m
<1>5. \A i \in 0..Len(f) : A[i] \in Seq(RowSet) /\ Len(A[i]) \in Nat /\ Begins(A[i], R)
  <2> TAKE i \in 0..Len(f)
  <2>1. Len(f) \in i..Len(f)
    BY <1>0
  <2>2. Begins(A[i], A[Len(f)])
    BY <1>3, <2>1, LiveGrows
  <2>3. A[i] \in Seq(RowSet)
    BY <1>3 DEF LiveRun
  <2> QED
    BY <1>3, <2>2, <2>3, LenProperties DEF R, n
\* The place of a row that counts says whether its height is above h.
<1>6. ASSUME NEW i \in 1..Len(f), Lives(f, i, n)
      PROVE  /\ Len(A[i]) = Len(A[i - 1]) + 1 /\ A[i] = Append(A[i - 1], f[i])
             /\ Len(A[i]) <= m <=> f[i].height <= h
  <2>1. /\ Len(A[i]) = Len(A[i - 1]) + 1 /\ A[i] = Append(A[i - 1], f[i])
        /\ A[i][Len(A[i])] = f[i] /\ Len(A[i - 1]) \in Nat
    BY <1>3, <1>6, LiveTakes
  <2>2. i \in 0..Len(f)
    BY <1>0
  <2>3. Len(A[i]) \in 1..Len(R) /\ R[Len(A[i])] = f[i] /\ Len(A[i]) \in Nat
    <3>1. Len(A[i]) \in 1..Len(A[i]) /\ Len(A[i]) <= Len(R)
      BY <1>5, <2>1, <2>2 DEF Begins
    <3>2. R[Len(A[i])] = A[i][Len(A[i])]
      BY <1>5, <2>2, <3>1 DEF Begins
    <3>3. Len(A[i]) \in 1..Len(R)
      <4>1. Len(R) \in Nat
        BY RowsGoOn, LenProperties DEF R
      <4> QED
        BY <3>1, <4>1
    <3> QED
      BY <1>5, <2>1, <2>2, <3>2, <3>3
  <2>4. CASE Len(A[i]) <= m
    <3>1. Len(A[i]) \in 1..m
      BY <1>2, <2>3, <2>4
    <3>2. R[Len(A[i])] = g[Len(A[i])] /\ g[Len(A[i])].height <= h
      BY <1>2, <3>1 DEF Begins, m
    <3> QED
      BY <2>1, <2>3, <2>4, <3>2
  <2>5. CASE ~(Len(A[i]) <= m)
    <3>1. Len(A[i]) \in (m + 1)..Len(R)
      BY <1>2, <2>3, <2>5
    <3>2. R[Len(A[i])].height > h
      BY <1>2, <3>1
    <3>3. f[i].height > h /\ f[i].height \in Nat
      BY <1>0, <2>3, <3>2
    <3>4. ~(f[i].height <= h)
      BY <1>0, <3>3
    <3> QED
      BY <2>1, <2>5, <3>4
  <2> QED
    BY <2>4, <2>5
<1>7. Len(A[q]) > m
  <2>1. Lives(f, q, n)
    BY DEF Lives, n
  <2>2. ~(f[q].height <= h)
    BY <1>0
  <2>3. ~(Len(A[q]) <= m)
    BY <1>6, <2>1, <2>2
  <2> QED
    BY <1>0, <1>2, <1>5, <2>3
\* Up to the row q, what counts for e is what counts for f and is low.
<1>8. ASSUME NEW i \in 1..q PROVE Lives(e, i, h) <=> Lives(f, i, n) /\ f[i].height <= h
  <2>0. i \in 1..Len(f) /\ e[i] = f[i]
    BY <1>0, <1>1
  <2>1. ASSUME Lives(f, i, n), f[i].height <= h PROVE Lives(e, i, h)
    <3>1. \A j \in (i + 1)..q : j \in (i + 1)..Len(f) /\ e[j] = f[j]
      BY <1>0, <1>1
    <3> QED
      BY <1>1, <2>0, <2>1, <3>1 DEF Lives, LatestIn
  <2>2. ASSUME Lives(e, i, h) PROVE Lives(f, i, n) /\ f[i].height <= h
    <3>1. f[i].height <= h /\ f[i].height <= n
      <4>1. h <= n
        BY DEF n
      <4>2. f[i].height <= h
        BY <2>0, <2>2 DEF Lives
      <4> QED
        BY <1>0, <2>0, <4>1, <4>2
    <3>2. SUFFICES ASSUME ~Lives(f, i, n) PROVE FALSE
      BY <3>1
    <3>3. f[i].kind = "reward" /\ ~LatestIn(f, i)
      BY <3>1, <3>2 DEF Lives
    <3>4. PICK j \in (i + 1)..Len(f) : f[j].kind = "reward" /\ f[j].height = f[i].height
      BY <3>3 DEF LatestIn
    <3>5. j \in (q + 1)..Len(f)
      <4>1. SUFFICES ASSUME j <= q PROVE FALSE
        BY <1>0, <3>4
      <4>2. j \in (i + 1)..q /\ j \in 1..q
        BY <1>0, <4>1
      <4>3. LatestIn(e, i)
        BY <2>0, <2>2, <3>3 DEF Lives
      <4> QED
        BY <1>1, <2>0, <3>4, <4>2, <4>3 DEF LatestIn
    <3>6. PICK k \in (q + 1)..Len(f) : f[k].height = f[i].height /\ Lives(f, k, n)
      <4>1. PICK x : x = f[i].height /\ x <= n
        BY <3>1
      <4>2. \E y \in (q + 1)..Len(f) : f[y].kind = "reward" /\ f[y].height = x
        BY <3>4, <3>5, <4>1
      <4>3. q \in 0..Len(f)
        BY <1>0
      <4>4. \E y \in (q + 1)..Len(f) : f[y].kind = "reward" /\ f[y].height = x /\ Lives(f, y, n)
        BY <4>1, <4>2, <4>3, LaterRewardLives
      <4> QED
        BY <4>1, <4>4
    <3>7. k \in 1..Len(f) /\ k - 1 \in q..Len(f) /\ k - 1 \in 0..Len(f)
      BY <1>0
    <3>8. Len(A[k]) = Len(A[k - 1]) + 1 /\ Len(A[k]) <= m
      BY <1>6, <3>1, <3>6, <3>7
    <3>9. Len(A[q]) <= Len(A[k - 1])
      BY <1>0, <1>3, <3>7, LiveGrows DEF Begins
    <3> QED
      BY <1>0, <1>2, <1>5, <1>7, <3>7, <3>8, <3>9
  <2> QED
    BY <2>1, <2>2
<1> DEFINE P(i) == IF Len(A[i]) <= m THEN B[i] = A[i] ELSE B[i] = g
           G == {i \in 0..q : P(i)}
<1>9. 0 \in G
  <2>1. A[0] = <<>> /\ B[0] = <<>> /\ Len(<<>>) = 0
    BY <1>3, <1>4 DEF LiveRun
  <2> QED
    BY <1>0, <1>2, <2>1
<1>10. ASSUME NEW i \in 1..q, i - 1 \in G PROVE i \in G
  <2>0. /\ i \in 1..Len(f) /\ i \in 0..Len(f) /\ i - 1 \in 0..Len(f) /\ i \in 0..q /\ e[i] = f[i]
        /\ P(i - 1)
    BY <1>0, <1>1, <1>10
  <2>1. B[i] = IF Lives(e, i, h) THEN Append(B[i - 1], f[i]) ELSE B[i - 1]
    BY <1>1, <1>4, <2>0 DEF LiveRun
  <2>2. Len(A[i]) \in Nat /\ Len(A[i - 1]) \in Nat
    BY <1>5, <2>0
  <2>3. CASE Lives(f, i, n) /\ f[i].height <= h
    <3>1. Len(A[i]) = Len(A[i - 1]) + 1 /\ A[i] = Append(A[i - 1], f[i]) /\ Len(A[i]) <= m
      BY <1>6, <2>0, <2>3
    <3>2. Len(A[i - 1]) <= m
      BY <1>2, <2>2, <3>1
    <3>3. B[i] = A[i]
      BY <1>8, <2>0, <2>1, <2>3, <3>1, <3>2
    <3> QED
      BY <2>0, <3>1, <3>3
  <2>4. CASE Lives(f, i, n) /\ ~(f[i].height <= h)
    <3>1. Len(A[i]) = Len(A[i - 1]) + 1 /\ ~(Len(A[i]) <= m)
      BY <1>6, <2>0, <2>4
    <3>2. B[i] = B[i - 1]
      BY <1>8, <2>1, <2>4
    <3>3. CASE Len(A[i - 1]) <= m
      <4>1. PICK s \in Seq(RowSet) : s = A[i - 1] /\ Len(s) = m
        BY <1>2, <1>5, <2>0, <2>2, <3>1, <3>3
      <4>2. \A j \in 1..m : s[j] = g[j]
        <5>1. \A j \in 1..m : R[j] = s[j]
          BY <1>5, <2>0, <4>1 DEF Begins
        <5>2. \A j \in 1..m : R[j] = g[j]
          BY <1>2 DEF Begins, m
        <5> QED
          BY <5>1, <5>2
      <4>3. s = g
        BY <1>2, <4>1, <4>2, SeqEqual DEF m
      <4> QED
        BY <2>0, <3>1, <3>2, <3>3, <4>1, <4>3
    <3>4. CASE ~(Len(A[i - 1]) <= m)
      BY <2>0, <3>1, <3>2, <3>4
    <3> QED
      BY <3>3, <3>4
  <2>5. CASE ~Lives(f, i, n)
    <3>1. A[i] = A[i - 1]
      BY <1>3, <2>0, <2>5 DEF LiveRun
    <3>2. B[i] = B[i - 1]
      BY <1>8, <2>1, <2>5
    <3> QED
      BY <2>0, <3>1, <3>2
  <2> QED
    BY <2>3, <2>4, <2>5
<1> HIDE DEF G, P
<1>11. q \in G
  <2>1. q \in Nat /\ q \in 0..q
    BY <1>0
  <2>2. \A i \in 0..q : i \in G
    BY <1>9, <1>10, <2>1, StepByStep
  <2> QED
    BY <2>1, <2>2
<1>12. B[q] = g
  <2>1. ~(Len(A[q]) <= m)
    BY <1>0, <1>2, <1>5, <1>7
  <2> QED
    BY <1>11, <2>1 DEF G, P
<1> QED
  BY <1>4, <1>12 DEF e, g

\* A row of a greater height changes nothing below it.
LEMMA LiveSkips ==
  ASSUME NEW f \in Seq(RowSet), NEW r \in RowSet, NEW h \in Nat, r.height > h
  PROVE  Live(Append(f, r), h) = Live(f, h)
<1>1. PICK d \in Seq(RowSet) : d = Append(f, r)
  BY AppendProperties
<1>2. Len(f) \in Nat /\ Len(d) = Len(f) + 1 /\ d[Len(f) + 1] = r /\ \A k \in 1..Len(f) : d[k] = f[k]
  BY <1>1, AppendProperties, LenProperties
<1>3. PICK a : LiveRun(a, f, h) /\ Live(f, h) = a[Len(f)]
  BY LiveRuns
<1>4. PICK b : LiveRun(b, d, h) /\ Live(d, h) = b[Len(d)]
  BY LiveRuns
<1>5. r.height \in Nat /\ ~(r.height <= h)
  BY RowType DEF RowSet
<1>6. ASSUME NEW k \in 1..Len(f) PROVE Lives(d, k, h) <=> Lives(f, k, h)
  <2>1. d[k] = f[k] /\ \A j \in (k + 1)..Len(f) : d[j] = f[j] /\ j \in (k + 1)..Len(d)
    BY <1>2
  <2>2. \A j \in (k + 1)..Len(d) : j \in (k + 1)..Len(f) \/ d[j] = r
    BY <1>2
  <2>3. CASE f[k].height <= h
    <3>1. r.height # f[k].height
      BY <1>5, <2>3
    <3>2. LatestIn(d, k) <=> LatestIn(f, k)
      BY <2>1, <2>2, <3>1 DEF LatestIn
    <3> QED
      BY <2>1, <3>2 DEF Lives
  <2>4. CASE ~(f[k].height <= h)
    BY <2>1, <2>4 DEF Lives
  <2> QED
    BY <2>3, <2>4
<1>7. InStep(a, b, Len(f))
  <2>1. a[0] = b[0]
    BY <1>3, <1>4 DEF LiveRun
  <2>2. ASSUME NEW k \in 1..Len(f), a[k - 1] = b[k - 1] PROVE a[k] = b[k]
    <3>1. k \in 1..Len(d) /\ d[k] = f[k]
      BY <1>2
    <3>2. b[k] = IF Lives(d, k, h) THEN Append(b[k - 1], d[k]) ELSE b[k - 1]
      BY <1>4, <3>1 DEF LiveRun
    <3>3. a[k] = IF Lives(f, k, h) THEN Append(a[k - 1], f[k]) ELSE a[k - 1]
      BY <1>3 DEF LiveRun
    <3> QED
      BY <1>6, <2>2, <3>1, <3>2, <3>3
  <2> QED
    BY <2>1, <2>2 DEF InStep
<1>8. a[Len(f)] = b[Len(f)]
  BY <1>2, <1>7, InStepAgree
<1>9. b[Len(f) + 1] = b[Len(f)]
  <2>1. Len(f) + 1 \in 1..Len(d) /\ (Len(f) + 1) - 1 = Len(f)
    BY <1>2
  <2>2. ~Lives(d, Len(f) + 1, h)
    BY <1>2, <1>5 DEF Lives
  <2> QED
    BY <1>4, <2>1, <2>2 DEF LiveRun
<1> QED
  BY <1>1, <1>2, <1>3, <1>4, <1>8, <1>9

----------------------------------------------------------------------------
(* Replaying the rows of a chain *)

\* open_scoped replays the rows that count.
LEMMA ReopeningReplaysLive ==
  ASSUME rows \in Seq(RowSet), NEW h \in Nat
  PROVE  OpenScoped(h) = ReplayAll(Live(rows, h))
<1> DEFINE n == Len(rows)
<1>1. PICK run : Replays(run, h) /\ OpenScoped(h) = run[n]
  BY ReopeningReplays DEF RowSet
<1>2. PICK a : LiveRun(a, rows, h) /\ Live(rows, h) = a[n]
  BY LiveRuns
<1>3. n \in Nat
  BY LenProperties
<1> HIDE DEF n
<1> DEFINE z == [k \in 0..n |-> ReplayAll(a[k])]
<1>4. z[0] = Empty /\ z[n] = ReplayAll(a[n])
  <2>1. a[0] = <<>> /\ 0 \in 0..n /\ n \in 0..n
    BY <1>2, <1>3 DEF LiveRun
  <2>2. ReplayAll(<<>>) = Empty
    <3>1. <<>> \in Seq(RowSet)
      BY EmptySeq
    <3> QED
      BY <3>1, ReplayGoesOn
  <2> QED
    BY <2>1, <2>2
<1>5. ASSUME NEW k \in 1..n, run[k - 1] = z[k - 1] PROVE run[k] = z[k]
  <2>1. k - 1 \in 0..n /\ k \in 0..n
    BY <1>3
  <2>2. z[k - 1] = ReplayAll(a[k - 1]) /\ z[k] = ReplayAll(a[k])
    BY <2>1
  <2>3. /\ a[k - 1] \in Seq(RowSet)
        /\ a[k] = IF Lives(rows, k, h) THEN Append(a[k - 1], rows[k]) ELSE a[k - 1]
        /\ run[k] = Replayed(run[k - 1], k, h)
    BY <1>1, <1>2, <2>1 DEF LiveRun, Replays, n
  <2>4. /\ rows[k] \in RowSet /\ rows[k].height \in Nat
        /\ rows[k].kind # "tx" => rows[k].kind = "reward"
    BY ElementOfSeq, RowType DEF RowSet, n
  <2> HIDE DEF z
  <2>5. CASE Lives(rows, k, h)
    <3>1. ReplayAll(a[k]) = ReplayRow(ReplayAll(a[k - 1]), rows[k])
      BY <2>3, <2>4, <2>5, ReplayGoesOn
    <3>2. Replayed(run[k - 1], k, h) = ReplayRow(run[k - 1], rows[k])
      <4>1. ~(rows[k].height > h) /\ (rows[k].kind # "tx" => LatestReward(k))
        BY <2>4, <2>5 DEF Lives, LatestIn, LatestReward
      <4> QED
        BY <4>1 DEF Replayed, ReplayRow
    <3> QED
      BY <1>5, <2>2, <2>3, <3>1, <3>2
  <2>6. CASE ~Lives(rows, k, h)
    <3>1. Replayed(run[k - 1], k, h) = run[k - 1]
      <4>1. rows[k].height > h \/ (rows[k].kind # "tx" /\ ~LatestReward(k))
        BY <2>4, <2>6 DEF Lives, LatestIn, LatestReward
      <4> QED
        BY <4>1 DEF Replayed
    <3> QED
      BY <1>5, <2>2, <2>3, <2>6, <3>1
  <2> QED
    BY <2>5, <2>6
<1> HIDE DEF z
<1>6. InStep(run, z, n)
  BY <1>1, <1>4, <1>5 DEF InStep, Replays
<1>7. run[n] = z[n]
  BY <1>3, <1>6, InStepAgree
<1> QED
  BY <1>1, <1>2, <1>4, <1>7

\* A row is replayed as the transaction was applied, where it was valid.
LEMMA ReplayIsTransfer ==
  ASSUME NEW l \in Ledgers, NEW t \in Txs, NEW m \in Accounts, NEW h \in Nat, Valid(l, t)
  PROVE  ReplayRow(l, TxRow(h, t, m)) = Transfer(l, t, m)
<1> DEFINE r == TxRow(h, t, m)
           x == t.amount + t.fee
<1>1. r.kind = "tx" /\ r.tx = t /\ r.miner = m
  BY DEF TxRow
<1>2. /\ l.balance \in [Accounts -> Nat] /\ l.nonce \in [Accounts -> Nat]
      /\ t.from \in Accounts /\ t.amount \in Nat /\ t.fee \in Nat /\ t.nonce \in Nat
      /\ t.nonce = l.nonce[t.from] /\ l.balance[t.from] >= x /\ l.balance[t.from] \in Nat
  <2>1. l.balance \in [Accounts -> Nat] /\ l.nonce \in [Accounts -> Nat]
    BY DEF Ledgers
  <2>2. t.from \in Accounts /\ t.amount \in Nat /\ t.fee \in Nat /\ t.nonce \in Nat
    BY TxType
  <2> QED
    BY <2>1, <2>2 DEF Valid
<1>3. Debit(l.balance, t.from, x) = Add(l.balance, t.from, -x)
  <2>1. ~(l.balance[t.from] < x) /\ l.balance[t.from] - x = l.balance[t.from] + (-x)
    BY <1>2
  <2> QED
    BY <1>2, <2>1 DEF Debit, Add
<1>4. Larger(l.nonce[t.from], t.nonce + 1) = t.nonce + 1
  BY <1>2 DEF Larger
<1> DEFINE b == Add(Add(Add(l.balance, t.from, -x), t.to, t.amount), m, t.fee)
<1>5. Transfer(l, t, m) = [l EXCEPT !.balance = b, !.nonce = [@ EXCEPT ![t.from] = t.nonce + 1]]
  BY DEF Transfer
<1>6. ReplayTx(l, r) =
        [l EXCEPT !.balance = Add(Add(Debit(l.balance, t.from, x), t.to, t.amount), m, t.fee),
                  !.nonce = [@ EXCEPT ![t.from] = Larger(l.nonce[t.from], t.nonce + 1)]]
  BY <1>1 DEF ReplayTx
<1>7. ReplayTx(l, r) = Transfer(l, t, m)
  <2> HIDE DEF r, x
  <2> QED
    BY <1>3, <1>4, <1>5, <1>6
<1> QED
  BY <1>1, <1>7 DEF ReplayRow

LEMMA ConcatAppends ==
  ASSUME NEW s \in Seq(RowSet), NEW u \in Seq(RowSet), NEW r \in RowSet
  PROVE  s \o Append(u, r) = Append(s \o u, r)
<1>1. PICK e \in Seq(RowSet) : e = <<r>>
  <2>1. <<r>> \in Seq(RowSet)
    OBVIOUS
  <2> QED
    BY <2>1
<1>2. Append(u, r) = u \o e
  BY <1>1, AppendIsConcat
<1>3. PICK v \in Seq(RowSet) : v = s \o u
  BY ConcatProperties
<1>4. Append(v, r) = v \o e
  BY <1>1, AppendIsConcat
<1>5. (s \o u) \o e = s \o (u \o e)
  BY ConcatAssociative
<1> QED
  BY <1>2, <1>3, <1>4, <1>5

LEMMA RowsRegroup ==
  ASSUME NEW s \in Seq(RowSet), NEW x \in Seq(RowSet), NEW y \in Seq(RowSet)
  PROVE  s \o (x \o y) = (s \o x) \o y
BY ConcatAssociative

\* The rows of a block, replayed on a ledger its transactions fit one after
\* another, execute it.
LEMMA BlockReplays ==
  ASSUME NEW l \in Ledgers, NEW s \in Seq(RowSet), ReplayAll(s) = l,
         NEW h \in Nat, NEW b \in Blocks,
         \A p \in 1..Len(b.txs) : Valid(TransferAll(l, First(b.txs, p - 1), b.miner), b.txs[p])
  PROVE  ReplayAll(s \o RowsOfBlock(h, b)) = Execute(l, b)
<1> DEFINE q == b.txs
           m == b.miner
           n == Len(q)
           x == TxRowsOf(h, b)
           y == RewardRowsOf(h, b)
           T(p) == TransferAll(l, First(q, p), m)
           G == {p \in 0..n : T(p) \in Ledgers /\ ReplayAll(s \o First(x, p)) = T(p)}
<1>1. q \in Seq(Txs) /\ m \in Accounts /\ b.reward \in Nat /\ n \in Nat /\ l \in Wide
  BY LenProperties, WideSteps DEF Blocks
<1>2. /\ x \in Seq(RowSet) /\ y \in Seq(RowSet) /\ RowsOfBlock(h, b) = x \o y
      /\ Len(x) = n /\ \A p \in 1..n : x[p] = TxRow(h, q[p], m)
  <2>1. x \in Seq(RowSet) /\ y \in Seq(RowSet) /\ RowsOfBlock(h, b) = x \o y
    BY BlockRows
  <2>2. Len(x) = n /\ \A p \in 1..n : x[p] = TxRow(h, q[p], m)
    BY <1>1 DEF TxRowsOf
  <2> QED
    BY <2>1, <2>2
<1>3. \A p \in 1..n : Valid(T(p - 1), q[p])
  OBVIOUS
<1> HIDE DEF q, m, n, x, y
<1>4. 0 \in G
  <2>1. First(q, 0) = <<>> /\ First(x, 0) = <<>>
    BY <1>1, <1>2, FirstSteps
  <2>2. s \o <<>> = s
    BY ConcatEmptySeq
  <2>3. TransferAll(l, <<>>, m) = l
    BY <1>1, TransfersGoOn
  <2>4. 0 \in 0..n
    BY <1>1
  <2> QED
    BY <2>1, <2>2, <2>3, <2>4
<1>5. ASSUME NEW p \in 1..n, p - 1 \in G PROVE p \in G
  <2>1. p \in 0..n /\ p - 1 \in 0..n /\ T(p - 1) \in Ledgers /\ ReplayAll(s \o First(x, p - 1)) = T(p - 1)
    BY <1>1, <1>5
  <2>2. PICK t \in Txs : t = q[p]
    BY <1>1, ElementOfSeq DEF n
  <2>3. PICK d \in Seq(Txs) : d = First(q, p - 1) /\ First(q, p) = Append(d, t)
    <3>1. First(q, p - 1) \in Seq(Txs)
      BY <1>1, <2>1, FirstOfSeq DEF n
    <3>2. First(q, p) = Append(First(q, p - 1), q[p])
      BY <1>1, FirstSteps DEF n
    <3> QED
      BY <2>2, <3>1, <3>2
  <2>4. PICK u \in Seq(RowSet) : u = First(x, p - 1)
    BY <1>2, <2>1, FirstOfSeq
  <2>5. PICK r \in RowSet : r = x[p]
    BY <1>2, ElementOfSeq
  <2>6. r = TxRow(h, t, m) /\ First(x, p) = Append(u, r)
    BY <1>2, <2>2, <2>4, <2>5, FirstSteps
  <2>7. T(p) = Transfer(T(p - 1), t, m)
    BY <1>1, <2>3, TransfersGoOn
  <2>8. s \o First(x, p) = Append(s \o u, r)
    BY <2>6, ConcatAppends
  <2>9. ReplayAll(s \o First(x, p)) = ReplayRow(T(p - 1), r)
    <3>1. s \o u \in Seq(RowSet)
      BY ConcatProperties
    <3> QED
      BY <2>1, <2>4, <2>8, <3>1, ReplayGoesOn
  <2>10. PICK k \in Ledgers : k = T(p - 1) /\ Valid(k, t)
    BY <1>3, <2>1, <2>2
  <2>11. ReplayRow(k, r) = Transfer(k, t, m) /\ Transfer(k, t, m) \in Ledgers
    <3>1. Transfer(k, t, m) \in Ledgers
      BY <1>1, <2>10, TransferType
    <3>2. ReplayRow(k, TxRow(h, t, m)) = Transfer(k, t, m)
      BY <1>1, <2>10, ReplayIsTransfer
    <3> QED
      BY <2>6, <3>1, <3>2
  <2> HIDE DEF T
  <2> QED
    BY <2>1, <2>7, <2>9, <2>10, <2>11
<1> HIDE DEF G, T
<1>6. n \in G
  <2>1. \A p \in 0..n : p \in G
    BY <1>1, <1>4, <1>5, StepByStep
  <2> QED
    BY <1>1, <2>1
<1>7. PICK k \in Ledgers : k = TransferAll(l, q, m) /\ ReplayAll(s \o x) = k
  <2>1. First(q, n) = q /\ First(x, n) = x
    BY <1>1, <1>2, FirstSteps DEF n
  <2> QED
    BY <1>6, <2>1 DEF G, T
<1>8. Execute(l, b) = Reward(k, m, b.reward)
  BY <1>1, <1>7, ExecuteStep DEF q, m
<1>9. PICK v \in Seq(RowSet) : v = s \o x
  BY <1>2, ConcatProperties
<1>10. s \o RowsOfBlock(h, b) = v \o y
  <2>1. x \in Seq(RowSet) /\ y \in Seq(RowSet) /\ RowsOfBlock(h, b) = x \o y
    BY <1>2
  <2>2. s \o (x \o y) = (s \o x) \o y
    BY <2>1, RowsRegroup, Zenon
  <2> QED
    BY <1>9, <2>1, <2>2, Zenon
<1>11. ReplayAll(v \o y) = Reward(k, m, b.reward)
  <2>1. CASE b.reward = 0
    <3>1. y = <<>>
      BY <2>1 DEF y, RewardRowsOf
    <3>2. v \o y = v
      BY <3>1, ConcatEmptySeq
    <3>3. Reward(k, m, 0) = k
      <4>1. k.balance \in [Accounts -> Nat] /\ k.total \in Nat
        BY DEF Ledgers
      <4>2. PICK w \in [Accounts -> Nat] : w = k.balance
        BY <4>1
      <4>3. w[m] + 0 = w[m] /\ k.total + 0 = k.total
        BY <1>1, <4>1
      <4>4. [w EXCEPT ![m] = w[m]] = w
        OBVIOUS
      <4>5. Add(w, m, 0) = w
        BY <4>3, <4>4 DEF Add
      <4>6. Reward(k, m, 0) = [k EXCEPT !.balance = k.balance, !.total = k.total]
        BY <4>2, <4>3, <4>5 DEF Reward
      <4> QED
        BY <4>6 DEF Ledgers
    <3> QED
      BY <1>7, <1>9, <2>1, <3>2, <3>3
  <2>2. CASE b.reward # 0
    <3>1. PICK r : r = RewardRow(h, m, b.reward)
      OBVIOUS
    <3>2. r \in RowSet /\ r.kind # "tx" /\ r.miner = m /\ r.reward = b.reward
      <4>1. r \in RewardRows
        BY <1>1, <3>1 DEF RewardRows
      <4>2. r.kind # "tx" /\ r.miner = m /\ r.reward = b.reward
        BY <3>1 DEF RewardRow
      <4> QED
        BY <4>1, <4>2 DEF RowSet
    <3>3. y = <<r>>
      BY <2>2, <3>1 DEF y, RewardRowsOf, m
    <3>4. v \o y = Append(v, r)
      BY <3>2, <3>3, AppendIsConcat
    <3>5. ReplayAll(v \o y) = ReplayRow(k, r)
      BY <1>7, <1>9, <3>2, <3>4, ReplayGoesOn
    <3> QED
      BY <3>2, <3>5 DEF ReplayRow
  <2> QED
    BY <2>1, <2>2
<1> QED
  BY <1>8, <1>10, <1>11

----------------------------------------------------------------------------
(* What justifies a transaction of a chain *)

\* The transaction t of miner m's block on the chain b, after the transactions q,
\* is one that executing b and q leaves valid.
Fits(b, m, q, t) == Valid(TransferAll(ExecuteChain(b), q, m), t)

\* Some height the file f and the chain b do not agree on.
Strange(f, b) == \E h \in 0..Len(b) : Live(f, h) # RowsOf(First(b, h))

\* t left its row while the rows were not those of the chain below it.
Misled(f, b, m, t) ==
  \E q \in 1..Len(f) : f[q] = TxRow(Len(b) + 1, t, m) /\ Strange(First(f, q), b)

Justified(f, b, m, q, t) == Fits(b, m, q, t) \/ Misled(f, b, m, t)

\* The transactions txs of a block on the chain b, and those of a whole chain.
SoundTxs(f, b, m, txs) ==
  \A p \in 1..Len(txs) : Justified(f, b, m, First(txs, p - 1), txs[p])

Sound(f, c) ==
  \A k \in 1..Len(c) : SoundTxs(f, First(c, k - 1), c[k].miner, c[k].txs)

\* More rows take nothing away.
LEMMA SoundStays ==
  ASSUME NEW f \in Seq(RowSet), NEW r \in RowSet
  PROVE  /\ \A b, m, txs : SoundTxs(f, b, m, txs) => SoundTxs(Append(f, r), b, m, txs)
         /\ \A c : Sound(f, c) => Sound(Append(f, r), c)
<1> DEFINE d == Append(f, r)
<1>1. /\ Len(f) \in Nat /\ Len(d) = Len(f) + 1
      /\ \A q \in 1..Len(f) : q \in 1..Len(d) /\ d[q] = f[q]
  BY AppendProperties, LenProperties
<1>2. \A q \in 1..Len(f) : First(d, q) = First(f, q)
  <2>1. \A q \in 1..Len(f) : q \in 0..Len(f)
    BY <1>1
  <2> QED
    BY <2>1, FirstSteps
<1> HIDE DEF d
<1>3. \A b, m, t : Misled(f, b, m, t) => Misled(d, b, m, t)
  <2> TAKE b, m, t
  <2> HAVE Misled(f, b, m, t)
  <2>1. PICK q \in 1..Len(f) : f[q] = TxRow(Len(b) + 1, t, m) /\ Strange(First(f, q), b)
    BY DEF Misled
  <2>2. q \in 1..Len(d) /\ d[q] = TxRow(Len(b) + 1, t, m) /\ Strange(First(d, q), b)
    BY <1>1, <1>2, <2>1
  <2> QED
    BY <2>2 DEF Misled
<1>4. \A b, m, txs : SoundTxs(f, b, m, txs) => SoundTxs(d, b, m, txs)
  BY <1>3 DEF SoundTxs, Justified
<1>5. \A c : Sound(f, c) => Sound(d, c)
  BY <1>4 DEF Sound
<1> QED
  BY <1>4, <1>5 DEF d

\* The blocks of a chain's beginning, and one block more.
LEMMA SoundParts ==
  ASSUME NEW f, NEW c \in Seq(Blocks), Sound(f, c)
  PROVE  /\ \A n \in 0..Len(c) : Sound(f, First(c, n))
         /\ \A b \in Blocks : SoundTxs(f, c, b.miner, b.txs) => Sound(f, Append(c, b))
<1>0. Len(c) \in Nat
  BY LenProperties
<1>1. ASSUME NEW n \in 0..Len(c) PROVE Sound(f, First(c, n))
  <2>1. PICK d \in Seq(Blocks) : d = First(c, n) /\ Len(d) = n /\ \A i \in 1..n : d[i] = c[i]
    BY FirstOfSeq
  <2>2. ASSUME NEW k \in 1..n PROVE SoundTxs(f, First(d, k - 1), d[k].miner, d[k].txs)
    <3>1. k \in 1..Len(c) /\ k - 1 \in 0..n /\ d[k] = c[k]
      BY <1>0, <2>1
    <3>2. First(d, k - 1) = First(c, k - 1)
      BY <2>1, <3>1, FirstSteps
    <3>3. SoundTxs(f, First(c, k - 1), c[k].miner, c[k].txs)
      BY <3>1 DEF Sound
    <3> QED
      BY <3>1, <3>2, <3>3
  <2> QED
    BY <2>1, <2>2 DEF Sound
<1>2. ASSUME NEW b \in Blocks, SoundTxs(f, c, b.miner, b.txs) PROVE Sound(f, Append(c, b))
  <2>1. PICK d \in Seq(Blocks) : d = Append(c, b)
    BY AppendProperties
  <2>2. Len(d) = Len(c) + 1 /\ d[Len(c) + 1] = b /\ \A i \in 1..Len(c) : d[i] = c[i]
    BY <2>1, AppendProperties
  <2>3. ASSUME NEW k \in 1..Len(d) PROVE SoundTxs(f, First(d, k - 1), d[k].miner, d[k].txs)
    <3>1. k - 1 \in 0..Len(c)
      BY <1>0, <2>2
    <3>2. First(d, k - 1) = First(c, k - 1)
      BY <2>1, <3>1, FirstSteps
    <3>3. CASE k \in 1..Len(c)
      <4>1. SoundTxs(f, First(c, k - 1), c[k].miner, c[k].txs)
        BY <3>3 DEF Sound
      <4> QED
        BY <2>2, <3>2, <3>3, <4>1
    <3>4. CASE k = Len(c) + 1
      <4>1. First(c, k - 1) = c
        <5>1. k - 1 = Len(c)
          BY <1>0, <3>4
        <5> QED
          BY <5>1, FirstSteps
      <4> QED
        BY <1>2, <2>2, <3>2, <3>4, <4>1
    <3> QED
      BY <1>0, <2>2, <3>3, <3>4
  <2> QED
    BY <2>1, <2>3 DEF Sound
<1> QED
  BY <1>1, <1>2

LEMMA SoundOneMore ==
  ASSUME NEW f, NEW b, NEW m, NEW done \in Seq(Txs), NEW t \in Txs,
         SoundTxs(f, b, m, done), Justified(f, b, m, done, t)
  PROVE  SoundTxs(f, b, m, Append(done, t))
<1>1. PICK d \in Seq(Txs) : d = Append(done, t)
  BY AppendProperties
<1>2. /\ Len(done) \in Nat /\ Len(d) = Len(done) + 1 /\ d[Len(done) + 1] = t
      /\ \A i \in 1..Len(done) : d[i] = done[i]
  BY <1>1, AppendProperties, LenProperties
<1>3. ASSUME NEW p \in 1..Len(d) PROVE Justified(f, b, m, First(d, p - 1), d[p])
  <2>1. p - 1 \in 0..Len(done)
    BY <1>2
  <2>2. First(d, p - 1) = First(done, p - 1)
    BY <1>1, <2>1, FirstSteps
  <2>3. CASE p \in 1..Len(done)
    <3>1. Justified(f, b, m, First(done, p - 1), done[p])
      BY <2>3 DEF SoundTxs
    <3> QED
      BY <1>2, <2>2, <2>3, <3>1
  <2>4. CASE p = Len(done) + 1
    <3>1. First(done, p - 1) = done
      <4>1. p - 1 = Len(done)
        BY <1>2, <2>4
      <4> QED
        BY <4>1, FirstSteps
    <3> QED
      BY <1>2, <2>2, <2>4, <3>1
  <2> QED
    BY <1>2, <2>3, <2>4
<1> QED
  BY <1>1, <1>3 DEF SoundTxs

\* Where the rows that count are the chain's, every transaction fits.
LEMMA OwnRowsFit ==
  ASSUME NEW f \in Seq(RowSet), NEW c \in Seq(Blocks), Sound(f, c), Live(f, Len(c)) = RowsOf(c),
         NEW k \in 1..Len(c), NEW p \in 1..Len(c[k].txs)
  PROVE  Fits(First(c, k - 1), c[k].miner, First(c[k].txs, p - 1), c[k].txs[p])
<1> DEFINE b == First(c, k - 1)
           t == c[k].txs[p]
           m == c[k].miner
<1>1. SUFFICES ASSUME Misled(f, b, m, t) PROVE FALSE
  BY DEF Sound, SoundTxs, Justified
<1>2. Len(c) \in Nat /\ k - 1 \in 0..Len(c)
  BY LenProperties
<1>3. b \in Seq(Blocks) /\ Len(b) = k - 1
  BY <1>2, FirstOfSeq
<1>4. PICK q \in 1..Len(f) : f[q] = TxRow(Len(b) + 1, t, m) /\ Strange(First(f, q), b)
  BY <1>1 DEF Misled
<1>5. PICK h \in 0..Len(b) : Live(First(f, q), h) # RowsOf(First(b, h))
  BY <1>4 DEF Strange
<1>6. First(b, h) = First(c, h)
  <2>1. h \in 0..(k - 1)
    BY <1>3
  <2> QED
    BY <1>2, <2>1, FirstSteps
<1>7. f[q].kind = "tx" /\ f[q].height = k
  <2>1. Len(b) + 1 = k
    BY <1>2, <1>3
  <2> HIDE DEF b, t, m
  <2> QED
    BY <1>4, <2>1 DEF TxRow
<1> HIDE DEF b, t, m
<1>8. f[q].height <= Len(c) /\ h \in 0..Len(c) /\ h < f[q].height
  BY <1>2, <1>3, <1>7
<1>9. Live(First(f, q), h) = RowsOf(First(c, h))
  BY <1>7, <1>8, RowsWereTheChains
<1> QED
  BY <1>5, <1>6, <1>9

\* Then reopening it executes the chain.
LEMMA OwnRowsExecute ==
  ASSUME rows \in Seq(RowSet), NEW c \in Seq(Blocks), Sound(rows, c),
         Live(rows, Len(c)) = RowsOf(c)
  PROVE  OpenScoped(Len(c)) = ExecuteChain(c)
<1> DEFINE n == Len(c)
           E(k) == ExecuteChain(First(c, k))
           G == {k \in 0..n : E(k) \in Ledgers /\ ReplayAll(RowsOf(First(c, k))) = E(k)}
<1>0. n \in Nat /\ First(c, n) = c /\ First(c, 0) = <<>>
  BY LenProperties, FirstSteps
<1>1. 0 \in G
  <2>1. ExecuteChain(<<>>) = Empty
    BY ExecutionGoesOn
  <2>2. RowsOf(<<>>) = <<>> /\ <<>> \in Seq(RowSet)
    BY RowsGoOn, EmptySeq
  <2>3. ReplayAll(<<>>) = Empty
    BY <2>2, ReplayGoesOn
  <2> QED
    BY <1>0, <2>1, <2>2, <2>3, EmptyType
<1>2. ASSUME NEW k \in 1..n, k - 1 \in G PROVE k \in G
  <2>1. /\ k - 1 \in 0..n /\ k \in 0..n /\ k \in Nat /\ (k - 1) + 1 = k
        /\ E(k - 1) \in Ledgers /\ ReplayAll(RowsOf(First(c, k - 1))) = E(k - 1)
    BY <1>0, <1>2
  <2>2. PICK b \in Blocks : b = c[k]
    BY ElementOfSeq
  <2>3. PICK d \in Seq(Blocks) : d = First(c, k - 1) /\ Len(d) = k - 1
    BY <2>1, FirstOfSeq
  <2>4. First(c, k) = Append(d, b)
    BY <2>2, <2>3, FirstSteps
  <2>5. PICK l \in Ledgers : l = ExecuteChain(d) /\ l = E(k - 1)
    BY <2>1, <2>3
  <2>6. PICK s \in Seq(RowSet) : s = RowsOf(d) /\ ReplayAll(s) = l
    BY <2>1, <2>3, <2>5, RowsGoOn
  <2>7. \A p \in 1..Len(b.txs) : Valid(TransferAll(l, First(b.txs, p - 1), b.miner), b.txs[p])
    BY <2>2, <2>3, <2>5, OwnRowsFit DEF Fits
  <2>8. ReplayAll(s \o RowsOfBlock(k, b)) = Execute(l, b)
    BY <2>1, <2>6, <2>7, BlockReplays
  <2>9. E(k) = Execute(l, b)
    BY <2>4, <2>5, ExecutionGoesOn
  <2>10. RowsOf(First(c, k)) = s \o RowsOfBlock(k, b)
    BY <2>1, <2>3, <2>4, <2>6, RowsGoOn
  <2>11. s \o RowsOfBlock(k, b) \in Seq(RowSet)
    <3>1. RowsOfBlock(k, b) \in Seq(RowSet)
      BY <2>1, BlockRows
    <3> QED
      BY <3>1, ConcatProperties
  <2>12. ReplayAll(s \o RowsOfBlock(k, b)) \in Ledgers
    BY <2>11, ReplayGoesOn
  <2> HIDE DEF E
  <2> QED
    BY <2>1, <2>8, <2>9, <2>10, <2>12
<1> HIDE DEF G, E
<1>3. n \in G
  <2>1. \A k \in 0..n : k \in G
    BY <1>0, <1>1, <1>2, StepByStep
  <2> QED
    BY <1>0, <2>1
<1>4. ReplayAll(RowsOf(c)) = ExecuteChain(c)
  BY <1>0, <1>3 DEF G, E
<1>5. OpenScoped(n) = ReplayAll(Live(rows, n))
  BY <1>0, ReopeningReplaysLive
<1> QED
  BY <1>4, <1>5

----------------------------------------------------------------------------
(* The ledger is the execution of the chain *)

\* Every transaction of the tip's chain and of the saved one is justified; where
\* the last reopening found rows that are not the chain's, the file and the chain
\* still differ; otherwise the balances are the execution of the chain and of what
\* is done of the current block.
Grounded ==
  /\ Sound(rows, chain) /\ Sound(rows, saved)
  /\ ~exact => Strange(rows, chain)
  /\ exact /\ phase # "apply" => mem = ExecuteChain(chain)
  /\ phase = "apply" =>
       \E done \in Seq(Txs) :
         /\ block.txs = done \o queue
         /\ SoundTxs(rows, chain, block.miner, done)
         /\ exact => mem = TransferAll(ExecuteChain(chain), done, block.miner)

LEMMA EmptyGrounded == Init => Grounded
<1> SUFFICES ASSUME Init PROVE Grounded
  OBVIOUS
<1>1. mem = Empty /\ chain = <<>> /\ saved = <<>> /\ phase = "idle" /\ exact = TRUE
  BY DEF Init
<1>2. Len(<<>>) = 0 /\ 1..0 = {}
  OBVIOUS
<1>3. ExecuteChain(<<>>) = Empty
  <2>1. <<>> \in Seq(Blocks)
    BY EmptySeq
  <2> QED
    BY <2>1, ExecutionGoesOn
<1>4. Sound(rows, <<>>)
  BY <1>2 DEF Sound
<1> QED
  BY <1>1, <1>3, <1>4 DEF Grounded

LEMMA BuildKeepsGround ==
  ASSUME Books, Grounded, NEW txs \in Candidates, NEW m \in Accounts, BuildBlock(txs, m)
  PROVE  Grounded'
<1>1. /\ phase = "idle" /\ phase' = "apply" /\ block'.txs = queue'
      /\ mem' = mem /\ rows' = rows /\ chain' = chain /\ saved' = saved /\ exact' = exact
  BY DEF BuildBlock
<1>2. block' \in Blocks
  BY BuildKeepsBooks DEF Books, TypeOK
<1>3. block'.txs \in Seq(Txs) /\ block'.miner \in Accounts /\ chain \in Seq(Blocks)
  BY <1>2 DEF Blocks, Books, TypeOK
<1>4. PICK done \in Seq(Txs) : done = <<>> /\ Len(done) = 0
  BY EmptySeq
<1>5. block'.txs = done \o queue'
  BY <1>1, <1>3, <1>4, ConcatEmptySeq
<1>6. SoundTxs(rows', chain', block'.miner, done)
  BY <1>4 DEF SoundTxs
<1>7. exact' => mem' = TransferAll(ExecuteChain(chain'), done, block'.miner)
  <2>1. ExecuteChain(chain) \in Wide
    BY <1>3, ExecutionGoesOn
  <2>2. TransferAll(ExecuteChain(chain), <<>>, block'.miner) = ExecuteChain(chain)
    BY <1>3, <1>4, <2>1, TransfersGoOn
  <2>3. exact => mem = ExecuteChain(chain)
    BY <1>1 DEF Grounded
  <2> QED
    BY <1>1, <1>4, <2>2, <2>3
<1>8. Sound(rows', chain') /\ Sound(rows', saved') /\ (~exact' => Strange(rows', chain'))
  BY <1>1 DEF Grounded
<1> QED
  BY <1>1, <1>5, <1>6, <1>7, <1>8 DEF Grounded

\* A transaction applied to the execution of the chain fits; one applied to
\* anything else is misled by the rows that made it so.
LEMMA ApplyKeepsGround ==
  ASSUME Books, Grounded, ApplyTransaction
  PROVE  Grounded'
<1>1. /\ phase = "apply" /\ queue # <<>> /\ queue' = Tail(queue)
      /\ chain' = chain /\ saved' = saved /\ phase' = phase /\ block' = block /\ exact' = exact
  BY DEF ApplyTransaction
<1>2. /\ queue \in Seq(Txs) /\ chain \in Seq(Blocks) /\ Len(chain) \in Nat
      /\ block.miner \in Accounts /\ rows \in Seq(RowSet) /\ exact \in BOOLEAN
  BY LenProperties DEF Books, TypeOK, Blocks, RowSet
<1>3. PICK t \in Txs : t = Head(queue)
  BY <1>1, <1>2
<1>4. PICK m \in Accounts : m = block.miner
  BY <1>2
<1>5. PICK r : r = TxRow(Len(chain) + 1, t, m)
  OBVIOUS
<1>6. Valid(mem, t) /\ mem' = Transfer(mem, t, m) /\ rows' = Append(rows, r)
  BY <1>3, <1>4, <1>5, ApplyKeepsBooks
<1>7. r \in RowSet /\ r.height = Len(chain) + 1
  <2>1. Len(chain) + 1 \in Nat
    BY <1>2
  <2>2. r \in RowSet
    BY <1>5, <2>1, SMTT(40) DEF TxRows, RowSet
  <2> QED
    BY <1>5, <2>2 DEF TxRow
<1>8. PICK done \in Seq(Txs) : /\ block.txs = done \o queue
                               /\ SoundTxs(rows, chain, m, done)
                               /\ exact => mem = TransferAll(ExecuteChain(chain), done, m)
  BY <1>1, <1>4 DEF Grounded
<1>9. PICK more \in Seq(Txs) : more = Append(done, t)
  BY <1>3, AppendProperties
<1>10. block'.txs = more \o queue'
  <2>1. queue' \in Seq(Txs) /\ queue = <<t>> \o queue'
    BY <1>1, <1>2, <1>3
  <2>2. <<t>> \in Seq(Txs) /\ more = done \o <<t>>
    BY <1>9
  <2>3. done \o (<<t>> \o queue') = (done \o <<t>>) \o queue'
    BY <2>1, <2>2, ConcatAssociative
  <2> QED
    BY <1>1, <1>8, <2>1, <2>2, <2>3
<1>11. ~exact => Strange(rows', chain)
  <2> SUFFICES ASSUME ~exact PROVE Strange(rows', chain)
    OBVIOUS
  <2>1. PICK h \in 0..Len(chain) : Live(rows, h) # RowsOf(First(chain, h))
    BY DEF Grounded, Strange
  <2>2. h \in Nat /\ r.height > h
    BY <1>2, <1>7
  <2>3. Live(rows', h) = Live(rows, h)
    BY <1>2, <1>6, <1>7, <2>2, LiveSkips
  <2> QED
    BY <2>1, <2>3 DEF Strange
<1>12. Justified(rows', chain, m, done, t)
  <2>1. CASE exact
    <3>1. Valid(TransferAll(ExecuteChain(chain), done, m), t)
      BY <1>6, <1>8, <2>1
    <3> QED
      BY <3>1 DEF Justified, Fits
  <2>2. CASE ~exact
    <3>1. PICK q : q = Len(rows) + 1
      OBVIOUS
    <3>2. rows' \in Seq(RowSet) /\ Len(rows') = q /\ rows'[q] = r /\ q \in 1..Len(rows')
      BY <1>2, <1>6, <1>7, <3>1, AppendProperties, LenProperties
    <3>3. First(rows', q) = rows'
      BY <3>2, FirstSteps
    <3>4. rows'[q] = TxRow(Len(chain) + 1, t, m) /\ Strange(First(rows', q), chain)
      BY <1>5, <1>11, <2>2, <3>2, <3>3
    <3>5. Misled(rows', chain, m, t)
      BY <3>2, <3>4 DEF Misled
    <3> QED
      BY <3>5 DEF Justified
  <2> QED
    BY <2>1, <2>2
<1>13. SoundTxs(rows', chain, m, done) /\ Sound(rows', chain) /\ Sound(rows', saved)
  BY <1>2, <1>6, <1>7, <1>8, SoundStays DEF Grounded
<1>14. SoundTxs(rows', chain, m, more)
  BY <1>9, <1>12, <1>13, SoundOneMore
<1>15. exact => mem' = TransferAll(ExecuteChain(chain), more, m)
  <2>1. ExecuteChain(chain) \in Wide
    BY <1>2, ExecutionGoesOn
  <2>2. TransferAll(ExecuteChain(chain), more, m)
          = Transfer(TransferAll(ExecuteChain(chain), done, m), t, m)
    BY <1>9, <2>1, TransfersGoOn
  <2> QED
    BY <1>6, <1>8, <2>2
<1> QED
  BY <1>1, <1>4, <1>10, <1>11, <1>13, <1>14, <1>15 DEF Grounded

LEMMA CreditKeepsGround ==
  ASSUME Books, Grounded, CreditReward
  PROVE  Grounded'
<1>1. /\ phase = "apply" /\ queue = <<>>
      /\ mem' = Reward(mem, block.miner, block.reward)
      /\ rows' = rows \/ rows' = Append(rows, RewardRow(Len(chain) + 1, block.miner, block.reward))
      /\ chain' = Append(chain, block) /\ phase' = "credited" /\ saved' = saved /\ exact' = exact
  BY DEF CreditReward
<1>2. /\ block \in Blocks /\ block.miner \in Accounts /\ block.reward \in Nat
      /\ block.txs \in Seq(Txs) /\ chain \in Seq(Blocks) /\ Len(chain) \in Nat
      /\ rows \in Seq(RowSet)
  BY LenProperties DEF Books, TypeOK, Blocks, RowSet
<1>3. PICK r \in RowSet : r = RewardRow(Len(chain) + 1, block.miner, block.reward)
  <2>1. Len(chain) + 1 \in Nat
    BY <1>2
  <2> QED
    BY <1>2, <2>1 DEF RewardRows, RowSet
<1>4. r.height = Len(chain) + 1
  BY <1>3 DEF RewardRow
<1>5. /\ SoundTxs(rows, chain, block.miner, block.txs)
      /\ exact => mem = TransferAll(ExecuteChain(chain), block.txs, block.miner)
  <2>1. PICK done \in Seq(Txs) : /\ block.txs = done \o queue
                                 /\ SoundTxs(rows, chain, block.miner, done)
                                 /\ exact => mem = TransferAll(ExecuteChain(chain), done, block.miner)
    BY <1>1 DEF Grounded
  <2>2. block.txs = done
    BY <1>1, <2>1, ConcatEmptySeq
  <2> QED
    BY <2>1, <2>2
<1>6. /\ \A c : Sound(rows, c) => Sound(rows', c)
      /\ \A h \in Nat : h <= Len(chain) => Live(rows', h) = Live(rows, h)
  <2>1. CASE rows' = rows
    BY <2>1
  <2>2. CASE rows' = Append(rows, r)
    <3>1. ASSUME NEW h \in Nat, h <= Len(chain) PROVE Live(rows', h) = Live(rows, h)
      <4>1. r.height > h
        BY <1>2, <1>4, <3>1
      <4> QED
        BY <1>2, <2>2, <4>1, LiveSkips
    <3> QED
      BY <1>2, <2>2, <3>1, SoundStays
  <2> QED
    BY <1>1, <1>3, <2>1, <2>2
<1>7. Sound(rows', chain') /\ Sound(rows', saved')
  <2>1. Sound(rows, Append(chain, block))
    BY <1>2, <1>5, SoundParts DEF Grounded
  <2> QED
    BY <1>1, <1>6, <2>1 DEF Grounded
<1>8. ~exact => Strange(rows', chain')
  <2> SUFFICES ASSUME ~exact PROVE Strange(rows', chain')
    OBVIOUS
  <2>1. PICK h \in 0..Len(chain) : Live(rows, h) # RowsOf(First(chain, h))
    BY DEF Grounded, Strange
  <2>2. Live(rows', h) = Live(rows, h)
    BY <1>2, <1>6, <2>1
  <2>3. First(chain', h) = First(chain, h)
    BY <1>1, <1>2, FirstSteps
  <2>4. h \in 0..Len(chain')
    <3>1. Len(chain') = Len(chain) + 1
      BY <1>1, <1>2, AppendProperties
    <3> QED
      BY <1>2, <3>1
  <2> QED
    BY <2>1, <2>2, <2>3, <2>4 DEF Strange
<1>9. exact => mem' = ExecuteChain(chain')
  <2>1. ExecuteChain(chain) \in Wide /\ ExecuteChain(chain') = Execute(ExecuteChain(chain), block)
    BY <1>1, <1>2, ExecutionGoesOn
  <2>2. Execute(ExecuteChain(chain), block)
          = Reward(TransferAll(ExecuteChain(chain), block.txs, block.miner), block.miner, block.reward)
    BY <1>2, <2>1, ExecuteStep
  <2> QED
    BY <1>1, <1>5, <2>1, <2>2
<1> QED
  BY <1>1, <1>7, <1>8, <1>9 DEF Grounded

\* A reopening executes the chain it finds, or the file and that chain differ.
LEMMA ReopenKeepsGround ==
  ASSUME Books, Grounded, NEW c \in Seq(Blocks), Sound(rows, c), Reopen(c),
         saved' = saved, phase' = "idle"
  PROVE  Grounded'
<1>1. rows' = rows /\ mem' = OpenScoped(Len(c)) /\ chain' = c /\ Len(c) \in Nat
  BY ReopenKeepsTypes
<1>2. exact' <=> Live(rows, Len(c)) = RowsOf(c)
  <2>1. exact' = (LiveRows(Len(c)) = RowsOf(c))
    BY DEF Reopen
  <2>2. LiveRows(Len(c)) = Live(rows, Len(c))
    BY LiveRowsOfFile
  <2> QED
    BY <2>1, <2>2
<1>3. rows \in Seq(RowSet)
  BY DEF Books, RowSet
<1>4. exact' => mem' = ExecuteChain(c)
  BY <1>1, <1>2, <1>3, OwnRowsExecute
<1>5. ~exact' => Strange(rows, c)
  <2>1. First(c, Len(c)) = c /\ Len(c) \in 0..Len(c)
    BY <1>1, FirstSteps
  <2> QED
    BY <1>2, <2>1 DEF Strange
<1>6. Sound(rows', chain') /\ Sound(rows', saved')
  BY <1>1 DEF Grounded
<1>7. ~exact' => Strange(rows', chain')
  BY <1>1, <1>5
<1>8. exact' => mem' = ExecuteChain(chain')
  BY <1>1, <1>4
<1> QED
  BY <1>6, <1>7, <1>8 DEF Grounded

LEMMA FinishKeepsGround ==
  ASSUME Books, Grounded, FinishMined \/ FinishSynced \/ AtBound \/ UNCHANGED vars
  PROVE  Grounded'
<1>1. CASE FinishMined \/ FinishSynced
  <2>1. /\ rows' = rows /\ mem' = mem /\ chain' = chain /\ exact' = exact
        /\ saved' = chain \/ saved' = saved
        /\ phase = "credited" /\ phase' = "idle"
    BY <1>1 DEF FinishMined, FinishSynced
  <2>2. Sound(rows', chain') /\ Sound(rows', saved') /\ (~exact' => Strange(rows', chain'))
    BY <2>1 DEF Grounded
  <2>3. exact' => mem' = ExecuteChain(chain')
    BY <2>1 DEF Grounded
  <2> QED
    BY <2>1, <2>2, <2>3 DEF Grounded
<1>2. CASE AtBound \/ UNCHANGED vars
  <2>1. /\ rows' = rows /\ mem' = mem /\ chain' = chain /\ saved' = saved /\ phase' = phase
        /\ block' = block /\ queue' = queue /\ exact' = exact
    BY <1>2 DEF AtBound, vars
  <2>2. Sound(rows', chain') /\ Sound(rows', saved') /\ (~exact' => Strange(rows', chain'))
    BY <2>1 DEF Grounded
  <2>3. exact' /\ phase' # "apply" => mem' = ExecuteChain(chain')
    BY <2>1 DEF Grounded
  <2>4. phase' = "apply" =>
          \E done \in Seq(Txs) :
            /\ block'.txs = done \o queue'
            /\ SoundTxs(rows', chain', block'.miner, done)
            /\ exact' => mem' = TransferAll(ExecuteChain(chain'), done, block'.miner)
    BY <2>1 DEF Grounded
  <2> QED
    BY <2>2, <2>3, <2>4 DEF Grounded
<1> QED
  BY <1>1, <1>2

LEMMA GroundedInductive == Books /\ Grounded /\ [Next]_vars => Grounded'
<1> SUFFICES ASSUME Books, Grounded, [Next]_vars PROVE Grounded'
  OBVIOUS
<1>1. CASE \E txs \in Candidates, m \in Accounts : BuildBlock(txs, m)
  BY <1>1, BuildKeepsGround
<1>2. CASE ApplyTransaction
  BY <1>2, ApplyKeepsGround
<1>3. CASE CreditReward
  BY <1>3, CreditKeepsGround
<1>4. CASE \E f \in 1 .. Len(chain) - 1 : RollBack(f)
  <2>1. PICK f \in 1 .. Len(chain) - 1 : RollBack(f)
    BY <1>4
  <2>2. PICK c \in Seq(Blocks) : c = First(chain, f)
    BY <2>1, RollBackKeepsBooks DEF First
  <2>3. Reopen(c) /\ saved' = saved /\ phase' = "idle"
    BY <2>1, <2>2 DEF RollBack, First
  <2>4. Sound(rows, c)
    <3>1. chain \in Seq(Blocks) /\ f \in 0..Len(chain) /\ Sound(rows, chain)
      BY LenProperties DEF Books, TypeOK, Grounded
    <3> QED
      BY <2>2, <3>1, SoundParts
  <2> QED
    BY <2>3, <2>4, ReopenKeepsGround
<1>5. CASE Restart
  <2>1. Reopen(saved) /\ saved' = saved /\ phase' = "idle"
    BY <1>5 DEF Restart
  <2>2. saved \in Seq(Blocks) /\ Sound(rows, saved)
    BY DEF Books, TypeOK, Grounded
  <2> QED
    BY <2>1, <2>2, ReopenKeepsGround
<1>6. CASE FinishMined \/ FinishSynced \/ AtBound \/ UNCHANGED vars
  BY <1>6, FinishKeepsGround
<1> QED
  BY <1>1, <1>2, <1>3, <1>4, <1>5, <1>6 DEF Next

\* Between blocks the ledger is the execution of the tip's chain from genesis, as
\* long as the last open_scoped found that chain's rows, in order, among those it
\* counts: rows that abandoned blocks once left do no harm where they are no
\* longer counted, nor do transactions that were valid only because of them.
THEOREM LedgerExecutesChain == Spec => []LedgerIsExecution
<1>1. Init => Books /\ Grounded
  BY EmptyBooks, EmptyGrounded
<1>2. Books /\ Grounded /\ [Next]_vars => (Books /\ Grounded)'
  BY BooksInductive, GroundedInductive
<1>3. Books /\ Grounded => LedgerIsExecution
  BY DEF Grounded, LedgerIsExecution
<1> QED
  BY <1>1, <1>2, <1>3, PTL DEF Spec

=============================================================================
