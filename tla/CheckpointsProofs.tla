-------------------------- MODULE CheckpointsProofs --------------------------
(***************************************************************************)
(* Theorems about the checkpoints and the difficulty of one node, for every *)
(* interval, epoch, step and range of the difficulty, set of observations,  *)
(* lead of the peers and number of crashes: values keep their types, the    *)
(* difficulty and the work are those of the chain, every block has the seed *)
(* of its governing checkpoint, the published Bitcoin height is one the     *)
(* chain pinned, and no mock observation is pinned over a real one.         *)
(*                                                                         *)
(* A history is good if its seeds are those of its checkpoints (Seeded) or  *)
(* if it pins no mock tip over a real one (Unmocked).  The invariants say   *)
(* that every history the node holds, on disk, in memory, in a claim or     *)
(* from its peer, is good, and that what it carries beside a history        *)
(* belongs to it.                                                           *)
(***************************************************************************)
EXTENDS Checkpoints, CollectionLemmas, SequenceTheorems

----------------------------------------------------------------------------
(* The inductive invariants *)

\* Outside an election the published tip is the task's.
TipIsPublished == pc \notin {"stored", "saved"} => st.path = cur.path

\* The task waits for an observation only at a checkpoint, and it has come.
FetchHasCome ==
  pc = "fetch" => /\ fetched.task # NoFetch /\ Height(cur.path) < MaxMined
                  /\ IsCheckpoint(Height(cur.path) + 1)

\* A process that is not running has no claims.
DownHasNoClaims == pc = "down" => pending = {}

\* A checkpoint's row has the Bitcoin height the block pins.
RowsPin ==
  \A h \in Heights : rows[h].path # <<>> /\ IsCheckpoint(h)
                       => rows[h].btc = rows[h].path[h].seed.tip

Founded == TypeOK /\ TipIsPublished /\ FetchHasCome /\ DownHasNoClaims /\ RowsPin

\* The chain is in the store, and its difficulty and work are its own.
OfChain(point) == point.adj = AdjusterOf(point.path) /\ point.work = WorkOf(point.path)
Stored == ~strayed => Linked(cur.path) /\ OfChain(cur) /\ OfChain(saved)

\* Every history the node holds.
Held ==
  {rows[h].path : h \in Heights} \cup {c.path : c \in pending}
    \cup {saved.path, cur.path, st.path, peer}

\* The histories whose blocks have the seeds of their governing checkpoints.
Seeded == {path \in Histories :
             \A h \in 1..Height(path) : path[h].seed = path[Governing(h)].seed}

OwnSeed(point) == point.seed = SeedOf(point.path)

\* A Bitcoin height that a history pins, or none.
Pinned(path, btc) ==
  btc = 0 \/ \E h \in 1..Height(path) : IsCheckpoint(h) /\ path[h].seed.tip = btc

OwnSeeds ==
  ~strayed /\ ~elsewhere =>
    /\ Held \subseteq Seeded
    /\ OwnSeed(saved) /\ OwnSeed(cur) /\ OwnSeed(st)

OwnHeights ==
  ~strayed /\ ~elsewhere =>
    /\ \A h \in Heights : Pinned(rows[h].path, rows[h].btc)
    /\ Pinned(saved.path, saved.btc) /\ Pinned(cur.path, cur.btc) /\ Pinned(st.path, st.btc)
    /\ pc \in {"stored", "saved"} => Pinned(cur.path, won)

\* The histories that pin no mock tip over a real one.
Unmocked == {path \in Histories :
               \A g, h \in 1..Height(path) :
                 /\ g < h /\ IsCheckpoint(g) /\ IsCheckpoint(h)
                 /\ path[g].seed.tip > 0
                 => path[h].seed.tip > 0}

\* A history that pins a real tip.
Real(path) == \E g \in 1..Height(path) : IsCheckpoint(g) /\ path[g].seed.tip > 0

\* Once the chain pins a real tip the task knows a Bitcoin height, or the node
\* has observed one; and so once a claim does.
RealIsKnown ==
  /\ Real(cur.path) => cur.btc > 0 \/ obs.tip > 0
  /\ \A c \in pending : IsCheckpoint(Height(c.path)) /\ Last(c.path).seed.tip > 0
                          => obs.tip > 0
  /\ pc = "fetch" /\ fetched.task.tip = 0 /\ Real(cur.path) => cur.btc > 0

NeverMocked == ~blinded /\ ~strayed => Held \subseteq Unmocked /\ RealIsKnown

----------------------------------------------------------------------------
(* Checkpoint heights *)

\* A product with a positive factor grows with the other one.
LEMMA ProductGrows ==
  ASSUME NEW d \in Nat, NEW a \in Nat, NEW b \in Nat, a < b
  PROVE  d * a + d <= d * b
<1>1. PICK k \in Nat : b = a + 1 + k
  <2>1. b - a - 1 \in Nat /\ b = a + 1 + (b - a - 1)
    OBVIOUS
  <2> QED
    BY <2>1
<1>2. d * b = d * a + d + d * k
  BY <1>1
<1>3. d * k \in Nat /\ d * a \in Nat
  OBVIOUS
<1> QED
  BY <1>2, <1>3

\* Quotient and remainder.
LEMMA Division ==
  ASSUME NEW a \in Nat, NEW d \in Nat \ {0}
  PROVE  \E q \in Nat, r \in 0..(d - 1) : a \div d = q /\ a % d = r /\ a = d * q + r
<1>1. PICK q, r : a \div d = q /\ a % d = r
  OBVIOUS
<1>2. q \in Nat /\ r \in 0..(d - 1)
  BY <1>1
<1>3. r = a - d * q
  <2>1. a % d = a - d * (a \div d)
    OBVIOUS
  <2> QED
    BY <1>1, <2>1
<1>4. d * q \in Nat
  BY <1>2
<1>5. a = d * q + r
  BY <1>2, <1>3, <1>4
<1> QED
  BY <1>1, <1>2, <1>5, Zenon

LEMMA DivisionIsUnique ==
  ASSUME NEW d \in Nat \ {0}, NEW q \in Nat, NEW r \in 0..(d - 1),
         NEW a \in Nat, a = d * q + r
  PROVE  a \div d = q /\ a % d = r
<1>1. a = q * d + r /\ r \in Nat /\ r < d
  OBVIOUS
<1> QED
  BY <1>1

LEMMA GoverningIsCheckpoint ==
  ASSUME NEW h \in Nat \ {0}
  PROVE  /\ Governing(h) \in 1..h /\ IsCheckpoint(Governing(h))
         /\ IsCheckpoint(h) => Governing(h) = h
         /\ ~IsCheckpoint(h) => h - 1 \in Nat \ {0} /\ Governing(h - 1) = Governing(h)
<1> DEFINE d == Interval
<1>1. d \in Nat \ {0} /\ h - 1 \in Nat
  BY ParameterAssumption
<1>2. PICK q \in Nat, r \in 0..(d - 1) :
        (h - 1) \div d = q /\ (h - 1) % d = r /\ h - 1 = d * q + r
  BY <1>1, Division
<1>3. Governing(h) = q * d + 1
  BY <1>2 DEF Governing
<1>4. IsCheckpoint(h) <=> h = 1 \/ r = 0
  BY <1>2 DEF IsCheckpoint
<1>5. d * q \in Nat /\ d * q = q * d /\ (d * q) % d = 0
  <2>1. \A c \in Nat : (c * d) % d = 0
    BY <1>1
  <2> QED
    BY <1>1, <1>2, <2>1
<1> HIDE DEF d
<1>6. Governing(h) = d * q + 1 /\ Governing(h) \in 1..h
  BY <1>2, <1>3, <1>5
<1>7. IsCheckpoint(Governing(h))
  <2>1. Governing(h) - 1 = d * q
    BY <1>5, <1>6
  <2> QED
    BY <1>5, <2>1 DEF IsCheckpoint, d
<1>8. ASSUME IsCheckpoint(h) PROVE Governing(h) = h
  <2>1. CASE r = 0
    BY <1>2, <1>5, <1>6, <2>1
  <2>2. CASE h = 1
    BY <1>6, <2>2
  <2> QED
    BY <1>4, <1>8, <2>1, <2>2
<1>9. ASSUME ~IsCheckpoint(h) PROVE h - 1 \in Nat \ {0} /\ Governing(h - 1) = Governing(h)
  <2>1. h # 1 /\ r # 0 /\ r - 1 \in 0..(d - 1)
    BY <1>1, <1>2, <1>4, <1>9
  <2>2. h - 1 \in Nat \ {0} /\ (h - 1) - 1 = d * q + (r - 1)
    BY <1>2, <1>5, <2>1
  <2>3. ((h - 1) - 1) \div d = q
    BY <1>1, <1>2, <2>1, <2>2, DivisionIsUnique
  <2> QED
    BY <1>3, <2>2, <2>3 DEF Governing, d
<1> QED
  BY <1>6, <1>7, <1>8, <1>9

LEMMA GoverningIsLast ==
  ASSUME NEW h \in Nat \ {0}, NEW g \in 1..h, IsCheckpoint(g)
  PROVE  g <= Governing(h)
<1> DEFINE d == Interval
<1>1. d \in Nat \ {0} /\ h - 1 \in Nat /\ g \in Nat \ {0} /\ g - 1 \in Nat
  BY ParameterAssumption
<1>2. PICK q \in Nat, r \in 0..(d - 1) : (h - 1) \div d = q /\ h - 1 = d * q + r
  BY <1>1, Division
<1>3. PICK m \in Nat : (g - 1) \div d = m
  BY <1>1, Division
<1>4. Governing(h) = q * d + 1 /\ Governing(g) = m * d + 1 /\ Governing(g) = g
  <2>1. Governing(g) = g
    BY <1>1, GoverningIsCheckpoint
  <2> QED
    BY <1>1, <1>2, <1>3, <2>1 DEF Governing
<1> HIDE DEF d
<1>5. d * q \in Nat /\ d * q = q * d /\ d * m \in Nat /\ d * m = m * d
  BY <1>1, <1>2, <1>3
<1>6. CASE m <= q
  <2>1. CASE m = q
    BY <1>4, <2>1
  <2>2. CASE m < q
    <3>1. d * m + d <= d * q
      BY <1>1, <1>2, <1>3, <2>2, ProductGrows
    <3> QED
      BY <1>1, <1>4, <1>5, <3>1
  <2> QED
    BY <1>2, <1>3, <1>6, <2>1, <2>2
<1>7. CASE q < m
  <2>1. d * q + d <= d * m
    BY <1>1, <1>2, <1>3, <1>7, ProductGrows
  <2> QED
    BY <1>1, <1>2, <1>4, <1>5, <2>1
<1> QED
  BY <1>2, <1>3, <1>6, <1>7

----------------------------------------------------------------------------
(* Histories *)

LEMMA HistoryType ==
  ASSUME NEW p \in Histories
  PROVE  /\ p \in Seq(Block) /\ Len(p) \in 0..MaxHeight /\ Len(p) \in Nat
         /\ DOMAIN p = 1..Len(p)
         /\ \A i \in 1..Len(p) : p[i] \in Block
         /\ p = <<>> <=> Len(p) = 0
<1>1. p \in Seq(Block) /\ Len(p) <= MaxHeight
  BY DEF Histories, Height
<1>2. Len(p) \in Nat /\ DOMAIN p = 1..Len(p) /\ (p = <<>> <=> Len(p) = 0)
  BY <1>1, EmptySeq
<1>3. MaxHeight \in Nat
  BY ParameterAssumption
<1>4. \A i \in 1..Len(p) : p[i] \in Block
  BY <1>1, <1>2
<1> QED
  BY <1>1, <1>2, <1>3, <1>4

\* What a history says up to a height.
LEMMA UpToIsHistory ==
  ASSUME NEW p \in Histories, NEW h \in 0..Len(p)
  PROVE  /\ UpTo(p, h) \in Histories /\ Len(UpTo(p, h)) = h
         /\ \A i \in 1..h : UpTo(p, h)[i] = p[i]
         /\ h > 0 => Last(UpTo(p, h)) = p[h] /\ UpTo(p, h) # <<>>
<1>1. p \in Seq(Block) /\ Len(p) \in 0..MaxHeight /\ Len(p) \in Nat /\ h \in Nat /\ MaxHeight \in Nat
  BY HistoryType, ParameterAssumption
<1>2. /\ UpTo(p, h) \in Seq(Block) /\ Len(UpTo(p, h)) = h
      /\ \A i \in 1..h : UpTo(p, h)[i] = p[i]
  BY <1>1 DEF UpTo
<1>3. UpTo(p, h) \in Histories
  BY <1>1, <1>2 DEF Histories, Height
<1>4. h > 0 => Last(UpTo(p, h)) = p[h]
  BY <1>1, <1>2 DEF Last
<1>5. h > 0 => UpTo(p, h) # <<>>
  BY <1>2, <1>3, HistoryType
<1> QED
  BY <1>2, <1>3, <1>4, <1>5

\* Two histories are equal if their blocks are.
LEMMA HistoriesEqual ==
  ASSUME NEW p \in Histories, NEW q \in Histories, Len(p) = Len(q),
         \A i \in 1..Len(p) : p[i] = q[i]
  PROVE  p = q
<1>1. p \in Seq(Block) /\ q \in Seq(Block)
  BY HistoryType
<1> QED
  BY <1>1, SeqEqual

LEMMA UpToNests ==
  ASSUME NEW p \in Histories, NEW h \in 0..Len(p)
  PROVE  /\ UpTo(p, Len(p)) = p /\ UpTo(p, 0) = <<>>
         /\ \A g \in 0..h : UpTo(UpTo(p, h), g) = UpTo(p, g)
<1>1. Len(p) \in Nat /\ h \in Nat
  BY HistoryType
<1>2. UpTo(p, Len(p)) = p
  <2>1. Len(p) \in 0..Len(p)
    BY <1>1
  <2>2. /\ UpTo(p, Len(p)) \in Histories /\ Len(UpTo(p, Len(p))) = Len(p)
        /\ \A i \in 1..Len(p) : UpTo(p, Len(p))[i] = p[i]
    BY <2>1, UpToIsHistory
  <2> QED
    BY <2>2, HistoriesEqual
<1>3. UpTo(p, 0) = <<>>
  <2>1. 0 \in 0..Len(p)
    BY <1>1
  <2>2. UpTo(p, 0) \in Histories /\ Len(UpTo(p, 0)) = 0
    BY <2>1, UpToIsHistory
  <2> QED
    BY <2>2, HistoryType
<1>4. ASSUME NEW g \in 0..h PROVE UpTo(UpTo(p, h), g) = UpTo(p, g)
  <2> DEFINE q == UpTo(p, h)
  <2>1. q \in Histories /\ Len(q) = h /\ \A i \in 1..h : q[i] = p[i]
    BY UpToIsHistory
  <2>2. g \in 0..Len(q) /\ g \in 0..Len(p) /\ g \in Nat
    BY <1>1, <2>1
  <2> HIDE DEF q
  <2>3. UpTo(q, g) \in Histories /\ Len(UpTo(q, g)) = g /\ \A i \in 1..g : UpTo(q, g)[i] = q[i]
    BY <2>1, <2>2, UpToIsHistory
  <2>4. UpTo(p, g) \in Histories /\ Len(UpTo(p, g)) = g /\ \A i \in 1..g : UpTo(p, g)[i] = p[i]
    BY <2>2, UpToIsHistory
  <2>5. \A i \in 1..g : UpTo(q, g)[i] = UpTo(p, g)[i]
    BY <1>1, <2>1, <2>2, <2>3, <2>4
  <2>6. UpTo(q, g) = UpTo(p, g)
    BY <2>3, <2>4, <2>5, HistoriesEqual
  <2> QED
    BY <2>6 DEF q
<1> QED
  BY <1>2, <1>3, <1>4

\* A block after a history.
LEMMA AppendIsHistory ==
  ASSUME NEW p \in Histories, NEW b \in Block, Len(p) < MaxHeight
  PROVE  /\ Append(p, b) \in Histories /\ Len(Append(p, b)) = Len(p) + 1
         /\ Append(p, b)[Len(p) + 1] = b /\ Last(Append(p, b)) = b
         /\ \A i \in 1..Len(p) : Append(p, b)[i] = p[i]
         /\ Append(p, b) # <<>>
         /\ UpTo(Append(p, b), Len(p)) = p
<1>1. p \in Seq(Block) /\ Len(p) \in Nat /\ MaxHeight \in Nat
  BY HistoryType, ParameterAssumption
<1> DEFINE q == Append(p, b)
<1>2. /\ q \in Seq(Block) /\ Len(q) = Len(p) + 1 /\ q[Len(p) + 1] = b
      /\ \A i \in 1..Len(p) : q[i] = p[i]
  BY <1>1
<1> HIDE DEF q
<1>3. q \in Histories
  BY <1>1, <1>2 DEF Histories, Height
<1>4. Last(q) = b
  BY <1>2 DEF Last
<1>5. q # <<>>
  BY <1>1, <1>2, <1>3, HistoryType
<1>6. UpTo(q, Len(p)) = p
  <2>1. Len(p) \in 0..Len(q)
    BY <1>1, <1>2
  <2>2. /\ UpTo(q, Len(p)) \in Histories /\ Len(UpTo(q, Len(p))) = Len(p)
        /\ \A i \in 1..Len(p) : UpTo(q, Len(p))[i] = q[i]
    BY <1>3, <2>1, UpToIsHistory
  <2> QED
    BY <1>2, <2>2, HistoriesEqual
<1> QED
  BY <1>2, <1>3, <1>4, <1>5, <1>6 DEF q

----------------------------------------------------------------------------
(* Difficulty and work *)

LEMMA ClampType == ASSUME NEW bits \in Int PROVE Clamp(bits) \in MinBits..MaxBits
<1>1. MinBits \in Nat /\ MaxBits \in Nat /\ MinBits <= MaxBits
  BY ParameterAssumption
<1>2. Min({MaxBits, bits}) = IF MaxBits <= bits THEN MaxBits ELSE bits
  BY <1>1, MinOfTwo
<1> DEFINE least == Min({MaxBits, bits})
<1>3. least \in Int /\ least <= MaxBits
  BY <1>1, <1>2
<1> HIDE DEF least
<1>4. Max({MinBits, least}) = IF MinBits >= least THEN MinBits ELSE least
  BY <1>1, <1>3, MaxOfTwo
<1>5. Max({MinBits, least}) \in MinBits..MaxBits
  BY <1>1, <1>3, <1>4
<1> QED
  BY <1>5 DEF Clamp, least

LEMMA RawDeltaType == ASSUME NEW actual \in Nat PROVE RawDelta(actual) \in Int
<1>1. MaxDelta \in Nat
  BY ParameterAssumption
<1> DEFINE s == {d \in (-MaxDelta)..MaxDelta : RoundsTo(actual, d)} \cup {-MaxDelta}
<1>2. s \in SUBSET ((-MaxDelta)..MaxDelta) /\ s # {}
  BY <1>1
<1>3. RawDelta(actual) = IF actual = 0 THEN MaxDelta ELSE Max(s)
  BY DEF RawDelta
<1> HIDE DEF s
<1>4. Max(s) \in s
  BY <1>1, <1>2, MaxOfInterval
<1>5. Max(s) \in (-MaxDelta)..MaxDelta
  BY <1>2, <1>4, Zenon
<1>6. Max(s) \in Int
  BY <1>1, <1>5
<1> QED
  BY <1>1, <1>3, <1>6

LEMMA RecordBlockType ==
  ASSUME NEW adj \in Adjusters, NEW h \in 0..MaxHeight, NEW ts \in Nat
  PROVE  RecordBlock(adj, h, ts) \in Adjusters
<1>1. adj.bits \in Int /\ adj.start \in Nat /\ MinBits \in Nat /\ MaxBits \in Nat
  BY ParameterAssumption DEF Adjusters
<1>2. Elapsed(ts, adj.start) \in Nat
  BY <1>1 DEF Elapsed
<1> DEFINE bits == adj.bits + RawDelta(Elapsed(ts, adj.start))
<1>3. bits \in Int
  BY <1>1, <1>2, RawDeltaType
<1>4. RecordBlock(adj, h, ts) =
        IF h % EpochSize # 0 THEN adj ELSE [bits |-> Clamp(bits), start |-> ts, height |-> h]
  BY DEF RecordBlock
<1> HIDE DEF bits
<1>5. Clamp(bits) \in MinBits..MaxBits
  BY <1>3, ClampType
<1> QED
  BY <1>4, <1>5 DEF Adjusters

LEMMA GenesisType == GenesisAdjuster \in Adjusters
  BY ParameterAssumption DEF GenesisAdjuster, Adjusters

\* A replay of a history, block by block.
Replays(run, p) ==
  /\ run[0] = GenesisAdjuster
  /\ \A k \in 1..Len(p) : run[k] = RecordBlock(run[k - 1], k, p[k].ts)

LEMMA AdjusterRuns ==
  ASSUME NEW p \in Histories
  PROVE  \E run \in [0..Len(p) -> Adjusters] : Replays(run, p) /\ AdjusterOf(p) = run[Len(p)]
<1> DEFINE n == Len(p)
           Replayed(f) == [k \in 0..n |-> IF k = 0 THEN GenesisAdjuster
                                          ELSE RecordBlock(f[k - 1], k, p[k].ts)]
           run == CHOOSE f : f = Replayed(f)
           op == [q \in Adjusters \X (1..n) |-> RecordBlock(q[1], q[2], p[q[2]].ts)]
<1>1. n \in Nat /\ n <= MaxHeight /\ MaxHeight \in Nat /\ \A k \in 1..n : p[k].ts \in Nat
  <2>1. n \in 0..MaxHeight /\ MaxHeight \in Nat
    BY HistoryType, ParameterAssumption
  <2>2. \A k \in 1..n : p[k] \in Block
    BY HistoryType
  <2> QED
    BY <2>1, <2>2 DEF Block
<1>2. AdjusterOf(p) = run[n]
  BY DEF AdjusterOf
<1>3. ASSUME NEW adj \in Adjusters, NEW k \in 1..n
      PROVE  RecordBlock(adj, k, p[k].ts) \in Adjusters
  <2>1. k \in 0..MaxHeight /\ p[k].ts \in Nat
    BY <1>1
  <2> QED
    BY <2>1, RecordBlockType
<1>4. op \in [Adjusters \X (1..n) -> Adjusters]
  BY <1>3
<1>5. PICK f \in [0..n -> Adjusters] : Recurs(f, n, GenesisAdjuster, op)
  <2> HIDE DEF op, n
  <2> QED
    BY <1>1, <1>4, GenesisType, RecursionOnNumbers
<1>6. \A k \in 1..n : f[k] = RecordBlock(f[k - 1], k, p[k].ts)
  <2> TAKE k \in 1..n
  <2>1. f[k - 1] \in Adjusters
    BY <1>1
  <2> HIDE DEF n
  <2> QED
    BY <1>5, <2>1 DEF Recurs
<1>7. f = Replayed(f)
  <2>1. \A k \in 0..n : f[k] = IF k = 0 THEN GenesisAdjuster
                               ELSE RecordBlock(f[k - 1], k, p[k].ts)
    BY <1>1, <1>5, <1>6 DEF Recurs
  <2> HIDE DEF n
  <2> QED
    BY <2>1
<1>8. run = Replayed(run)
  BY <1>7
<1> HIDE DEF run, n
<1>9. /\ run[0] = GenesisAdjuster
      /\ \A k \in 1..n : run[k] = RecordBlock(run[k - 1], k, p[k].ts)
  BY <1>1, <1>8
<1>10. \A k \in 0..n : run[k] \in Adjusters
  <2>1. run[0] \in Adjusters
    BY <1>9, GenesisType
  <2>2. \A k \in 1..n : run[k - 1] \in Adjusters => run[k] \in Adjusters
    BY <1>3, <1>9
  <2> QED
    BY <1>1, <2>1, <2>2, RunStaysIn
<1>11. run \in [0..n -> Adjusters]
  BY <1>8, <1>10
<1> QED
  BY <1>2, <1>9, <1>11 DEF Replays, n

\* The replay of a part of a history gives what that of the history gives there.
LEMMA ReplaysAgree ==
  ASSUME NEW p \in Histories, NEW q \in Histories, NEW r, NEW s, Len(q) <= Len(p),
         Replays(r, p), Replays(s, q), \A i \in 1..Len(q) : q[i] = p[i]
  PROVE  s[Len(q)] = r[Len(q)]
<1>1. Len(p) \in Nat /\ Len(q) \in Nat
  BY HistoryType
<1>2. s[0] = r[0]
  BY DEF Replays
<1>3. ASSUME NEW k \in 1..Len(q), s[k - 1] = r[k - 1] PROVE s[k] = r[k]
  <2>1. k \in 1..Len(p)
    BY <1>1
  <2>2. s[k] = RecordBlock(s[k - 1], k, q[k].ts) /\ r[k] = RecordBlock(r[k - 1], k, p[k].ts)
    BY <2>1 DEF Replays
  <2> QED
    BY <1>3, <2>2
<1>4. InStep(s, r, Len(q))
  BY <1>2, <1>3 DEF InStep
<1> QED
  BY <1>1, <1>4, InStepAgree

\* The adjuster of a history is that of the history before its last block, after
\* one more block.
LEMMA AdjusterSteps ==
  ASSUME NEW p \in Histories
  PROVE  /\ AdjusterOf(p) \in Adjusters
         /\ p = <<>> => AdjusterOf(p) = GenesisAdjuster
         /\ Len(p) > 0 => AdjusterOf(p) =
              RecordBlock(AdjusterOf(UpTo(p, Len(p) - 1)), Len(p), p[Len(p)].ts)
<1>1. Len(p) \in Nat /\ (p = <<>> <=> Len(p) = 0)
  BY HistoryType
<1>2. PICK r \in [0..Len(p) -> Adjusters] : Replays(r, p) /\ AdjusterOf(p) = r[Len(p)]
  BY AdjusterRuns
<1>3. AdjusterOf(p) \in Adjusters /\ (p = <<>> => AdjusterOf(p) = GenesisAdjuster)
  BY <1>1, <1>2 DEF Replays
<1>4. ASSUME Len(p) > 0
      PROVE  AdjusterOf(p) = RecordBlock(AdjusterOf(UpTo(p, Len(p) - 1)), Len(p), p[Len(p)].ts)
  <2> DEFINE n == Len(p) - 1
             q == UpTo(p, n)
  <2>1. n \in Nat /\ n \in 0..Len(p) /\ n <= Len(p)
    BY <1>1, <1>4
  <2>2. q \in Histories /\ Len(q) = n /\ \A i \in 1..n : q[i] = p[i]
    BY <2>1, UpToIsHistory
  <2> HIDE DEF q
  <2>3. PICK s \in [0..Len(q) -> Adjusters] : Replays(s, q) /\ AdjusterOf(q) = s[Len(q)]
    BY <2>2, AdjusterRuns
  <2>4. s[Len(q)] = r[Len(q)]
    BY <1>2, <2>1, <2>2, <2>3, ReplaysAgree
  <2>5. AdjusterOf(q) = r[n]
    BY <2>1, <2>2, <2>3, <2>4
  <2>6. r[Len(p)] = RecordBlock(r[n], Len(p), p[Len(p)].ts)
    BY <1>1, <1>2, <1>4 DEF Replays
  <2> QED
    BY <1>2, <2>5, <2>6 DEF q
<1> QED
  BY <1>3, <1>4

\* Within an epoch the adjuster stays as it is.
LEMMA AdjusterStays ==
  ASSUME NEW p \in Histories, NEW f \in 0..Len(p), f >= AdjusterOf(p).height
  PROVE  AdjusterOf(UpTo(p, f)) = AdjusterOf(p)
<1> DEFINE n == Len(p)
           same == [k \in 0..n |->
                      LET a == AdjusterOf(UpTo(p, k))
                      IN /\ a.height <= k
                         /\ a.height <= f /\ k > f => a = AdjusterOf(UpTo(p, f))]
<1>1. n \in Nat /\ n \in 0..MaxHeight /\ f \in Nat /\ UpTo(p, n) = p /\ UpTo(p, 0) = <<>>
  BY HistoryType, UpToNests
<1>2. \A k \in 0..n : UpTo(p, k) \in Histories /\ Len(UpTo(p, k)) = k
  BY UpToIsHistory
<1>3. same[0] \in {TRUE}
  <2>1. UpTo(p, 0) \in Histories /\ 0 \in 0..n
    BY <1>1, <1>2
  <2>2. AdjusterOf(UpTo(p, 0)) = GenesisAdjuster
    BY <1>1, <2>1, AdjusterSteps
  <2>3. AdjusterOf(UpTo(p, 0)).height = 0
    BY <2>2 DEF GenesisAdjuster
  <2> QED
    BY <1>1, <2>1, <2>3
<1>4. ASSUME NEW k \in 1..n, same[k - 1] \in {TRUE} PROVE same[k] \in {TRUE}
  <2> DEFINE q == UpTo(p, k)
             a == AdjusterOf(q)
             c == AdjusterOf(UpTo(p, k - 1))
             base == AdjusterOf(UpTo(p, f))
  <2>1. k \in Nat /\ k - 1 \in Nat /\ k \in 0..n /\ k - 1 \in 0..n /\ k - 1 \in 0..k
    BY <1>1
  <2>2. q \in Histories /\ Len(q) = k /\ UpTo(q, k - 1) = UpTo(p, k - 1)
    BY <1>2, <2>1, UpToNests
  <2>3. a = RecordBlock(c, k, q[k].ts) /\ c \in Adjusters
    <3>1. Len(q) > 0 /\ Len(q) - 1 = k - 1
      BY <2>1, <2>2
    <3>2. UpTo(p, k - 1) \in Histories
      BY <1>2, <2>1
    <3> HIDE DEF q
    <3> QED
      BY <2>2, <3>1, <3>2, AdjusterSteps
  <2>4. /\ c.height <= k - 1
        /\ c.height <= f /\ k - 1 > f => c = base
    BY <1>4, <2>1
  <2>5. c.height \in Nat
    BY <2>3 DEF Adjusters
  <2>6. a = c \/ a.height = k
    BY <2>3 DEF RecordBlock
  <2>7. k - 1 = f => c = base
    OBVIOUS
  <2>8. same[k] = /\ a.height <= k
                  /\ a.height <= f /\ k > f => a = base
    BY <2>1
  <2> HIDE DEF a, c, base, q, same
  <2>9. a.height <= k /\ (a.height <= f /\ k > f => a = base)
    BY <1>1, <2>1, <2>4, <2>5, <2>6, <2>7
  <2> QED
    BY <2>8, <2>9
<1>5. same[n] \in {TRUE}
  <2> DEFINE V == {TRUE}
  <2>1. same[0] \in V /\ \A k \in 1..n : same[k - 1] \in V => same[k] \in V
    BY <1>3, <1>4
  <2> HIDE DEF same, V, n
  <2>2. \A k \in 0..n : same[k] \in V
    BY <1>1, <2>1, RunStaysIn
  <2>3. n \in 0..n
    BY <1>1
  <2> QED
    BY <2>2, <2>3, Zenon DEF V
<1>6. AdjusterOf(p).height <= f /\ n > f => AdjusterOf(p) = AdjusterOf(UpTo(p, f))
  BY <1>1, <1>5
<1>7. AdjusterOf(p).height \in Nat
  BY AdjusterSteps DEF Adjusters
<1>8. n = f \/ n > f
  BY <1>1
<1> QED
  BY <1>1, <1>6, <1>7, <1>8

LEMMA PowerIsPositive == \A n \in Nat : 2^n \in Nat \ {0}
<1> TAKE n \in Nat
<1>1. IsFiniteSet(1..n) /\ Cardinality(1..n) = n
  BY FS_Interval
<1>2. IsFiniteSet(SUBSET (1..n)) /\ Cardinality(SUBSET (1..n)) = 2^n
  BY <1>1, FS_SUBSET
<1>3. Cardinality(SUBSET (1..n)) \in Nat /\ {} \in SUBSET (1..n)
  BY <1>2, FS_CardinalityType
<1>4. Cardinality(SUBSET (1..n)) # 0
  BY <1>2, <1>3, FS_EmptySet
<1> QED
  BY <1>2, <1>3, <1>4

LEMMA WorkType == ASSUME NEW b \in Block PROVE Work(b) \in Nat
<1>1. b.bits \in Nat
  BY ParameterAssumption DEF Block
<1> QED
  BY <1>1, PowerIsPositive DEF Work

\* The sum of a function is that of its values.
LEMMA SumIsSum == ASSUME NEW b PROVE SumFunction(b) = SumOf(b, DOMAIN b)
BY DEF SumFunction, SumFunctionOnSet, FoldFunctionOnSet, SumOf, MapThenSumSet

\* The work of the blocks between two heights of a history.
Works(p, f, k) == [h \in (f + 1)..k |-> Work(p[h])]
WorkBetween(p, f, k) == SumFunction(Works(p, f, k))

LEMMA BetweenType ==
  ASSUME NEW p \in Histories, NEW f \in 0..Len(p), NEW k \in f..Len(p)
  PROVE  /\ WorkBetween(p, f, k) = SumOf(Works(p, f, k), (f + 1)..k)
         /\ Works(p, f, k) \in [(f + 1)..k -> Int]
         /\ WorkBetween(p, f, k) \in Nat
         /\ k = f => WorkBetween(p, f, k) = 0
<1> DEFINE b == Works(p, f, k)
<1>1. Len(p) \in Nat /\ f \in Nat /\ k \in Nat
  BY HistoryType
<1>2. b \in [(f + 1)..k -> Nat]
  <2>1. \A h \in (f + 1)..k : h \in 1..Len(p)
    BY <1>1
  <2>2. \A h \in (f + 1)..k : Work(p[h]) \in Nat
    BY <2>1, HistoryType, WorkType
  <2> QED
    BY <2>2 DEF Works
<1>3. DOMAIN b = (f + 1)..k /\ b \in [(f + 1)..k -> Int] /\ IsFiniteSet((f + 1)..k)
  BY <1>1, <1>2, FS_Interval
<1>4. k = f => \A h \in (f + 1)..k : b[h] = 0
  BY <1>1
<1>5. WorkBetween(p, f, k) = SumFunction(b)
  BY DEF WorkBetween
<1> HIDE DEF b
<1>6. WorkBetween(p, f, k) = SumOf(b, (f + 1)..k)
  BY <1>3, <1>5, SumIsSum
<1>7. WorkBetween(p, f, k) \in Nat /\ (k = f => WorkBetween(p, f, k) = 0)
  BY <1>2, <1>3, <1>4, <1>6, SumIsNumber
<1> QED
  BY <1>3, <1>6, <1>7 DEF b

LEMMA BetweenSteps ==
  ASSUME NEW p \in Histories, NEW f \in 0..Len(p), NEW k \in (f + 1)..Len(p)
  PROVE  WorkBetween(p, f, k) = WorkBetween(p, f, k - 1) + Work(p[k])
<1> DEFINE S == (f + 1)..(k - 1)
           b == Works(p, f, k)
           r == Works(p, f, k - 1)
<1>1. Len(p) \in Nat /\ f \in Nat /\ k \in Nat
  BY HistoryType
<1>2. /\ k \in f..Len(p) /\ k - 1 \in f..Len(p) /\ k \in (f + 1)..k
      /\ (f + 1)..k = S \cup {k} /\ k \notin S /\ S \in SUBSET ((f + 1)..k)
  BY <1>1
<1>3. /\ WorkBetween(p, f, k) = SumOf(b, (f + 1)..k) /\ b \in [(f + 1)..k -> Int]
      /\ WorkBetween(p, f, k - 1) = SumOf(r, S) /\ r \in [S -> Int]
  <2>1. /\ WorkBetween(p, f, k) = SumOf(Works(p, f, k), (f + 1)..k)
        /\ Works(p, f, k) \in [(f + 1)..k -> Int]
    BY <1>2, BetweenType
  <2>2. /\ WorkBetween(p, f, k - 1) = SumOf(Works(p, f, k - 1), (f + 1)..(k - 1))
        /\ Works(p, f, k - 1) \in [(f + 1)..(k - 1) -> Int]
    <3> PICK j : j = k - 1
      OBVIOUS
    <3>1. j \in f..Len(p)
      BY <1>2
    <3>2. /\ WorkBetween(p, f, j) = SumOf(Works(p, f, j), (f + 1)..j)
          /\ Works(p, f, j) \in [(f + 1)..j -> Int]
      BY <3>1, BetweenType
    <3> QED
      BY <3>2
  <2> QED
    BY <2>1, <2>2
<1>4. b[k] = Work(p[k]) /\ \A h \in S : r[h] = b[h]
  BY <1>2 DEF Works
<1>5. IsFiniteSet(S)
  BY <1>1, FS_Interval
<1> HIDE DEF S, b, r
<1>6. b \in [S \cup {k} -> Int]
  BY <1>2, <1>3
<1>7. SumOf(b, S \cup {k}) = SumOf(r, S) + b[k]
  <2>1. k \notin S /\ r \in [S -> Int] /\ \A h \in S : r[h] = b[h]
    BY <1>2, <1>3, <1>4
  <2> QED
    BY <1>5, <1>6, <2>1, SumAdds, Zenon
<1> QED
  BY <1>2, <1>3, <1>4, <1>7

\* The work of a history up to a height.
LEMMA WorkUpTo ==
  ASSUME NEW p \in Histories, NEW k \in 0..Len(p)
  PROVE  WorkOf(UpTo(p, k)) = WorkBetween(p, 0, k) /\ WorkOf(UpTo(p, k)) \in Nat
<1> DEFINE q == UpTo(p, k)
<1>1. q \in Histories /\ Len(q) = k /\ \A h \in 1..k : q[h] = p[h]
  BY UpToIsHistory
<1> HIDE DEF q
<1>2. DOMAIN q = (0 + 1)..k /\ k \in Nat /\ Len(p) \in Nat
  BY <1>1, HistoryType
<1>3. [h \in DOMAIN q |-> Work(q[h])] = Works(p, 0, k)
  BY <1>1, <1>2 DEF Works
<1>4. WorkOf(q) = WorkBetween(p, 0, k)
  BY <1>3 DEF WorkOf, WorkBetween
<1>5. 0 \in 0..Len(p)
  BY <1>2
<1> QED
  BY <1>4, <1>5, BetweenType DEF q

\* One more block adds its work.
LEMMA WorkSteps ==
  ASSUME NEW p \in Histories
  PROVE  /\ WorkOf(p) \in Nat
         /\ p = <<>> => WorkOf(p) = 0
         /\ Len(p) > 0 => WorkOf(p) = WorkOf(UpTo(p, Len(p) - 1)) + Work(p[Len(p)])
<1>1. /\ Len(p) \in Nat /\ (p = <<>> <=> Len(p) = 0) /\ UpTo(p, Len(p)) = p
      /\ Len(p) \in 0..Len(p) /\ 0 \in 0..Len(p)
  BY HistoryType, UpToNests
<1>2. WorkOf(p) = WorkBetween(p, 0, Len(p)) /\ WorkOf(p) \in Nat
  BY <1>1, WorkUpTo
<1>3. p = <<>> => WorkOf(p) = 0
  BY <1>1, <1>2, BetweenType
<1>4. ASSUME Len(p) > 0 PROVE WorkOf(p) = WorkOf(UpTo(p, Len(p) - 1)) + Work(p[Len(p)])
  <2>1. Len(p) \in (0 + 1)..Len(p) /\ Len(p) - 1 \in 0..Len(p)
    BY <1>1, <1>4
  <2>2. WorkBetween(p, 0, Len(p)) = WorkBetween(p, 0, Len(p) - 1) + Work(p[Len(p)])
    BY <1>1, <2>1, BetweenSteps
  <2>3. WorkOf(UpTo(p, Len(p) - 1)) = WorkBetween(p, 0, Len(p) - 1)
    BY <2>1, WorkUpTo
  <2> QED
    BY <1>2, <2>2, <2>3
<1> QED
  BY <1>2, <1>3, <1>4

\* The work of a history is that up to a height and that above it.
LEMMA WorkSplits ==
  ASSUME NEW p \in Histories, NEW f \in 0..Len(p)
  PROVE  WorkOf(p) = WorkOf(UpTo(p, f)) + WorkBetween(p, f, Len(p))
<1> DEFINE n == Len(p) - f
           left == [j \in 0..n |-> WorkBetween(p, 0, f + j)]
           right == [j \in 0..n |-> WorkBetween(p, 0, f) + WorkBetween(p, f, f + j)]
<1>1. Len(p) \in Nat /\ f \in Nat /\ n \in Nat /\ f + n = Len(p) /\ f + 0 = f /\ n \in 0..n
  BY HistoryType
<1>2. 0 \in 0..Len(p) /\ f \in 0..Len(p) /\ f \in f..Len(p)
  BY <1>1
<1>3. WorkBetween(p, 0, f) \in Nat /\ WorkBetween(p, f, f) = 0
  BY <1>2, BetweenType
<1>4. left[0] = right[0]
  BY <1>1, <1>3
<1>5. ASSUME NEW j \in 1..n, left[j - 1] = right[j - 1] PROVE left[j] = right[j]
  <2> DEFINE k == f + j
  <2>1. /\ j \in 0..n /\ j - 1 \in 0..n /\ f + (j - 1) = k - 1
        /\ k \in (f + 1)..Len(p) /\ k \in (0 + 1)..Len(p)
        /\ k - 1 \in f..Len(p) /\ k \in 1..Len(p)
    BY <1>1
  <2>2. /\ left[j] = WorkBetween(p, 0, k) /\ left[j - 1] = WorkBetween(p, 0, k - 1)
        /\ right[j] = WorkBetween(p, 0, f) + WorkBetween(p, f, k)
        /\ right[j - 1] = WorkBetween(p, 0, f) + WorkBetween(p, f, k - 1)
    BY <2>1
  <2> HIDE DEF k, left, right
  <2>3. WorkBetween(p, 0, k) = WorkBetween(p, 0, k - 1) + Work(p[k])
    BY <1>2, <2>1, BetweenSteps
  <2>4. WorkBetween(p, f, k) = WorkBetween(p, f, k - 1) + Work(p[k])
    BY <1>2, <2>1, BetweenSteps
  <2>5. WorkBetween(p, f, k - 1) \in Nat /\ Work(p[k]) \in Nat
    BY <1>2, <2>1, BetweenType, HistoryType, WorkType
  <2> QED
    <3>1. WorkBetween(p, 0, k - 1) = WorkBetween(p, 0, f) + WorkBetween(p, f, k - 1)
      BY <1>5, <2>2
    <3>2. WorkBetween(p, 0, k) = WorkBetween(p, 0, f) + WorkBetween(p, f, k)
      BY <1>3, <2>3, <2>4, <2>5, <3>1
    <3> QED
      BY <2>2, <3>2
<1>6. left[n] = right[n]
  <2> HIDE DEF left, right, n
  <2>1. InStep(left, right, n)
    BY <1>4, <1>5 DEF InStep
  <2> QED
    BY <1>1, <2>1, InStepAgree
<1>7. left[n] = WorkBetween(p, 0, Len(p))
      /\ right[n] = WorkBetween(p, 0, f) + WorkBetween(p, f, Len(p))
  BY <1>1
<1>8. WorkOf(p) = WorkBetween(p, 0, Len(p)) /\ WorkOf(UpTo(p, f)) = WorkBetween(p, 0, f)
  <2>1. UpTo(p, Len(p)) = p /\ Len(p) \in 0..Len(p)
    BY <1>1, UpToNests
  <2> QED
    BY <1>2, <2>1, WorkUpTo
<1> QED
  BY <1>6, <1>7, <1>8

----------------------------------------------------------------------------
(* Observations, blocks and the chains of peers *)

LEMMA TipsAreReal == Tips \in SUBSET (Nat \ {0})
BY ParameterAssumption DEF Tips

LEMMA LiveIsReal ==
  ASSUME NEW o \in Live
  PROVE  o.tip \in Tips /\ o.tip > 0 /\ o \in Observations /\ o # Mock /\ o # NoFetch
<1>1. PICK t \in Tips, c \in CoinbaseReplies, s \in Seconds :
        o = [tip |-> t, utxo |-> CoinbaseEntropy(c), pool |-> StalePool(t, s)]
  BY DEF Live
<1>2. o.tip = t /\ t \in Nat /\ t # 0
  BY <1>1, TipsAreReal
<1>3. o # Mock /\ o # NoFetch
  BY <1>2 DEF Mock, NoFetch
<1> QED
  BY <1>1, <1>2, <1>3 DEF Observations

LEMMA ObservationType ==
  ASSUME NEW o \in Observations \cup {NoFetch}
  PROVE  o.tip \in BtcHeights /\ o.tip \in Nat /\ (o.tip > 0 <=> o \in Live)
<1>1. CASE o \in Live
  BY <1>1, LiveIsReal, TipsAreReal DEF BtcHeights
<1>2. CASE o \in {Mock, NoSeed, NoFetch}
  <2>1. o.tip = 0
    BY <1>2 DEF Mock, NoSeed, NoFetch
  <2>2. o \notin Live
    BY <2>1, LiveIsReal
  <2> QED
    BY <2>1, <2>2 DEF BtcHeights
<1> QED
  BY <1>1, <1>2 DEF Observations

LEMMA SeedOfType ==
  ASSUME NEW p \in Histories
  PROVE  /\ SeedOf(p) \in Observations
         /\ p # <<>> => Governing(Len(p)) \in 1..Len(p) /\ SeedOf(p) = p[Governing(Len(p))].seed
<1>1. CASE p = <<>>
  BY <1>1 DEF SeedOf, Observations
<1>2. CASE p # <<>>
  <2>1. Len(p) \in Nat \ {0}
    BY <1>2, HistoryType
  <2>2. Governing(Len(p)) \in 1..Len(p)
    BY <2>1, GoverningIsCheckpoint
  <2>3. p[Governing(Len(p))] \in Block
    BY <2>2, HistoryType
  <2> QED
    BY <1>2, <2>2, <2>3 DEF SeedOf, Block
<1> QED
  BY <1>1, <1>2

LEMMA BlocksAfterType ==
  ASSUME NEW p \in Histories, NEW seeds \in SUBSET Observations, NEW bits \in MinBits..MaxBits,
         NEW b \in BlocksAfter(p, seeds, bits)
  PROVE  b \in Block /\ b.seed \in seeds
<1>1. PICK s \in seeds, g \in GapsAfter(p) : b = [seed |-> s, ts |-> LastTs(p) + g, bits |-> bits]
  BY DEF BlocksAfter
<1>2. g \in Nat
  BY ParameterAssumption DEF GapsAfter
<1>3. LastTs(p) \in Nat
  <2>1. CASE p = <<>>
    BY <2>1 DEF LastTs
  <2>2. CASE p # <<>>
    <3>1. Len(p) \in 1..Len(p) /\ Last(p) = p[Len(p)]
      BY <2>2, HistoryType DEF Last
    <3>2. Last(p) \in Block
      BY <3>1, HistoryType
    <3> QED
      BY <2>2, <3>2 DEF LastTs, Block
  <2> QED
    BY <2>1, <2>2
<1>4. LastTs(p) + g \in Nat
  BY <1>2, <1>3
<1> QED
  BY <1>1, <1>4 DEF Block

LEMMA SeedsAfterType ==
  ASSUME NEW p, NEW pinned \in Observations, NEW live \in SUBSET Observations
  PROVE  /\ SeedsAfter(p, pinned, live) \in SUBSET Observations
         /\ \A s \in SeedsAfter(p, pinned, live) :
              IF IsCheckpoint(Len(p) + 1) THEN s \in live ELSE s = pinned
BY DEF SeedsAfter

\* A block that honest nodes may put after a history.
Follows(b, p) ==
  b \in Block /\ IF IsCheckpoint(Len(p) + 1) THEN b.seed \in Live ELSE b.seed = SeedOf(p)

LEMMA GrownByType ==
  ASSUME NEW p \in Histories, NEW q \in GrownBy(p)
  PROVE  \E b : Follows(b, p) /\ q = Append(p, b)
<1> DEFINE seeds == SeedsAfter(p, SeedOf(p), Live)
           bits == AdjusterOf(p).bits
<1>1. bits \in MinBits..MaxBits
  BY AdjusterSteps DEF Adjusters
<1>2. Live \in SUBSET Observations /\ SeedOf(p) \in Observations
  BY SeedOfType DEF Observations
<1>3. /\ seeds \in SUBSET Observations
      /\ \A s \in seeds : IF IsCheckpoint(Len(p) + 1) THEN s \in Live ELSE s = SeedOf(p)
  BY <1>2, SeedsAfterType
<1>4. PICK b \in BlocksAfter(p, seeds, bits) : q = Append(p, b)
  BY DEF GrownBy
<1> HIDE DEF seeds, bits
<1>5. b \in Block /\ b.seed \in seeds
  BY <1>1, <1>3, <1>4, BlocksAfterType
<1> QED
  BY <1>3, <1>4, <1>5 DEF Follows

\* Histories to which honest nodes add further ones.
Closed(G) == \A p \in G : \A b : Len(p) < MaxHeight /\ Follows(b, p) => Append(p, b) \in G

\* A peer's chain is as good as the histories it grew from.
LEMMA PeerChainsType ==
  ASSUME NEW G \in SUBSET Histories, Closed(G),
         \A h \in Heights : rows[h].path \in G,
         \A h \in 0..Len(cur.path) : UpTo(cur.path, h) \in G
  PROVE  PeerChains \in SUBSET G
<1> DEFINE bases == {UpTo(cur.path, h) : h \in 0..Height(cur.path)}
                      \cup {rows[h].path : h \in Heights}
           More(s) == UNION {GrownBy(p) : p \in {q \in s : Height(q) < MaxHeight}}
           Growing(f) == [n \in 0..Lead |-> IF n = 0 THEN bases ELSE More(f[n - 1])]
           grown == CHOOSE f : f = Growing(f)
           V == SUBSET G
           op == [x \in V \X (1..Lead) |-> More(x[1])]
<1>1. PeerChains = {p \in UNION {grown[n] : n \in 0..Lead} : WorkOf(p) > cur.work}
  BY DEF PeerChains
<1>2. bases \in V
  BY DEF Height
<1>3. \A s \in V : More(s) \in V
  <2> SUFFICES ASSUME NEW s \in V, NEW p \in s, Len(p) < MaxHeight, NEW q \in GrownBy(p)
               PROVE  q \in G
    BY DEF Height
  <2>1. p \in G /\ p \in Histories
    OBVIOUS
  <2>2. PICK b : Follows(b, p) /\ q = Append(p, b)
    BY <2>1, GrownByType
  <2> QED
    BY <2>1, <2>2 DEF Closed
<1>4. op \in [V \X (1..Lead) -> V] /\ Lead \in Nat
  BY <1>3, ParameterAssumption
<1> HIDE DEF More, bases, V
<1>5. PICK f \in [0..Lead -> V] : Recurs(f, Lead, bases, op)
  <2> HIDE DEF op
  <2> QED
    BY <1>2, <1>4, RecursionOnNumbers
<1>6. \A n \in 1..Lead : f[n - 1] \in V /\ f[n] = More(f[n - 1])
  <2> TAKE n \in 1..Lead
  <2>1. n - 1 \in 0..Lead
    BY <1>4
  <2>2. f[n - 1] \in V
    BY <2>1
  <2> QED
    BY <1>5, <2>2 DEF Recurs
<1>7. f = Growing(f)
  <2>1. \A n \in 0..Lead : f[n] = IF n = 0 THEN bases ELSE More(f[n - 1])
    BY <1>4, <1>5, <1>6 DEF Recurs
  <2> QED
    BY <2>1
<1>8. grown = Growing(grown)
  BY <1>7
<1> HIDE DEF grown
<1>9. grown[0] = bases /\ \A n \in 1..Lead : grown[n] = More(grown[n - 1])
  BY <1>4, <1>8
<1>10. \A n \in 0..Lead : grown[n] \in V
  <2>1. grown[0] \in V /\ \A n \in 1..Lead : grown[n - 1] \in V => grown[n] \in V
    BY <1>2, <1>3, <1>9
  <2> QED
    BY <1>4, <2>1, RunStaysIn
<1> QED
  BY <1>1, <1>10 DEF V

----------------------------------------------------------------------------
(* Types of what the actions make *)

LEMMA RowType ==
  ASSUME TypeOK, NEW h \in Heights
  PROVE  /\ rows[h].path \in Histories /\ rows[h].btc \in BtcHeights /\ rows[h].btc \in Nat
         /\ rows[h] # NoRow <=> rows[h].path # <<>>
         /\ rows[h].btc > 0 => rows[h].path # <<>>
         /\ rows[h].path # <<>> => /\ Len(rows[h].path) = h
                                   /\ Last(rows[h].path) = rows[h].path[h]
                                   /\ rows[h].path[h] \in Block
<1>1. rows[h] \in Rows /\ Len(rows[h].path) \in {0, h} /\ h \in Nat \ {0}
  BY ParameterAssumption DEF TypeOK, Heights, Height
<1>2. /\ rows[h].path \in Histories /\ rows[h].btc \in BtcHeights
      /\ rows[h].path = <<>> <=> rows[h] = NoRow
  BY <1>1 DEF Rows, NoRow
<1>3. rows[h].btc \in Nat /\ NoRow.btc = 0
  <2>1. \A t \in BtcHeights : t \in Nat
    BY TipsAreReal DEF BtcHeights
  <2> QED
    BY <1>2, <2>1 DEF NoRow
<1>4. ASSUME rows[h].path # <<>>
      PROVE  /\ Len(rows[h].path) = h /\ Last(rows[h].path) = rows[h].path[h]
             /\ rows[h].path[h] \in Block
  <2>1. Len(rows[h].path) = h
    BY <1>1, <1>2, <1>4, HistoryType
  <2>2. h \in 1..Len(rows[h].path)
    BY <1>1, <2>1
  <2> QED
    BY <1>2, <2>1, <2>2, HistoryType DEF Last
<1> QED
  BY <1>2, <1>3, <1>4

\* A block put in the store, and a store cut above a height.
IsStore(r) == r \in [Heights -> Rows] /\ \A h \in Heights : Height(r[h].path) \in {0, h}
RowAt(r, n, p, btc) ==
  \A h \in Heights : r[h] = IF h = n THEN [path |-> p, btc |-> btc] ELSE rows[h]

LEMMA NewRowType ==
  ASSUME TypeOK, NEW p \in Histories, NEW n, Len(p) = n, n > 0, NEW btc \in BtcHeights, NEW r,
         r = [rows EXCEPT ![n] = [path |-> p, btc |-> btc]]
  PROVE  IsStore(r) /\ RowAt(r, n, p, btc)
<1>1. n \in Heights /\ p # <<>>
  BY HistoryType DEF Heights
<1>2. rows \in [Heights -> Rows] /\ \A h \in Heights : Height(rows[h].path) \in {0, h}
  BY DEF TypeOK
<1>3. [path |-> p, btc |-> btc] \in Rows
  BY <1>1 DEF Rows
<1>4. \A h \in Heights : r[h] = IF h = n THEN [path |-> p, btc |-> btc] ELSE rows[h]
  BY <1>2
<1>5. r \in [Heights -> Rows]
  BY <1>2, <1>3
<1>6. \A h \in Heights : Height(r[h].path) \in {0, h}
  BY <1>2, <1>4 DEF Height
<1> QED
  BY <1>4, <1>5, <1>6 DEF IsStore, RowAt

LEMMA CutRowsType ==
  ASSUME TypeOK, NEW f, NEW r, r = [h \in Heights |-> IF h <= f THEN rows[h] ELSE NoRow]
  PROVE  IsStore(r)
<1>1. rows \in [Heights -> Rows] /\ \A h \in Heights : Height(rows[h].path) \in {0, h}
  BY DEF TypeOK
<1>2. <<>> \in Histories
  BY ParameterAssumption DEF Histories, Height
<1>3. NoRow \in Rows /\ Height(NoRow.path) = 0
  BY <1>2 DEF Rows, NoRow, BtcHeights, Height
<1> QED
  BY <1>1, <1>3 DEF IsStore

LEMMA StartsEmpty ==
  /\ <<>> \in Histories /\ NoRow \in Rows /\ Height(<<>>) = 0
  /\ GenesisPoint \in Points /\ Published(GenesisPoint) \in States
  /\ GenesisPoint.path = <<>> /\ Published(GenesisPoint).path = <<>>
<1>1. <<>> \in Histories /\ Height(<<>>) = 0
  BY ParameterAssumption DEF Histories, Height
<1>2. NoRow \in Rows
  BY <1>1 DEF Rows, NoRow, BtcHeights
<1>3. GenesisPoint \in Points
  BY <1>1, GenesisType DEF GenesisPoint, Point, Points, Observations, BtcHeights
<1>4. Published(GenesisPoint) \in States
  BY <1>3, GenesisType DEF Published, States, Points, GenesisPoint, Point, Adjusters
<1> QED
  BY <1>1, <1>2, <1>3, <1>4 DEF GenesisPoint, Point, Published

LEMMA PublishedType ==
  ASSUME NEW point \in Points
  PROVE  Published(point) \in States /\ Published(point).path = point.path
BY DEF Points, Published, States, Adjusters

\* The newest row with a Bitcoin height exists if any does.
LEMMA LatestExists ==
  ASSUME TypeOK, PinnedRows # {}
  PROVE  /\ Max(PinnedRows) \in Heights /\ LatestCheckpoint.btc > 0
<1>1. PinnedRows \in SUBSET (1..MaxHeight) /\ MaxHeight \in Nat
  BY ParameterAssumption DEF PinnedRows, Heights
<1>2. Max(PinnedRows) \in PinnedRows
  BY <1>1, LastPosition
<1> QED
  BY <1>1, <1>2 DEF PinnedRows, LatestCheckpoint, Heights
----------------------------------------------------------------------------
(* What the actions make: claims, records of a peer, elections, rollbacks *)

LEMMA KeepFirstAdds ==
  ASSUME NEW claims, NEW c
  PROVE  \A d \in KeepFirst(claims, c) : d \in claims \/ d = c
BY DEF KeepFirst

LEMMA ClaimType ==
  ASSUME NEW p \in Histories, NEW b \in Block, Len(p) < MaxHeight, NEW own \in BOOLEAN
  PROVE  [path |-> Append(p, b), own |-> own] \in Claims
BY AppendIsHistory DEF Claims

\* A claim of this node, and one of another miner.
LEMMA MineAdds ==
  ASSUME TypeOK, NEW seed \in Observations, MineWith(seed), Height(cur.path) < MaxMined
  PROVE  \E b \in Block :
           /\ Len(cur.path) < MaxHeight /\ b.seed = seed
           /\ pending' = KeepFirst(pending, [path |-> Append(cur.path, b), own |-> TRUE])
<1>1. /\ cur.path \in Histories /\ cur.adj.bits \in MinBits..MaxBits
      /\ {seed} \in SUBSET Observations
  BY DEF TypeOK, Points, Adjusters
<1>2. Len(cur.path) < MaxHeight
  BY <1>1, HistoryType, ParameterAssumption DEF Height
<1>3. PICK b \in BlocksAfter(cur.path, {seed}, cur.adj.bits) :
        pending' = KeepFirst(pending, [path |-> Append(cur.path, b), own |-> TRUE])
  BY DEF MineWith
<1>4. b \in Block /\ b.seed \in {seed}
  BY <1>1, <1>3, BlocksAfterType
<1> QED
  BY <1>2, <1>3, <1>4

LEMMA PeerClaimAdds ==
  ASSUME TypeOK, PeerClaim
  PROVE  \E b \in Block :
           /\ Len(st.path) < MaxHeight
           /\ IF IsCheckpoint(Len(st.path) + 1)
                THEN b.seed \in Live /\ Plausible(b.seed, st.btc, obs.tip)
                ELSE b.seed = st.seed
           /\ pending' = KeepFirst(pending, [path |-> Append(st.path, b), own |-> FALSE])
<1> DEFINE seeds == SeedsAfter(st.path, st.seed, Live)
<1>1. /\ st.path \in Histories /\ st.bits \in MinBits..MaxBits /\ st.seed \in Observations
      /\ Live \in SUBSET Observations
  BY DEF TypeOK, States, Observations
<1>2. Len(st.path) < MaxHeight
  BY <1>1, HistoryType, ParameterAssumption DEF Height, PeerClaim
<1>3. /\ seeds \in SUBSET Observations
      /\ \A s \in seeds : IF IsCheckpoint(Len(st.path) + 1) THEN s \in Live ELSE s = st.seed
  BY <1>1, SeedsAfterType
<1>4. PICK b \in BlocksAfter(st.path, seeds, st.bits) :
        /\ IsCheckpoint(Len(st.path) + 1) => Plausible(b.seed, st.btc, obs.tip)
        /\ pending' = KeepFirst(pending, [path |-> Append(st.path, b), own |-> FALSE])
  BY DEF PeerClaim, Height
<1> HIDE DEF seeds
<1>5. b \in Block /\ b.seed \in seeds
  BY <1>1, <1>3, <1>4, BlocksAfterType
<1> QED
  BY <1>2, <1>3, <1>4, <1>5

LEMMA HistoriesGrow == Closed(Histories)
BY AppendIsHistory DEF Closed, Follows

LEMMA PeerChainsAreHistories ==
  ASSUME TypeOK
  PROVE  PeerChains \in SUBSET Histories
<1>1. \A h \in Heights : rows[h].path \in Histories
  BY RowType
<1>2. \A h \in 0..Len(cur.path) : UpTo(cur.path, h) \in Histories
  BY UpToIsHistory DEF TypeOK, Points
<1> QED
  BY <1>1, <1>2, HistoriesGrow, PeerChainsType

LEMMA SyncedType ==
  ASSUME TypeOK, Accepts, NEW n, n = Len(cur.path) + 1
  PROVE  /\ n \in 1..Len(peer) /\ n \in Heights /\ Len(cur.path) \in 0..Len(peer)
         /\ UpTo(peer, n) \in Histories /\ Len(UpTo(peer, n)) = n
         /\ peer[n] \in Block /\ UpTo(peer, n)[n] = peer[n]
         /\ UpTo(peer, n - 1) = cur.path /\ n - 1 = Len(cur.path)
         /\ UpTo(UpTo(peer, n), n - 1) = cur.path
         /\ ~IsCheckpoint(n) => peer[n].seed = cur.seed
         /\ SeedOf(UpTo(peer, n)).tip \in BtcHeights
         /\ Synced \in Points /\ Synced.path = UpTo(peer, n)
<1>1. peer \in Histories /\ cur \in Points /\ cur.path \in Histories
  BY DEF TypeOK, Points
<1>2. /\ n <= Len(peer) /\ UpTo(peer, n - 1) = cur.path
      /\ ~IsCheckpoint(n) => peer[n].seed = cur.seed
  BY DEF Accepts, Height
<1>3. Len(cur.path) \in Nat /\ Len(peer) \in 0..MaxHeight /\ MaxHeight \in Nat
  BY <1>1, HistoryType, ParameterAssumption
<1>4. /\ n \in 1..Len(peer) /\ n \in Heights /\ n \in 0..MaxHeight /\ n - 1 = Len(cur.path)
      /\ Len(cur.path) \in 0..Len(peer) /\ n \in 0..Len(peer) /\ n - 1 \in 0..n
  <2>1. n \in Nat /\ n > 0 /\ n - 1 = Len(cur.path) /\ Len(peer) \in Nat /\ n <= MaxHeight
    BY <1>2, <1>3
  <2> QED
    BY <1>2, <1>3, <2>1 DEF Heights
<1>5. /\ UpTo(peer, n) \in Histories /\ Len(UpTo(peer, n)) = n /\ UpTo(peer, n)[n] = peer[n]
  BY <1>1, <1>4, UpToIsHistory
<1>6. UpTo(UpTo(peer, n), n - 1) = cur.path
  BY <1>1, <1>2, <1>4, UpToNests
<1>7. peer[n] \in Block
  BY <1>1, <1>4, HistoryType
<1>8. SeedOf(UpTo(peer, n)).tip \in BtcHeights
  BY <1>5, SeedOfType, ObservationType
<1>9. RecordBlock(cur.adj, n, peer[n].ts) \in Adjusters
  BY <1>1, <1>4, <1>7, RecordBlockType DEF Points, Block
<1>10. cur.work + Work(peer[n]) \in Nat
  BY <1>1, <1>7, WorkType DEF Points
<1>11. peer[n].seed \in Observations
  BY <1>7 DEF Block
<1>12. Synced \in Points /\ Synced.path = UpTo(peer, n)
  BY <1>1, <1>5, <1>8, <1>9, <1>10, <1>11 DEF Synced, Point, Points, Height
<1> QED
  BY <1>2, <1>4, <1>5, <1>6, <1>7, <1>8, <1>12

LEMMA ExtendedType ==
  ASSUME TypeOK, NEW c \in pending, NEW n, n = Len(cur.path) + 1, Height(c.path) = n
  PROVE  /\ c.path \in Histories /\ Len(c.path) = n /\ n > 0 /\ n \in Heights
         /\ n - 1 \in 0..Len(c.path) /\ n - 1 = Len(cur.path) /\ n \in Nat
         /\ Last(c.path) = c.path[n] /\ Last(c.path) \in Block
         /\ PinnedHeight(c, n) \in BtcHeights
         /\ Extended(c) \in Points /\ Extended(c).path = c.path
<1>1. /\ c \in Claims /\ cur \in Points /\ cur.path \in Histories /\ c.path \in Histories
      /\ st \in States
  BY DEF TypeOK, Claims, Points
<1>2. /\ Len(cur.path) \in Nat /\ Len(c.path) \in 0..MaxHeight /\ Len(c.path) = n
      /\ MaxHeight \in Nat
  BY <1>1, HistoryType, ParameterAssumption DEF Height
<1>3. /\ n > 0 /\ n \in Heights /\ n - 1 \in 0..Len(c.path) /\ n - 1 = Len(cur.path)
      /\ n \in 0..MaxHeight /\ n \in 1..Len(c.path) /\ n \in Nat
  <2>1. n \in Nat /\ n > 0 /\ n - 1 = Len(cur.path) /\ n <= MaxHeight
    BY <1>2
  <2> QED
    BY <1>2, <2>1 DEF Heights
<1>4. Last(c.path) = c.path[n] /\ Last(c.path) \in Block
  BY <1>1, <1>2, <1>3, HistoryType DEF Last
<1>5. Last(c.path).seed \in Observations
  BY <1>4 DEF Block
<1>6. PinnedHeight(c, n) \in BtcHeights
  BY <1>1, <1>5, ObservationType DEF PinnedHeight, States
<1>7. RecordBlock(cur.adj, n, Last(c.path).ts) \in Adjusters
  BY <1>1, <1>3, <1>4, RecordBlockType DEF Points, Block
<1>8. cur.work + Work(Last(c.path)) \in Nat
  BY <1>1, <1>4, WorkType DEF Points
<1>9. Extended(c) \in Points /\ Extended(c).path = c.path
  BY <1>1, <1>5, <1>7, <1>8 DEF Extended, Point, Points, Height
<1> QED
  BY <1>1, <1>2, <1>3, <1>4, <1>6, <1>9

\* What a rollback finds, whatever the chain.
LEMMA RolledBackType ==
  ASSUME TypeOK, NEW p \in PeerChains, NEW f \in ForkPoints(p), rows[Governing(f)] # NoRow
  PROVE  /\ f \in 1..(Len(cur.path) - 1) /\ f \in Heights /\ f \in 0..Len(cur.path)
         /\ Governing(f) \in 1..f /\ Governing(f) \in Heights
         /\ Governing(f) \in 1..Len(cur.path) /\ IsCheckpoint(Governing(f))
         /\ RolledBack(f) \in Points /\ RolledBack(f).path = rows[f].path
<1>1. /\ cur \in Points /\ cur.path \in Histories /\ Len(cur.path) \in 0..MaxHeight
      /\ Len(cur.path) \in Nat /\ MaxHeight \in Nat
  BY HistoryType, ParameterAssumption DEF TypeOK, Points
<1>2. ProbeFloor \in Nat
  <2>1. Len(cur.path) - (EpochSize - 1) \in Int
    BY <1>1, ParameterAssumption
  <2> QED
    BY <2>1, MaxOfTwo DEF ProbeFloor, Height
<1>3. /\ f \in (ProbeFloor + 1)..(Len(cur.path) - 1)
      /\ \A h \in (f + 1)..Len(cur.path) : rows[h] # NoRow
  BY DEF ForkPoints, Height
<1>4. f \in 1..(Len(cur.path) - 1) /\ f \in Heights /\ f \in 0..Len(cur.path) /\ f \in Nat \ {0}
  BY <1>1, <1>2, <1>3 DEF Heights
<1>5. Governing(f) \in 1..f /\ IsCheckpoint(Governing(f))
  BY <1>4, GoverningIsCheckpoint
<1>6. Governing(f) \in Heights /\ Governing(f) \in 1..Len(cur.path)
  BY <1>1, <1>4, <1>5 DEF Heights
<1>7. WorkAbove(f) \in Int
  <2> DEFINE D == (f + 1)..Len(cur.path)
             b == [h \in D |-> Work(Last(rows[h].path))]
  <2>1. \A h \in D : Work(Last(rows[h].path)) \in Int
    <3> TAKE h \in D
    <3>1. h \in Heights /\ rows[h] # NoRow
      BY <1>1, <1>3, <1>4 DEF Heights
    <3>2. Last(rows[h].path) \in Block
      BY <3>1, RowType
    <3> QED
      BY <3>2, WorkType
  <2>2. b \in [D -> Int] /\ DOMAIN b = D
    BY <2>1
  <2>3. IsFiniteSet(D)
    BY <1>1, <1>4, FS_Interval
  <2>4. WorkAbove(f) = SumFunction(b)
    BY DEF WorkAbove, Height
  <2> HIDE DEF b, D
  <2> QED
    BY <2>2, <2>3, <2>4, SumIsSum, SumIsNumber
<1>8. Max({0, cur.work - WorkAbove(f)}) \in Nat
  BY <1>1, <1>7, MaxOfTwo DEF Points
<1>9. Last(rows[Governing(f)].path).seed \in Observations /\ rows[Governing(f)].btc \in BtcHeights
  BY <1>6, RowType DEF Block
<1>10. RolledBack(f) \in Points /\ RolledBack(f).path = rows[f].path
  BY <1>1, <1>4, <1>8, <1>9, RowType DEF RolledBack, Points
<1> QED
  BY <1>4, <1>5, <1>6, <1>10
----------------------------------------------------------------------------
(* Types *)

LEMMA FoundedInit == Init => Founded
<1> SUFFICES ASSUME Init PROVE Founded
  OBVIOUS
<1>1. IsStore(rows)
  BY StartsEmpty DEF Init, NoRow, IsStore
<1>2. /\ st \in States /\ saved \in Points /\ cur \in Points /\ peer \in Histories
      /\ st.path = cur.path
  BY StartsEmpty DEF Init
<1>3. RowsPin
  BY DEF Init, RowsPin, NoRow
<1>4. TypeOK
  <2>1. won \in BtcHeights /\ crashes \in 0..MaxCrashes /\ obs \in Live \cup {Mock}
    BY ParameterAssumption DEF Init, BtcHeights
  <2>2. fetched \in [{"task", "observer"} -> Live \cup {Mock, NoFetch}]
    BY DEF Init
  <2> QED
    BY <1>1, <1>2, <2>1, <2>2 DEF Init, TypeOK, IsStore
<1> QED
  BY <1>2, <1>3, <1>4 DEF Founded, TipIsPublished, FetchHasCome, DownHasNoClaims, Init

\* An action that leaves the store keeps what its rows pin.
LEMMA FoundedKeepsRows ==
  ASSUME Founded, UNCHANGED rows
  PROVE  RowsPin' /\ IsStore(rows')
BY DEF Founded, RowsPin, TypeOK, IsStore

LEMMA FoundedStart == ASSUME Founded, Start PROVE Founded'
<1>1. TypeOK /\ RowsPin' /\ IsStore(rows')
  BY FoundedKeepsRows DEF Founded, Start
<1>2. saved \in Points
  BY <1>1 DEF TypeOK
<1>3. cur' \in Points /\ cur'.path = saved.path
  <2>1. CASE Restores
    <3>1. cur' = [saved EXCEPT !.seed = Last(LatestCheckpoint.path).seed, !.btc = LatestCheckpoint.btc]
      BY <2>1 DEF Start
    <3>2. Max(PinnedRows) \in Heights /\ rows[Max(PinnedRows)].btc > 0
      BY <1>1, <2>1, LatestExists DEF Restores, LatestCheckpoint
    <3>3. /\ LatestCheckpoint.btc \in BtcHeights
          /\ Last(LatestCheckpoint.path).seed \in Observations
      BY <1>1, <3>2, RowType DEF LatestCheckpoint, Block
    <3> QED
      BY <1>2, <3>1, <3>3 DEF Points
  <2>2. CASE ~Restores
    BY <1>2, <2>2 DEF Start
  <2> QED
    BY <2>1, <2>2
<1>4. st' \in States /\ st'.path = cur'.path
  BY <1>3, PublishedType DEF Start
<1>5. obs' \in Live \cup {Mock}
  BY DEF Start, FetchBtc
<1>6. {strayed', elsewhere', blinded'} \subseteq BOOLEAN
  BY <1>1 DEF Start, TypeOK
<1>7. TypeOK'
  BY <1>1, <1>2, <1>3, <1>4, <1>5, <1>6 DEF IsStore, TypeOK, Start
<1> QED
  BY <1>1, <1>4, <1>7 DEF Founded, TipIsPublished, FetchHasCome, DownHasNoClaims, Start

LEMMA FoundedCrash == ASSUME Founded, Crash PROVE Founded'
<1>1. TypeOK /\ RowsPin' /\ IsStore(rows')
  BY FoundedKeepsRows DEF Founded, Crash, disk
<1>2. crashes' \in 0..MaxCrashes
  BY <1>1, ParameterAssumption DEF Crash, TypeOK
<1>3. TypeOK'
  BY <1>1, <1>2, StartsEmpty DEF IsStore, TypeOK, Crash, disk, flags, BtcHeights
<1> QED
  BY <1>1, <1>3, StartsEmpty DEF Founded, TipIsPublished, FetchHasCome, DownHasNoClaims, Crash

\* What the two handlers of fetches write.
LEMMA WritesType ==
  ASSUME TypeOK, NEW who \in {"task", "observer"}, Writes(who), fetched[who] # NoFetch
  PROVE  /\ obs' \in Live \cup {Mock} /\ blinded' \in BOOLEAN
         /\ fetched' \in [{"task", "observer"} -> Live \cup {Mock, NoFetch}]
         /\ \A w \in {"task", "observer"} : fetched'[w] = IF w = who THEN NoFetch ELSE fetched[w]
BY DEF TypeOK, Writes

LEMMA FoundedObserver == ASSUME Founded, Observer PROVE Founded'
<1>1. TypeOK /\ RowsPin' /\ IsStore(rows')
  BY FoundedKeepsRows DEF Founded, Observer, ObserverFetches, ObserverWrites, disk
<1>2. CASE ObserverFetches
  <2>1. /\ fetched' \in [{"task", "observer"} -> Live \cup {Mock, NoFetch}]
        /\ fetched'.task = fetched.task
    BY <1>1, <1>2 DEF ObserverFetches, FetchBtc, TypeOK
  <2>2. TypeOK'
    BY <1>1, <1>2, <2>1 DEF IsStore, TypeOK, ObserverFetches, disk, flags
  <2> QED
    BY <1>1, <1>2, <2>1, <2>2 DEF Founded, TipIsPublished, FetchHasCome, DownHasNoClaims, ObserverFetches
<1>3. CASE ObserverWrites
  <2>1. /\ obs' \in Live \cup {Mock} /\ blinded' \in BOOLEAN
        /\ fetched' \in [{"task", "observer"} -> Live \cup {Mock, NoFetch}]
        /\ fetched'["task"] = fetched["task"]
    BY <1>1, <1>3, WritesType DEF ObserverWrites
  <2>2. TypeOK'
    BY <1>1, <1>3, <2>1 DEF IsStore, TypeOK, ObserverWrites, disk
  <2> QED
    BY <1>1, <1>3, <2>1, <2>2 DEF Founded, TipIsPublished, FetchHasCome, DownHasNoClaims, ObserverWrites
<1> QED
  BY <1>2, <1>3 DEF Observer

\* The claims after one was added have their types.
LEMMA ClaimsType ==
  ASSUME TypeOK, NEW p \in Histories, NEW b \in Block, Len(p) < MaxHeight, NEW own \in BOOLEAN,
         pending' = KeepFirst(pending, [path |-> Append(p, b), own |-> own])
  PROVE  \A c \in pending' : c \in Claims
<1>1. \A c \in pending' : c \in pending \/ c = [path |-> Append(p, b), own |-> own]
  BY KeepFirstAdds
<1>2. [path |-> Append(p, b), own |-> own] \in Claims
  BY ClaimType
<1> QED
  BY <1>1, <1>2 DEF TypeOK

LEMMA FoundedClaim == ASSUME Founded, PeerClaim PROVE Founded'
<1>1. TypeOK /\ RowsPin' /\ IsStore(rows')
  BY FoundedKeepsRows DEF Founded, PeerClaim, disk
<1>2. \A c \in pending' : c \in Claims
  BY <1>1, PeerClaimAdds, ClaimsType DEF TypeOK, States
<1>3. TypeOK'
  BY <1>1, <1>2 DEF IsStore, TypeOK, PeerClaim, disk, flags
<1> QED
  BY <1>1, <1>3 DEF Founded, TipIsPublished, FetchHasCome, DownHasNoClaims, PeerClaim

\* The actions that only move the task or choose a peer.
LEMMA FoundedChoices ==
  ASSUME Founded, CatchUp \/ SyncEnd \/ ReconcileForward \/ SkipReconcile \/ RetryFetch \/ FetchCheckpoint
  PROVE  Founded'
<1>1. /\ UNCHANGED <<rows, saved, st, obs, pending, cur, won, crashes, flags>>
      /\ pc' \in {"mine", "sync", "fetch"} /\ pc \notin {"stored", "saved"}
  BY DEF CatchUp, SyncEnd, ReconcileForward, SkipReconcile, RetryFetch, FetchCheckpoint, disk
<1>2. TypeOK /\ RowsPin' /\ IsStore(rows')
  BY <1>1, FoundedKeepsRows DEF Founded
<1>3. peer' \in Histories
  BY <1>2, PeerChainsAreHistories, StartsEmpty
     DEF TypeOK, CatchUp, SyncEnd, ReconcileForward, SkipReconcile, RetryFetch, FetchCheckpoint
<1>4. /\ fetched' \in [{"task", "observer"} -> Live \cup {Mock, NoFetch}]
      /\ pc' = "fetch" => /\ fetched'.task # NoFetch /\ Height(cur.path) < MaxMined
                          /\ IsCheckpoint(Height(cur.path) + 1)
  <2>1. CASE FetchCheckpoint
    <3>1. PICK fresh \in FetchBtc(obs) : fetched' = [fetched EXCEPT !.task = fresh]
      BY <2>1 DEF FetchCheckpoint
    <3>2. fresh \in Live \cup {Mock} /\ Mock # NoFetch
      BY <1>2, <3>1 DEF FetchBtc, TypeOK, Mock, NoFetch
    <3>3. fresh # NoFetch
      BY <3>2, LiveIsReal
    <3> QED
      BY <1>2, <2>1, <3>1, <3>2, <3>3 DEF TypeOK, FetchCheckpoint
  <2>2. CASE RetryFetch
    BY <1>2, <2>2 DEF TypeOK, RetryFetch
  <2>3. CASE CatchUp \/ SyncEnd \/ ReconcileForward \/ SkipReconcile
    BY <1>2, <2>3 DEF TypeOK, CatchUp, SyncEnd, ReconcileForward, SkipReconcile
  <2> QED
    BY <2>1, <2>2, <2>3
<1>5. TypeOK'
  BY <1>1, <1>2, <1>3, <1>4 DEF IsStore, TypeOK, flags
<1> QED
  BY <1>1, <1>2, <1>4, <1>5 DEF Founded, TipIsPublished, FetchHasCome, DownHasNoClaims

LEMMA FoundedSyncRecord == ASSUME Founded, SyncRecord PROVE Founded'
<1> DEFINE n == Len(cur.path) + 1
           p == UpTo(peer, n)
<1>1. TypeOK /\ RowsPin /\ Accepts
  BY DEF Founded, SyncRecord
<1>2. /\ n \in Heights /\ p \in Histories /\ Len(p) = n /\ n > 0 /\ n \in Nat \ {0}
      /\ SeedOf(p).tip \in BtcHeights /\ Synced \in Points /\ Synced.path = p
  <2>1. n = Len(cur.path) + 1
    OBVIOUS
  <2> HIDE DEF n
  <2>2. /\ n \in Heights /\ p \in Histories /\ Len(p) = n
        /\ SeedOf(p).tip \in BtcHeights /\ Synced \in Points /\ Synced.path = p
    BY <1>1, <2>1, SyncedType
  <2> QED
    BY <2>2, ParameterAssumption DEF Heights
<1>3. /\ rows' = [rows EXCEPT ![n] = [path |-> p, btc |-> SeedOf(p).tip]]
      /\ cur' = Synced /\ st' = Published(Synced) /\ pending' = RetainAbove(pending, n)
  BY <1>2 DEF SyncRecord, Height
<1> HIDE DEF p
<1>4. IsStore(rows') /\ RowAt(rows', n, p, SeedOf(p).tip)
  <2> DEFINE btc == SeedOf(p).tip
  <2>1. btc \in BtcHeights /\ rows' = [rows EXCEPT ![n] = [path |-> p, btc |-> btc]]
    BY <1>2, <1>3
  <2> HIDE DEF btc
  <2> QED
    BY <1>1, <1>2, <2>1, NewRowType DEF btc
<1>5. IsCheckpoint(n) => SeedOf(p).tip = p[n].seed.tip
  BY <1>2, GoverningIsCheckpoint, SeedOfType, HistoryType
<1>6. RowsPin'
  BY <1>1, <1>4, <1>5 DEF RowsPin, RowAt
<1>7. st' \in States /\ st'.path = cur'.path
  BY <1>2, <1>3, PublishedType
<1>8. \A c \in pending' : c \in Claims
  BY <1>1, <1>3 DEF RetainAbove, TypeOK
<1>9. TypeOK'
  BY <1>1, <1>2, <1>3, <1>4, <1>7, <1>8 DEF IsStore, TypeOK, SyncRecord, flags
<1> QED
  BY <1>6, <1>7, <1>9 DEF Founded, TipIsPublished, FetchHasCome, DownHasNoClaims, SyncRecord

LEMMA FoundedRollBack == ASSUME Founded, RollBack PROVE Founded'
<1>1. TypeOK /\ RowsPin
  BY DEF Founded
<1>2. PICK p \in PeerChains : \E f \in ForkPoints(p) :
        /\ rows[Governing(f)] # NoRow
        /\ rows' = [h \in Heights |-> IF h <= f THEN rows[h] ELSE NoRow]
        /\ cur' = RolledBack(f)
        /\ st' = [Published(RolledBack(f)) EXCEPT !.bits = st.bits]
        /\ pending' = RetainAbove(pending, f) /\ peer' = p
  BY DEF RollBack
<1>3. PICK f \in ForkPoints(p) :
        /\ rows[Governing(f)] # NoRow
        /\ rows' = [h \in Heights |-> IF h <= f THEN rows[h] ELSE NoRow]
        /\ cur' = RolledBack(f)
        /\ st' = [Published(RolledBack(f)) EXCEPT !.bits = st.bits]
        /\ pending' = RetainAbove(pending, f) /\ peer' = p
  BY <1>2
<1>4. RolledBack(f) \in Points
  BY <1>1, <1>3, RolledBackType
<1>5. st' \in States /\ st'.path = cur'.path
  BY <1>1, <1>3, <1>4, PublishedType DEF TypeOK, States
<1>6. IsStore(rows')
  BY <1>1, <1>3, CutRowsType
<1>7. RowsPin'
  BY <1>1, <1>3 DEF RowsPin, NoRow
<1>8. \A c \in pending' : c \in Claims
  BY <1>1, <1>3 DEF RetainAbove, TypeOK
<1>9. peer' \in Histories
  BY <1>1, <1>3, PeerChainsAreHistories
<1>10. TypeOK'
  BY <1>1, <1>3, <1>4, <1>5, <1>6, <1>8, <1>9 DEF IsStore, TypeOK, RollBack, flags
<1> QED
  BY <1>5, <1>7, <1>10 DEF Founded, TipIsPublished, FetchHasCome, DownHasNoClaims, RollBack

LEMMA FoundedMine == ASSUME Founded, Mine \/ MineCheckpoint PROVE Founded'
<1>1. TypeOK /\ RowsPin' /\ IsStore(rows')
  BY FoundedKeepsRows DEF Founded, Mine, MineCheckpoint, disk
<1>2. /\ Height(cur.path) < MaxMined /\ pc' = "grace" /\ pc \notin {"stored", "saved"}
      /\ UNCHANGED <<rows, saved, cur, won, peer, crashes, strayed, elsewhere>>
      /\ st' = [st EXCEPT !.bits = cur.adj.bits]
  BY DEF Mine, MineCheckpoint, MineWith, Founded, FetchHasCome, disk, flags
<1>3. PICK seed \in Observations : MineWith(seed)
  <2>1. CASE Mine
    BY <1>1, <2>1 DEF Mine, TypeOK, Points
  <2>2. CASE MineCheckpoint
    <3>1. fetched.task # NoFetch /\ fetched.task \in Live \cup {Mock, NoFetch}
      BY <1>1, <2>2 DEF Founded, FetchHasCome, DownHasNoClaims, MineCheckpoint, TypeOK
    <3>2. fetched.task \in Observations
      BY <3>1 DEF Observations
    <3> QED
      BY <2>2, <3>2 DEF MineCheckpoint
  <2> QED
    BY <2>1, <2>2
<1>4. PICK b \in Block :
        /\ Len(cur.path) < MaxHeight /\ b.seed = seed
        /\ pending' = KeepFirst(pending, [path |-> Append(cur.path, b), own |-> TRUE])
  BY <1>1, <1>2, <1>3, MineAdds
<1>5. \A c \in pending' : c \in Claims
  BY <1>1, <1>4, ClaimsType DEF TypeOK, Points
<1>6. st' \in States /\ st'.path = st.path
  BY <1>1, <1>2 DEF TypeOK, States, Points, Adjusters
<1>7. /\ obs' \in Live \cup {Mock} /\ blinded' \in BOOLEAN
      /\ fetched' \in [{"task", "observer"} -> Live \cup {Mock, NoFetch}]
  <2>1. CASE Mine
    BY <1>1, <2>1 DEF Mine, TypeOK, flags
  <2>2. CASE MineCheckpoint
    BY <1>1, <2>2, WritesType DEF MineCheckpoint, Founded, FetchHasCome, DownHasNoClaims
  <2> QED
    BY <2>1, <2>2
<1>8. TypeOK'
  BY <1>1, <1>2, <1>5, <1>6, <1>7 DEF IsStore, TypeOK
<1>9. TipIsPublished'
  BY <1>2, <1>6 DEF TipIsPublished, Founded
<1> QED
  BY <1>1, <1>2, <1>8, <1>9 DEF Founded, FetchHasCome, DownHasNoClaims

LEMMA FoundedElect == ASSUME Founded, Elect PROVE Founded'
<1> DEFINE n == Len(cur.path) + 1
<1>1. TypeOK /\ RowsPin
  BY DEF Founded
<1>2. PICK c \in pending :
        /\ Height(c.path) = n
        /\ won' = PinnedHeight(c, n) /\ cur' = Extended(c)
        /\ rows' = [rows EXCEPT ![n] = [path |-> c.path, btc |-> won']]
        /\ pending' = RetainAbove(pending, n)
        /\ strayed' = (strayed \/ UpTo(c.path, n - 1) # cur.path)
  BY DEF Elect, Height
<1>3. /\ c.path \in Histories /\ Len(c.path) = n /\ n > 0 /\ Last(c.path) = c.path[n]
      /\ won' \in BtcHeights /\ cur' \in Points
  BY <1>1, <1>2, ExtendedType
<1>4. IsStore(rows') /\ RowAt(rows', n, c.path, won')
  BY <1>1, <1>2, <1>3, NewRowType
<1>5. RowsPin'
  BY <1>1, <1>2, <1>3, <1>4 DEF RowsPin, PinnedHeight, RowAt
<1>6. \A d \in pending' : d \in Claims
  BY <1>1, <1>2 DEF RetainAbove, TypeOK
<1>7. TypeOK'
  BY <1>1, <1>2, <1>3, <1>4, <1>6 DEF IsStore, TypeOK, Elect
<1> QED
  BY <1>5, <1>7 DEF Founded, TipIsPublished, FetchHasCome, DownHasNoClaims, Elect

LEMMA FoundedSave == ASSUME Founded, Save \/ Publish PROVE Founded'
<1>1. TypeOK /\ RowsPin' /\ IsStore(rows')
  BY FoundedKeepsRows DEF Founded, Save, Publish, disk
<1>2. CASE Save
  <2>1. saved' \in Points
    BY <1>1, <1>2 DEF Save, TypeOK, Points
  <2>2. TypeOK'
    BY <1>1, <1>2, <2>1 DEF IsStore, TypeOK, Save, flags
  <2> QED
    BY <1>1, <1>2, <2>2 DEF Founded, TipIsPublished, FetchHasCome, DownHasNoClaims, Save
<1>3. CASE Publish
  <2>1. st' \in States /\ st'.path = cur.path
    BY <1>1, <1>3, PublishedType DEF Publish, TypeOK, States
  <2>2. TypeOK'
    BY <1>1, <1>3, <2>1 DEF IsStore, TypeOK, Publish, disk, flags, BtcHeights
  <2> QED
    BY <1>1, <1>3, <2>1, <2>2 DEF Founded, TipIsPublished, FetchHasCome, DownHasNoClaims, Publish
<1> QED
  BY <1>2, <1>3

\* An action that leaves everything, at the bound or none at all.
LEMMA FoundedRests == ASSUME Founded, UNCHANGED vars PROVE Founded'
BY DEF Founded, TypeOK, TipIsPublished, FetchHasCome, DownHasNoClaims, RowsPin, vars, flags

\* Every action of the specification.
LEMMA EveryStep ==
  ASSUME [Next]_vars
  PROVE  \/ Start \/ Crash \/ Observer \/ PeerClaim
         \/ CatchUp \/ SyncEnd \/ ReconcileForward \/ SkipReconcile \/ RetryFetch \/ FetchCheckpoint
         \/ SyncRecord \/ RollBack \/ Mine \/ MineCheckpoint \/ Elect \/ Save \/ Publish
         \/ UNCHANGED vars
BY DEF Next, Task, AtBound

LEMMA FoundedHolds == Spec => []Founded
<1>1. Init => Founded
  BY FoundedInit
<1>2. Founded /\ [Next]_vars => Founded'
  <2> SUFFICES ASSUME Founded, [Next]_vars PROVE Founded'
    OBVIOUS
  <2> QED
    BY EveryStep, FoundedStart, FoundedCrash, FoundedObserver, FoundedClaim, FoundedChoices,
       FoundedSyncRecord, FoundedRollBack, FoundedMine, FoundedElect, FoundedSave, FoundedRests
<1> QED
  BY <1>1, <1>2, PTL DEF Spec

\* Every variable has its type: no chain is longer than the bound, every row
\* holds a block of its height, the difficulty stays in its range and the work,
\* the observations and the Bitcoin heights are ones the code can have.
THEOREM CheckpointTypes == Spec => []TypeOK
BY FoundedHolds, PTL DEF Founded
----------------------------------------------------------------------------
(* Growing a chain and cutting it *)

\* A history with one block more.
Grows(q, p) ==
  /\ p \in Histories /\ q \in Histories
  /\ Len(q) = Len(p) + 1
  /\ UpTo(q, Len(p)) = p

LEMMA GrowsType ==
  ASSUME NEW p, NEW q, Grows(q, p)
  PROVE  /\ Len(p) \in Nat /\ Len(q) \in Nat \ {0} /\ Len(p) \in 0..Len(q) /\ Len(p) = Len(q) - 1
         /\ Last(q) = q[Len(q)] /\ q[Len(q)] \in Block
         /\ \A h \in 1..Len(p) : q[h] = p[h] /\ h \in 1..Len(q)
         /\ \A h \in 1..Len(q) : h = Len(q) \/ h \in 1..Len(p)
         /\ \A h \in 0..Len(p) : UpTo(q, h) = UpTo(p, h)
<1>1. p \in Histories /\ q \in Histories /\ Len(q) = Len(p) + 1 /\ UpTo(q, Len(p)) = p
  BY DEF Grows
<1>2. Len(p) \in Nat /\ Len(q) \in Nat \ {0} /\ Len(p) \in 0..Len(q) /\ Len(p) = Len(q) - 1
  BY <1>1, HistoryType
<1>3. Last(q) = q[Len(q)] /\ q[Len(q)] \in Block
  BY <1>1, <1>2, HistoryType DEF Last
<1>4. \A h \in 1..Len(p) : q[h] = p[h] /\ h \in 1..Len(q)
  BY <1>1, <1>2, UpToIsHistory
<1>5. \A h \in 1..Len(q) : h = Len(q) \/ h \in 1..Len(p)
  BY <1>2
<1>6. \A h \in 0..Len(p) : UpTo(q, h) = UpTo(p, h)
  BY <1>1, <1>2, UpToNests
<1> QED
  BY <1>2, <1>3, <1>4, <1>5, <1>6

\* The record a peer gives grows the chain, and so does the winner of an
\* election unless the chain strays.
LEMMA SyncedGrows ==
  ASSUME TypeOK, Accepts
  PROVE  Grows(UpTo(peer, Len(cur.path) + 1), cur.path)
<1> PICK n : n = Len(cur.path) + 1
  OBVIOUS
<1>1. /\ UpTo(peer, n) \in Histories /\ Len(UpTo(peer, n)) = n
      /\ UpTo(UpTo(peer, n), n - 1) = cur.path /\ n - 1 = Len(cur.path)
  BY SyncedType
<1> QED
  BY <1>1 DEF Grows, TypeOK, Points

LEMMA ElectedGrows ==
  ASSUME TypeOK, NEW c \in pending, Height(c.path) = Len(cur.path) + 1,
         UpTo(c.path, Len(cur.path) + 1 - 1) = cur.path
  PROVE  Grows(c.path, cur.path)
<1>1. /\ c.path \in Histories /\ cur.path \in Histories /\ Len(cur.path) \in Nat
  BY HistoryType DEF TypeOK, Claims, Points
<1> QED
  BY <1>1 DEF Grows, Height

LEMMA OfChainGrows ==
  ASSUME NEW p, NEW q, Grows(q, p)
  PROVE  /\ AdjusterOf(q) = RecordBlock(AdjusterOf(p), Len(q), Last(q).ts)
         /\ WorkOf(q) = WorkOf(p) + Work(Last(q))
<1>1. q \in Histories /\ Len(q) > 0 /\ UpTo(q, Len(q) - 1) = p /\ Last(q) = q[Len(q)]
  BY GrowsType DEF Grows
<1> QED
  BY <1>1, AdjusterSteps, WorkSteps

\* The rows that lead to a chain.
LinkedIn(r, path) == \A h \in 1..Len(path) : r[h].path = UpTo(path, h)

LEMMA LinkedGrows ==
  ASSUME TypeOK, NEW p, NEW q, Grows(q, p), LinkedIn(rows, p), NEW r, NEW btc,
         RowAt(r, Len(q), q, btc)
  PROVE  LinkedIn(r, q)
<1> SUFFICES ASSUME NEW h \in 1..Len(q) PROVE r[h].path = UpTo(q, h)
  BY DEF LinkedIn
<1>1. q \in Histories /\ Len(q) \in 0..MaxHeight
  BY HistoryType DEF Grows
<1>2. h \in Heights /\ r[h] = IF h = Len(q) THEN [path |-> q, btc |-> btc] ELSE rows[h]
  BY <1>1, ParameterAssumption DEF RowAt, Heights
<1>3. CASE h = Len(q)
  BY <1>1, <1>2, <1>3, UpToNests
<1>4. CASE h # Len(q)
  <2>1. h \in 1..Len(p) /\ h \in 0..Len(p)
    BY <1>4, GrowsType
  <2>2. rows[h].path = UpTo(p, h) /\ UpTo(q, h) = UpTo(p, h)
    BY <2>1, GrowsType DEF LinkedIn
  <2> QED
    BY <1>2, <1>4, <2>2
<1> QED
  BY <1>3, <1>4

\* What a rollback finds on a chain that is in the store.
LEMMA RollBackFinds ==
  ASSUME TypeOK, LinkedIn(rows, cur.path), NEW p \in PeerChains, NEW f \in ForkPoints(p),
         rows[Governing(f)] # NoRow
  PROVE  /\ f \in 0..Len(cur.path) /\ f \in Nat \ {0} /\ cur.path \in Histories
         /\ rows[f].path = UpTo(cur.path, f)
         /\ Governing(f) \in 1..f /\ IsCheckpoint(Governing(f))
         /\ Governing(f) \in 1..Len(cur.path)
         /\ rows[Governing(f)].path[Governing(f)] = cur.path[Governing(f)]
         /\ Last(rows[Governing(f)].path) = cur.path[Governing(f)]
         /\ WorkAbove(f) = WorkBetween(cur.path, f, Len(cur.path))
<1>1. /\ f \in 1..(Len(cur.path) - 1) /\ f \in 0..Len(cur.path)
      /\ Governing(f) \in 1..f /\ Governing(f) \in Heights
      /\ Governing(f) \in 1..Len(cur.path) /\ IsCheckpoint(Governing(f))
  BY RolledBackType
<1>2. cur.path \in Histories /\ Len(cur.path) \in Nat
  BY HistoryType DEF TypeOK, Points
<1>3. \A h \in 1..Len(cur.path) :
        /\ rows[h].path = UpTo(cur.path, h)
        /\ rows[h].path[h] = cur.path[h] /\ Last(rows[h].path) = cur.path[h]
  <2> TAKE h \in 1..Len(cur.path)
  <2>1. rows[h].path = UpTo(cur.path, h) /\ h \in 0..Len(cur.path) /\ h > 0 /\ h \in 1..h
    BY <1>2 DEF LinkedIn
  <2> QED
    BY <1>2, <2>1, UpToIsHistory
<1>4. f \in 1..Len(cur.path) /\ f \in Nat \ {0}
  BY <1>1, <1>2
<1>5. WorkAbove(f) = WorkBetween(cur.path, f, Len(cur.path))
  <2>1. \A h \in (f + 1)..Len(cur.path) : Last(rows[h].path) = cur.path[h]
    BY <1>2, <1>3, <1>4
  <2>2. [h \in (f + 1)..Len(cur.path) |-> Work(Last(rows[h].path))] = Works(cur.path, f, Len(cur.path))
    BY <2>1 DEF Works
  <2> QED
    BY <2>2 DEF WorkAbove, WorkBetween, Height
<1> QED
  BY <1>1, <1>2, <1>3, <1>4, <1>5

----------------------------------------------------------------------------
(* The difficulty *)

\* The store, the task and the file keep what they say of a chain.
LEMMA StoredKept ==
  ASSUME Stored, UNCHANGED <<rows, saved, strayed>>,
         cur' = cur \/ cur' = GenesisPoint
  PROVE  Stored'
<1>1. /\ <<>> \in Histories /\ Len(<<>>) = 0 /\ GenesisPoint.path = <<>>
      /\ GenesisPoint.adj = GenesisAdjuster /\ GenesisPoint.work = 0
  BY StartsEmpty DEF GenesisPoint, Point
<1>2. OfChain(GenesisPoint)
  BY <1>1, AdjusterSteps, WorkSteps DEF OfChain
<1>3. CASE cur' = cur
  BY <1>3 DEF Stored, Linked, OfChain, Height
<1>4. CASE cur' = GenesisPoint
  BY <1>1, <1>2, <1>4 DEF Stored, Linked, OfChain, Height
<1> QED
  BY <1>3, <1>4

LEMMA StoredInit == Init => Stored
<1> SUFFICES ASSUME Init PROVE Stored
  OBVIOUS
<1>1. cur = GenesisPoint /\ saved = GenesisPoint
  BY DEF Init
<1>2. /\ <<>> \in Histories /\ Len(<<>>) = 0 /\ GenesisPoint.path = <<>>
      /\ GenesisPoint.adj = GenesisAdjuster /\ GenesisPoint.work = 0
  BY StartsEmpty DEF GenesisPoint, Point
<1>3. OfChain(GenesisPoint)
  BY <1>2, AdjusterSteps, WorkSteps DEF OfChain
<1> QED
  BY <1>1, <1>2, <1>3 DEF Stored, Linked, Height

LEMMA StoredStart == ASSUME Stored, Start PROVE Stored'
<1> SUFFICES ASSUME ~strayed' PROVE (Linked(cur.path) /\ OfChain(cur) /\ OfChain(saved))'
  BY DEF Stored
<1>1. ~strayed /\ Linked(saved.path) /\ UNCHANGED <<rows, saved>>
  BY DEF Start
<1>2. cur'.path = saved.path /\ cur'.adj = saved.adj /\ cur'.work = saved.work
  BY DEF Start
<1> QED
  BY <1>1, <1>2 DEF Stored, Linked, OfChain

LEMMA StoredSyncRecord == ASSUME Founded, Stored, SyncRecord PROVE Stored'
<1> SUFFICES ASSUME ~strayed' PROVE (Linked(cur.path) /\ OfChain(cur) /\ OfChain(saved))'
  BY DEF Stored
<1> DEFINE n == Len(cur.path) + 1
           q == UpTo(peer, n)
<1>1. TypeOK /\ Accepts /\ ~strayed /\ UNCHANGED saved
  BY DEF Founded, SyncRecord, flags
<1>2. LinkedIn(rows, cur.path) /\ OfChain(cur) /\ OfChain(saved)
  BY <1>1 DEF Stored, Linked, LinkedIn, Height
<1>3. Grows(q, cur.path)
  BY <1>1, SyncedGrows
<1>4. /\ Len(q) = n /\ q[n] = peer[n] /\ Last(q) = peer[n]
  <2>1. n = Len(cur.path) + 1
    OBVIOUS
  <2>2. Last(q) = q[Len(q)]
    BY <1>3, GrowsType
  <2> HIDE DEF n
  <2> QED
    BY <1>1, <2>1, <2>2, SyncedType
<1>5. rows' = [rows EXCEPT ![n] = [path |-> q, btc |-> SeedOf(q).tip]] /\ cur' = Synced
  BY DEF SyncRecord, Height
<1>6. /\ Synced.path = q /\ Synced.adj = RecordBlock(cur.adj, n, peer[n].ts)
      /\ Synced.work = cur.work + Work(peer[n])
  BY DEF Synced, Point, Height
<1> HIDE DEF q
<1>7. OfChain(cur)'
  BY <1>2, <1>3, <1>4, <1>5, <1>6, OfChainGrows DEF OfChain
<1>8. LinkedIn(rows', q)
  <2>1. RowAt(rows', Len(q), q, SeedOf(q).tip)
    BY <1>1, <1>4, <1>5 DEF RowAt, TypeOK
  <2> QED
    BY <1>1, <1>2, <1>3, <2>1, LinkedGrows
<1> QED
  BY <1>1, <1>2, <1>5, <1>6, <1>7, <1>8 DEF Linked, LinkedIn, Height, OfChain

LEMMA StoredElect == ASSUME Founded, Stored, Elect PROVE Stored'
<1> SUFFICES ASSUME ~strayed' PROVE (Linked(cur.path) /\ OfChain(cur) /\ OfChain(saved))'
  BY DEF Stored
<1> DEFINE n == Len(cur.path) + 1
<1>1. PICK c \in pending :
        /\ Height(c.path) = n /\ cur' = Extended(c)
        /\ rows' = [rows EXCEPT ![n] = [path |-> c.path, btc |-> won']]
        /\ ~strayed /\ UpTo(c.path, n - 1) = cur.path
  BY DEF Elect, Height
<1>2. TypeOK /\ UNCHANGED saved
  BY DEF Founded, Elect
<1>3. LinkedIn(rows, cur.path) /\ OfChain(cur) /\ OfChain(saved)
  BY <1>1 DEF Stored, Linked, LinkedIn, Height
<1>4. Grows(c.path, cur.path) /\ Len(c.path) = n
  BY <1>1, <1>2, ElectedGrows DEF Height
<1>5. /\ Extended(c).path = c.path
      /\ Extended(c).adj = RecordBlock(cur.adj, n, Last(c.path).ts)
      /\ Extended(c).work = cur.work + Work(Last(c.path))
  BY DEF Extended, Point, Height
<1>6. OfChain(cur)'
  BY <1>1, <1>3, <1>4, <1>5, OfChainGrows DEF OfChain
<1>7. LinkedIn(rows', c.path)
  <2>1. RowAt(rows', Len(c.path), c.path, won')
    BY <1>1, <1>2, <1>4 DEF RowAt, TypeOK
  <2> QED
    BY <1>2, <1>3, <1>4, <2>1, LinkedGrows
<1> QED
  BY <1>1, <1>2, <1>3, <1>5, <1>6, <1>7 DEF Linked, LinkedIn, Height, OfChain

LEMMA StoredRollBack == ASSUME Founded, Stored, RollBack PROVE Stored'
<1> SUFFICES ASSUME ~strayed' PROVE (Linked(cur.path) /\ OfChain(cur) /\ OfChain(saved))'
  BY DEF Stored
<1>1. TypeOK /\ ~strayed /\ UNCHANGED saved
  BY DEF Founded, RollBack, flags
<1>2. LinkedIn(rows, cur.path) /\ OfChain(cur) /\ OfChain(saved)
  BY <1>1 DEF Stored, Linked, LinkedIn, Height
<1>3. PICK p \in PeerChains : \E f \in ForkPoints(p) :
        /\ WithinEpoch(f) /\ rows[Governing(f)] # NoRow
        /\ rows' = [h \in Heights |-> IF h <= f THEN rows[h] ELSE NoRow]
        /\ cur' = RolledBack(f)
  BY DEF RollBack
<1>4. PICK f \in ForkPoints(p) :
        /\ WithinEpoch(f) /\ rows[Governing(f)] # NoRow
        /\ rows' = [h \in Heights |-> IF h <= f THEN rows[h] ELSE NoRow]
        /\ cur' = RolledBack(f)
  BY <1>3
<1> DEFINE q == UpTo(cur.path, f)
<1>5. /\ f \in 0..Len(cur.path) /\ f \in Nat \ {0} /\ cur.path \in Histories
      /\ rows[f].path = q /\ WorkAbove(f) = WorkBetween(cur.path, f, Len(cur.path))
  BY <1>1, <1>2, <1>4, RollBackFinds
<1>6. q \in Histories /\ Len(q) = f /\ \A h \in 0..f : UpTo(q, h) = UpTo(cur.path, h)
  BY <1>5, UpToIsHistory, UpToNests
<1>7. AdjusterOf(q) = cur.adj
  <2>1. f >= AdjusterOf(cur.path).height /\ AdjusterOf(cur.path) = cur.adj
    BY <1>2, <1>4 DEF WithinEpoch, OfChain
  <2> QED
    BY <1>5, <2>1, AdjusterStays
<1>8. WorkOf(q) = Max({0, cur.work - WorkAbove(f)})
  <2>1. WorkOf(q) \in Nat /\ WorkAbove(f) \in Nat /\ cur.work = WorkOf(q) + WorkAbove(f)
    <3>1. WorkOf(cur.path) = WorkOf(q) + WorkBetween(cur.path, f, Len(cur.path))
      BY <1>5, WorkSplits
    <3>2. Len(cur.path) \in f..Len(cur.path)
      BY <1>5, HistoryType
    <3>3. WorkBetween(cur.path, f, Len(cur.path)) \in Nat
      BY <1>5, <3>2, BetweenType
    <3> QED
      BY <1>2, <1>5, <1>6, <3>1, <3>3, WorkSteps DEF OfChain
  <2> QED
    BY <2>1, MaxOfTwo
<1>9. /\ RolledBack(f).path = q /\ RolledBack(f).adj = cur.adj
      /\ RolledBack(f).work = Max({0, cur.work - WorkAbove(f)})
  BY <1>1, <1>5 DEF RolledBack, TypeOK, Points
<1> HIDE DEF q
<1>10. OfChain(cur)'
  BY <1>4, <1>7, <1>8, <1>9 DEF OfChain
<1>11. LinkedIn(rows', q)
  <2> SUFFICES ASSUME NEW h \in 1..f PROVE rows'[h].path = UpTo(q, h)
    BY <1>6 DEF LinkedIn
  <2>1. h \in Heights /\ h \in 1..Len(cur.path) /\ h <= f /\ h \in 0..f
    BY <1>5, HistoryType, ParameterAssumption DEF Heights
  <2>2. rows'[h] = rows[h] /\ rows[h].path = UpTo(cur.path, h)
    BY <1>2, <1>4, <2>1 DEF LinkedIn
  <2> QED
    BY <1>6, <2>1, <2>2
<1> QED
  BY <1>1, <1>2, <1>4, <1>9, <1>10, <1>11 DEF Linked, LinkedIn, Height, OfChain

LEMMA StoredSave == ASSUME Stored, Save PROVE Stored'
BY DEF Stored, Save, Linked, OfChain, flags

LEMMA StoredHolds == Spec => []Stored
<1>1. Init => Stored
  BY StoredInit
<1>2. Founded /\ Stored /\ [Next]_vars => Stored'
  <2> SUFFICES ASSUME Founded, Stored, [Next]_vars PROVE Stored'
    OBVIOUS
  <2>1. CASE Start
    BY <2>1, StoredStart
  <2>2. CASE SyncRecord
    BY <2>2, StoredSyncRecord
  <2>3. CASE Elect
    BY <2>3, StoredElect
  <2>4. CASE RollBack
    BY <2>4, StoredRollBack
  <2>5. CASE Save
    BY <2>5, StoredSave
  <2>6. CASE Crash \/ Observer \/ PeerClaim
    <3>1. UNCHANGED <<rows, saved, strayed>> /\ (cur' = cur \/ cur' = GenesisPoint)
      BY <2>6 DEF Crash, Observer, ObserverFetches, ObserverWrites, PeerClaim, disk, flags
    <3> QED
      BY <3>1, StoredKept
  <2>7. CASE CatchUp \/ SyncEnd \/ ReconcileForward \/ SkipReconcile \/ RetryFetch \/ FetchCheckpoint
    <3>1. UNCHANGED <<rows, saved, strayed>> /\ cur' = cur
      BY <2>7 DEF CatchUp, SyncEnd, ReconcileForward, SkipReconcile, RetryFetch,
                  FetchCheckpoint, disk, flags
    <3> QED
      BY <3>1, StoredKept
  <2>8. CASE Mine \/ MineCheckpoint \/ Publish \/ UNCHANGED vars
    <3>1. UNCHANGED <<rows, saved, strayed>> /\ cur' = cur
      BY <2>8 DEF Mine, MineCheckpoint, Publish, vars, disk, flags
    <3> QED
      BY <3>1, StoredKept
  <2> QED
    BY EveryStep, <2>1, <2>2, <2>3, <2>4, <2>5, <2>6, <2>7, <2>8
<1> QED
  BY <1>1, <1>2, FoundedHolds, PTL DEF Spec

\* On a chain that is in the store the adjuster and the work the task carries
\* are those of a replay of the chain from genesis, through elections,
\* synchronised records, rollbacks within an epoch and restarts.
THEOREM DifficultyHolds == Spec => []DifficultyIsOfChain
<1>1. Stored => DifficultyIsOfChain
  BY DEF Stored, OfChain, DifficultyIsOfChain
<1> QED
  BY <1>1, StoredHolds, PTL
----------------------------------------------------------------------------
(* The histories a node holds *)

\* A set of histories with the parts of each and what honest nodes add.
Good(G) ==
  /\ G \in SUBSET Histories /\ <<>> \in G /\ Closed(G)
  /\ \A p \in G : \A h \in 0..Len(p) : UpTo(p, h) \in G

LEMMA HeldIs ==
  ASSUME NEW G
  PROVE  Held \subseteq G <=> /\ \A h \in Heights : rows[h].path \in G
                              /\ \A c \in pending : c.path \in G
                              /\ {saved.path, cur.path, st.path, peer} \subseteq G
BY DEF Held

\* Every action but those that make a claim leaves the node with histories as
\* good as those it held.
LEMMA HeldStays ==
  ASSUME Founded, [Next]_vars, NEW G, Good(G), Held \subseteq G,
         Mine \/ MineCheckpoint \/ PeerClaim => \A c \in pending' : c.path \in G
  PROVE  Held' \subseteq G
<1>1. /\ \A h \in Heights : rows[h].path \in G
      /\ \A c \in pending : c.path \in G
      /\ saved.path \in G /\ cur.path \in G /\ st.path \in G /\ peer \in G
  BY HeldIs
<1>2. TypeOK /\ <<>> \in G
  BY DEF Founded, Good
<1>3. PeerChains \subseteq G
  <2>1. G \in SUBSET Histories /\ Closed(G) /\ \A h \in 0..Len(cur.path) : UpTo(cur.path, h) \in G
    BY <1>1 DEF Good
  <2> QED
    BY <1>1, <2>1, PeerChainsType
<1> SUFFICES /\ \A h \in Heights : rows'[h].path \in G
             /\ \A c \in pending' : c.path \in G
             /\ {saved'.path, cur'.path, st'.path, peer'} \subseteq G
  BY DEF Held
<1>4. CASE Start
  <2>1. /\ UNCHANGED <<rows, saved, pending, peer>>
        /\ cur'.path = saved.path /\ st'.path = saved.path
    BY <1>4 DEF Start, Published
  <2> QED
    BY <1>1, <2>1
<1>5. CASE Crash
  <2>1. /\ UNCHANGED <<rows, saved>> /\ pending' = {} /\ peer' = <<>>
        /\ cur'.path = <<>> /\ st'.path = <<>>
    BY <1>5, StartsEmpty DEF Crash, disk
  <2> QED
    BY <1>1, <1>2, <2>1
<1>6. CASE Observer \/ SyncEnd \/ SkipReconcile \/ RetryFetch \/ FetchCheckpoint
  <2>1. UNCHANGED <<rows, saved, pending, cur, st>> /\ peer' \in {peer, <<>>}
    BY <1>6 DEF Observer, ObserverFetches, ObserverWrites, SyncEnd, SkipReconcile, RetryFetch,
                FetchCheckpoint, disk
  <2> QED
    BY <1>1, <1>2, <2>1
<1>7. CASE CatchUp \/ ReconcileForward
  <2>1. UNCHANGED <<rows, saved, pending, cur, st>> /\ peer' \in PeerChains \cup {peer}
    BY <1>7 DEF CatchUp, ReconcileForward, disk
  <2> QED
    BY <1>1, <1>3, <2>1
<1>8. CASE Mine \/ MineCheckpoint \/ PeerClaim
  <2>1. UNCHANGED <<rows, saved, cur, peer>>
    BY <1>8 DEF Mine, MineCheckpoint, PeerClaim, disk
  <2>2. st'.path = st.path
    BY <1>2, <1>8 DEF Mine, MineCheckpoint, MineWith, PeerClaim, TypeOK, States
  <2> QED
    BY <1>1, <1>8, <2>1, <2>2
<1>9. CASE SyncRecord
  <2> DEFINE n == Len(cur.path) + 1
             p == UpTo(peer, n)
  <2>1. /\ rows' = [rows EXCEPT ![n] = [path |-> p, btc |-> SeedOf(p).tip]]
        /\ cur'.path = p /\ st'.path = p /\ pending' = RetainAbove(pending, n)
        /\ UNCHANGED <<saved, peer>>
    BY <1>9 DEF SyncRecord, Synced, Point, Published, Height
  <2>2. p \in G
    <3>1. n \in 0..Len(peer)
      BY <1>2, <1>9, HistoryType DEF SyncRecord, Accepts, Height, TypeOK, Points
    <3> QED
      BY <1>1, <3>1 DEF Good
  <2> HIDE DEF n, p
  <2>3. \A h \in Heights : rows'[h].path \in G
    BY <1>1, <1>2, <2>1, <2>2 DEF TypeOK
  <2> QED
    BY <1>1, <2>1, <2>2, <2>3 DEF RetainAbove
<1>10. CASE RollBack
  <2>1. PICK p \in PeerChains : \E f \in ForkPoints(p) :
          /\ rows[Governing(f)] # NoRow
          /\ rows' = [h \in Heights |-> IF h <= f THEN rows[h] ELSE NoRow]
          /\ cur' = RolledBack(f)
          /\ st' = [Published(RolledBack(f)) EXCEPT !.bits = st.bits]
          /\ pending' = RetainAbove(pending, f) /\ peer' = p
    BY <1>10 DEF RollBack
  <2>2. PICK f \in ForkPoints(p) :
          /\ rows[Governing(f)] # NoRow
          /\ rows' = [h \in Heights |-> IF h <= f THEN rows[h] ELSE NoRow]
          /\ cur' = RolledBack(f)
          /\ st' = [Published(RolledBack(f)) EXCEPT !.bits = st.bits]
          /\ pending' = RetainAbove(pending, f) /\ peer' = p
    BY <2>1
  <2>3. f \in Heights /\ RolledBack(f) \in Points /\ RolledBack(f).path = rows[f].path
    BY <1>2, <2>2, RolledBackType
  <2>4. cur'.path = rows[f].path /\ st'.path = rows[f].path
    BY <2>2, <2>3, PublishedType DEF States
  <2>5. \A h \in Heights : rows'[h].path \in G
    BY <1>1, <1>2, <2>2 DEF NoRow
  <2> QED
    BY <1>1, <1>3, <1>10, <2>2, <2>3, <2>4, <2>5 DEF RollBack, RetainAbove
<1>11. CASE Elect
  <2> DEFINE n == Len(cur.path) + 1
  <2>1. PICK c \in pending :
          /\ rows' = [rows EXCEPT ![n] = [path |-> c.path, btc |-> won']]
          /\ cur' = Extended(c) /\ pending' = RetainAbove(pending, n)
    BY <1>11 DEF Elect, Height
  <2>2. UNCHANGED <<saved, st, peer>> /\ cur'.path = c.path
    BY <1>11, <2>1 DEF Elect, Extended, Point
  <2> HIDE DEF n
  <2>3. \A h \in Heights : rows'[h].path \in G
    BY <1>1, <1>2, <2>1 DEF TypeOK
  <2> QED
    BY <1>1, <2>1, <2>2, <2>3 DEF RetainAbove
<1>12. CASE Save \/ Publish
  <2>1. /\ UNCHANGED <<rows, pending, cur, peer>>
        /\ saved'.path \in {saved.path, cur.path} /\ st'.path \in {st.path, cur.path}
    BY <1>2, <1>12 DEF Save, Publish, Published, disk, TypeOK, Points
  <2> QED
    BY <1>1, <2>1
<1>13. CASE UNCHANGED vars
  BY <1>1, <1>13 DEF vars
<1> QED
  BY EveryStep, <1>4, <1>5, <1>6, <1>7, <1>8, <1>9, <1>10, <1>11, <1>12, <1>13
----------------------------------------------------------------------------
(* The seed of the governing checkpoint *)

LEMMA AppendGrows ==
  ASSUME NEW p \in Histories, NEW b \in Block, Len(p) < MaxHeight
  PROVE  Grows(Append(p, b), p) /\ Last(Append(p, b)) = b
BY AppendIsHistory DEF Grows

LEMMA SeedOfGrows ==
  ASSUME NEW p, NEW q, Grows(q, p)
  PROVE  SeedOf(q) = IF IsCheckpoint(Len(q)) THEN Last(q).seed ELSE SeedOf(p)
<1>1. p \in Histories /\ q \in Histories
  BY DEF Grows
<1>2. /\ Len(q) \in Nat \ {0} /\ Len(p) \in Nat /\ Len(p) = Len(q) - 1 /\ Last(q) = q[Len(q)]
      /\ \A h \in 1..Len(p) : q[h] = p[h]
  BY GrowsType
<1>3. SeedOf(q) = q[Governing(Len(q))].seed
  BY <1>1, <1>2, SeedOfType, HistoryType
<1>4. CASE IsCheckpoint(Len(q))
  BY <1>2, <1>3, <1>4, GoverningIsCheckpoint
<1>5. CASE ~IsCheckpoint(Len(q))
  <2>1. Len(p) \in Nat \ {0} /\ Governing(Len(q)) = Governing(Len(p))
    BY <1>2, <1>5, GoverningIsCheckpoint
  <2>2. Governing(Len(p)) \in 1..Len(p) /\ SeedOf(p) = p[Governing(Len(p))].seed
    BY <1>1, <2>1, SeedOfType, HistoryType
  <2> QED
    BY <1>2, <1>3, <1>5, <2>1, <2>2
<1> QED
  BY <1>4, <1>5

LEMMA SeededSeed ==
  ASSUME NEW p \in Seeded, p # <<>>
  PROVE  Last(p).seed = SeedOf(p)
<1>1. p \in Histories /\ \A h \in 1..Len(p) : p[h].seed = p[Governing(h)].seed
  BY DEF Seeded, Height
<1>2. Len(p) \in 1..Len(p)
  BY <1>1, HistoryType
<1> QED
  BY <1>1, <1>2, SeedOfType DEF Last

LEMMA SeededGrows ==
  ASSUME NEW p \in Seeded, NEW q, Grows(q, p),
         ~IsCheckpoint(Len(q)) => Last(q).seed = SeedOf(p)
  PROVE  q \in Seeded
<1>1. p \in Histories /\ q \in Histories /\ \A h \in 1..Len(p) : p[h].seed = p[Governing(h)].seed
  BY DEF Grows, Seeded, Height
<1>2. /\ Len(q) \in Nat \ {0} /\ Len(p) \in Nat /\ Last(q) = q[Len(q)]
      /\ \A h \in 1..Len(p) : q[h] = p[h]
      /\ \A h \in 1..Len(q) : h = Len(q) \/ h \in 1..Len(p)
  BY GrowsType
<1> SUFFICES ASSUME NEW h \in 1..Len(q) PROVE q[h].seed = q[Governing(h)].seed
  BY <1>1 DEF Seeded, Height
<1>3. CASE h \in 1..Len(p)
  <2>1. Governing(h) \in 1..h
    BY <1>3, GoverningIsCheckpoint
  <2>2. Governing(h) \in 1..Len(p)
    BY <1>2, <1>3, <2>1
  <2> QED
    BY <1>1, <1>2, <1>3, <2>2
<1>4. CASE h = Len(q)
  <2>1. SeedOf(q) = q[Governing(h)].seed
    BY <1>1, <1>2, <1>4, SeedOfType, HistoryType
  <2>2. SeedOf(q) = Last(q).seed
    BY SeedOfGrows
  <2> QED
    BY <1>2, <1>4, <2>1, <2>2
<1> QED
  BY <1>2, <1>3, <1>4

LEMMA SeededUpTo ==
  ASSUME NEW p \in Seeded, NEW k \in 0..Len(p)
  PROVE  UpTo(p, k) \in Seeded
<1>1. p \in Histories /\ \A h \in 1..Len(p) : p[h].seed = p[Governing(h)].seed
  BY DEF Seeded, Height
<1>2. /\ UpTo(p, k) \in Histories /\ Len(UpTo(p, k)) = k
      /\ \A h \in 1..k : UpTo(p, k)[h] = p[h]
  BY <1>1, UpToIsHistory
<1>3. \A h \in 1..k : h \in 1..Len(p) /\ Governing(h) \in 1..k
  <2> TAKE h \in 1..k
  <2>1. Governing(h) \in 1..h /\ Len(p) \in Nat
    BY <1>1, GoverningIsCheckpoint, HistoryType
  <2> QED
    BY <2>1
<1>4. \A h \in 1..k : UpTo(p, k)[h].seed = UpTo(p, k)[Governing(h)].seed
  BY <1>1, <1>2, <1>3
<1> QED
  BY <1>2, <1>4 DEF Seeded, Height

LEMMA SeededIsGood == Good(Seeded)
<1>1. Seeded \in SUBSET Histories
  BY DEF Seeded
<1>2. <<>> \in Seeded
  BY StartsEmpty DEF Seeded
<1>3. Closed(Seeded)
  <2> SUFFICES ASSUME NEW p \in Seeded, NEW b, Len(p) < MaxHeight, Follows(b, p)
               PROVE  Append(p, b) \in Seeded
    BY DEF Closed
  <2>1. b \in Block /\ (~IsCheckpoint(Len(p) + 1) => b.seed = SeedOf(p)) /\ p \in Histories
    BY <1>1 DEF Follows
  <2>2. Grows(Append(p, b), p) /\ Last(Append(p, b)) = b /\ Len(Append(p, b)) = Len(p) + 1
    BY <2>1, AppendGrows DEF Grows
  <2> QED
    BY <2>1, <2>2, SeededGrows
<1> QED
  BY <1>1, <1>2, <1>3, SeededUpTo DEF Good

\* The claims made on a chain with its own seed have it.
LEMMA SeededClaims ==
  ASSUME NEW p \in Seeded, NEW b \in Block, Len(p) < MaxHeight, NEW own,
         ~IsCheckpoint(Len(p) + 1) => b.seed = SeedOf(p),
         \A c \in pending : c.path \in Seeded,
         pending' = KeepFirst(pending, [path |-> Append(p, b), own |-> own])
  PROVE  \A c \in pending' : c.path \in Seeded
<1>1. p \in Histories
  BY DEF Seeded
<1>2. Grows(Append(p, b), p) /\ Last(Append(p, b)) = b /\ Len(Append(p, b)) = Len(p) + 1
  BY <1>1, AppendGrows DEF Grows
<1>3. Append(p, b) \in Seeded
  BY <1>2, SeededGrows
<1>4. \A c \in pending' : c \in pending \/ c = [path |-> Append(p, b), own |-> own]
  BY KeepFirstAdds
<1> SUFFICES ASSUME NEW c \in pending' PROVE c.path \in Seeded
  OBVIOUS
<1>5. c \in pending \/ c = [path |-> Append(p, b), own |-> own]
  BY <1>4
<1>6. CASE c = [path |-> Append(p, b), own |-> own]
  <2>1. c.path = Append(p, b)
    BY <1>6
  <2> QED
    BY <1>3, <2>1
<1> QED
  BY <1>5, <1>6

LEMMA SeededHeld ==
  ASSUME Founded, Held \subseteq Seeded, OwnSeed(cur), OwnSeed(st), [Next]_vars
  PROVE  Held' \subseteq Seeded
<1>1. TypeOK /\ cur.path \in Seeded /\ st.path \in Seeded /\ \A c \in pending : c.path \in Seeded
  BY HeldIs DEF Founded
<1>2. ASSUME Mine \/ MineCheckpoint PROVE \A c \in pending' : c.path \in Seeded
  <2>1. PICK seed \in Observations :
          /\ MineWith(seed) /\ Height(cur.path) < MaxMined
          /\ ~IsCheckpoint(Len(cur.path) + 1) => seed = cur.seed
    <3>1. CASE Mine
      BY <1>1, <3>1 DEF Mine, TypeOK, Points
    <3>2. CASE MineCheckpoint
      BY <1>1, <3>2 DEF MineCheckpoint, Founded, FetchHasCome, TypeOK, Observations, Height
    <3> QED
      BY <1>2, <3>1, <3>2
  <2>2. PICK b \in Block :
          /\ Len(cur.path) < MaxHeight /\ b.seed = seed
          /\ pending' = KeepFirst(pending, [path |-> Append(cur.path, b), own |-> TRUE])
    BY <1>1, <2>1, MineAdds
  <2> QED
    BY <1>1, <2>1, <2>2, SeededClaims DEF OwnSeed
<1>3. ASSUME PeerClaim PROVE \A c \in pending' : c.path \in Seeded
  <2>1. PICK b \in Block :
          /\ Len(st.path) < MaxHeight
          /\ ~IsCheckpoint(Len(st.path) + 1) => b.seed = st.seed
          /\ pending' = KeepFirst(pending, [path |-> Append(st.path, b), own |-> FALSE])
    BY <1>1, <1>3, PeerClaimAdds
  <2> QED
    BY <1>1, <2>1, SeededClaims DEF OwnSeed
<1> QED
  BY <1>2, <1>3, SeededIsGood, HeldStays

\* The newest checkpoint of the store gives the seed of the chain if it is the
\* chain's own.
LEMMA RestoredSeed ==
  ASSUME Founded, Held \subseteq Seeded, PinnedRows # {},
         CheckpointOf(LatestCheckpoint.path) = CheckpointOf(saved.path)
  PROVE  Last(LatestCheckpoint.path).seed = SeedOf(saved.path)
<1> DEFINE p == LatestCheckpoint.path
           q == saved.path
<1>1. TypeOK
  BY DEF Founded
<1>2. Max(PinnedRows) \in Heights /\ rows[Max(PinnedRows)].btc > 0
  BY <1>1, LatestExists DEF LatestCheckpoint
<1>3. p \in Seeded /\ p # <<>> /\ q \in Seeded /\ p \in Histories /\ q \in Histories
  BY <1>1, <1>2, RowType, HeldIs DEF LatestCheckpoint, Seeded
<1>4. ASSUME NEW r \in Histories, r # <<>>
      PROVE  CheckpointOf(r) # <<>> /\ Last(CheckpointOf(r)).seed = SeedOf(r)
  <2>1. /\ Len(r) \in Nat /\ Governing(Len(r)) \in 1..Len(r)
        /\ SeedOf(r) = r[Governing(Len(r))].seed
    BY <1>4, SeedOfType, HistoryType
  <2>2. Governing(Len(r)) \in 0..Len(r) /\ Governing(Len(r)) > 0
    BY <2>1
  <2> QED
    BY <2>1, <2>2, UpToIsHistory DEF CheckpointOf, Height
<1>5. q # <<>>
  <2> SUFFICES ASSUME q = <<>> PROVE CheckpointOf(q) = <<>>
    BY <1>3, <1>4
  <2> QED
    BY <1>3, UpToNests, HistoryType DEF CheckpointOf, Governing, Height
<1>6. Last(p).seed = SeedOf(p)
  BY <1>3, SeededSeed
<1> QED
  BY <1>3, <1>4, <1>5, <1>6

\* What once happened stays so.
LEMMA FlagsStay ==
  ASSUME [Next]_vars
  PROVE  /\ strayed => strayed'
         /\ elsewhere => elsewhere'
         /\ blinded => blinded'
<1>1. CASE Start \/ Elect
  <2>1. CASE Start
    <3>1. /\ strayed' = (strayed \/ ~Linked(saved.path)) /\ blinded' = blinded
          /\ \E x : elsewhere' = (elsewhere \/ x)
      BY <2>1 DEF Start
    <3> QED
      BY <3>1, Zenon
  <2>2. CASE Elect
    <3>1. /\ \E x : strayed' = (strayed \/ x)
          /\ elsewhere' = elsewhere /\ blinded' = blinded
      BY <2>2 DEF Elect
    <3> QED
      BY <3>1, Zenon
  <2> QED
    BY <1>1, <2>1, <2>2
<1>2. CASE Crash \/ PeerClaim \/ SyncRecord \/ RollBack \/ Mine \/ Save \/ Publish
  BY <1>2 DEF Crash, PeerClaim, SyncRecord, RollBack, Mine, Save, Publish, flags
<1>3. CASE Observer \/ MineCheckpoint
  <2>1. CASE ObserverFetches
    BY <2>1 DEF ObserverFetches, flags
  <2>2. CASE ObserverWrites \/ MineCheckpoint
    <3>1. strayed' = strayed /\ elsewhere' = elsewhere /\ \E x : blinded' = (blinded \/ x)
      BY <2>2 DEF ObserverWrites, MineCheckpoint, Writes
    <3> QED
      BY <3>1, Zenon
  <2> QED
    BY <1>3, <2>1, <2>2 DEF Observer
<1>4. CASE CatchUp \/ SyncEnd \/ ReconcileForward \/ SkipReconcile \/ RetryFetch \/ FetchCheckpoint
  BY <1>4 DEF CatchUp, SyncEnd, ReconcileForward, SkipReconcile, RetryFetch, FetchCheckpoint, flags
<1>5. CASE UNCHANGED vars
  BY <1>5 DEF vars, flags
<1> QED
  BY EveryStep, <1>1, <1>2, <1>3, <1>4, <1>5

LEMMA OwnSeedsStep ==
  ASSUME Founded, Stored, OwnSeeds, [Next]_vars
  PROVE  OwnSeeds'
<1> SUFFICES ASSUME ~strayed', ~elsewhere'
             PROVE  /\ Held' \subseteq Seeded
                    /\ OwnSeed(saved') /\ OwnSeed(cur') /\ OwnSeed(st')
  BY DEF OwnSeeds, OwnSeed
<1>1. ~strayed /\ ~elsewhere
  BY FlagsStay
<1>2. TypeOK /\ Held \subseteq Seeded /\ OwnSeed(saved) /\ OwnSeed(cur) /\ OwnSeed(st)
  BY <1>1 DEF OwnSeeds, Founded
<1>3. Held' \subseteq Seeded
  BY <1>2, SeededHeld
<1>4. OwnSeed(saved') /\ OwnSeed(cur') /\ OwnSeed(st')
  <2>1. CASE Start
    <3>1. /\ UNCHANGED saved /\ cur'.path = saved.path
          /\ st'.path = cur'.path /\ st'.seed = cur'.seed
      BY <2>1 DEF Start, Published
    <3>2. CASE Restores
      <4>1. /\ cur'.seed = Last(LatestCheckpoint.path).seed
            /\ CheckpointOf(LatestCheckpoint.path) = CheckpointOf(saved.path)
        BY <1>2, <2>1, <3>2 DEF Start, TypeOK, Points
      <4>2. cur'.seed = SeedOf(saved.path)
        BY <1>2, <3>2, <4>1, RestoredSeed DEF Restores
      <4> QED
        BY <1>2, <3>1, <4>2 DEF OwnSeed
    <3>3. CASE ~Restores
      BY <1>2, <2>1, <3>1, <3>3 DEF Start, OwnSeed
    <3> QED
      BY <3>2, <3>3
  <2>2. CASE Crash
    <3>1. UNCHANGED saved /\ cur' = GenesisPoint /\ st' = Published(GenesisPoint)
      BY <2>2 DEF Crash, disk
    <3> QED
      BY <1>2, <3>1 DEF OwnSeed, Published, GenesisPoint, Point, SeedOf
  <2>3. CASE \/ Observer \/ PeerClaim \/ CatchUp \/ SyncEnd \/ ReconcileForward \/ SkipReconcile
             \/ RetryFetch \/ FetchCheckpoint \/ UNCHANGED vars
    <3>1. UNCHANGED <<saved, cur, st>>
      BY <2>3 DEF Observer, ObserverFetches, ObserverWrites, PeerClaim, CatchUp, SyncEnd,
                  ReconcileForward, SkipReconcile, RetryFetch, FetchCheckpoint, vars, disk
    <3> QED
      BY <1>2, <3>1 DEF OwnSeed
  <2>4. CASE Mine \/ MineCheckpoint
    <3>1. UNCHANGED <<saved, cur>> /\ st'.path = st.path /\ st'.seed = st.seed
      BY <1>2, <2>4 DEF Mine, MineCheckpoint, MineWith, TypeOK, States, disk
    <3> QED
      BY <1>2, <3>1 DEF OwnSeed
  <2>5. CASE Save \/ Publish
    <3>1. /\ cur' = cur
          /\ \/ saved'.path = saved.path /\ saved'.seed = saved.seed
             \/ saved'.path = cur.path /\ saved'.seed = cur.seed
          /\ \/ st'.path = st.path /\ st'.seed = st.seed
             \/ st'.path = cur.path /\ st'.seed = cur.seed
      BY <1>2, <2>5 DEF Save, Publish, Published, disk, TypeOK, Points
    <3> QED
      BY <1>2, <3>1 DEF OwnSeed
  <2>6. CASE SyncRecord
    <3> DEFINE n == Len(cur.path) + 1
               q == UpTo(peer, n)
    <3>1. Accepts /\ UNCHANGED saved /\ cur' = Synced /\ st' = Published(Synced)
      BY <2>6 DEF SyncRecord
    <3>2. Grows(q, cur.path)
      BY <1>2, <3>1, SyncedGrows
    <3>3. Len(q) = n /\ Last(q) = peer[n]
      <4>1. n = Len(cur.path) + 1 /\ Last(q) = q[Len(q)]
        BY <3>2, GrowsType
      <4> HIDE DEF n
      <4> QED
        BY <1>2, <3>1, <4>1, SyncedType
    <3>4. Synced.path = q /\ Synced.seed = IF IsCheckpoint(n) THEN peer[n].seed ELSE cur.seed
      BY DEF Synced, Point, Height
    <3>5. Synced.seed = SeedOf(q)
      <4> HIDE DEF q, n
      <4> QED
        BY <1>2, <3>2, <3>3, <3>4, SeedOfGrows DEF OwnSeed
    <3> QED
      BY <1>2, <3>1, <3>4, <3>5 DEF OwnSeed, Published
  <2>7. CASE Elect
    <3> DEFINE n == Len(cur.path) + 1
    <3>1. PICK c \in pending :
            /\ Height(c.path) = n /\ cur' = Extended(c) /\ UpTo(c.path, n - 1) = cur.path
      BY <2>7 DEF Elect, Height
    <3>2. UNCHANGED <<saved, st>>
      BY <2>7 DEF Elect
    <3>3. Grows(c.path, cur.path) /\ Len(c.path) = n
      BY <1>2, <3>1, ElectedGrows DEF Height
    <3>4. /\ Extended(c).path = c.path
          /\ Extended(c).seed = IF IsCheckpoint(n) THEN Last(c.path).seed ELSE cur.seed
      BY DEF Extended, Point, Height
    <3>5. Extended(c).seed = SeedOf(c.path)
      BY <1>2, <3>3, <3>4, SeedOfGrows DEF OwnSeed
    <3> QED
      BY <1>2, <3>1, <3>2, <3>4, <3>5 DEF OwnSeed
  <2>8. CASE RollBack
    <3>1. PICK p \in PeerChains : \E f \in ForkPoints(p) :
            /\ rows[Governing(f)] # NoRow /\ cur' = RolledBack(f)
            /\ st' = [Published(RolledBack(f)) EXCEPT !.bits = st.bits]
      BY <2>8 DEF RollBack
    <3>2. PICK f \in ForkPoints(p) :
            /\ rows[Governing(f)] # NoRow /\ cur' = RolledBack(f)
            /\ st' = [Published(RolledBack(f)) EXCEPT !.bits = st.bits]
      BY <3>1
    <3>3. LinkedIn(rows, cur.path)
      BY <1>1 DEF Stored, Linked, LinkedIn, Height
    <3>4. /\ f \in 0..Len(cur.path) /\ f \in Nat \ {0} /\ cur.path \in Histories
          /\ rows[f].path = UpTo(cur.path, f) /\ Governing(f) \in 1..f
          /\ Last(rows[Governing(f)].path) = cur.path[Governing(f)]
      BY <1>2, <3>2, <3>3, RollBackFinds
    <3>5. /\ RolledBack(f).path = UpTo(cur.path, f)
          /\ RolledBack(f).seed = cur.path[Governing(f)].seed
      BY <1>2, <3>4 DEF RolledBack, TypeOK, Points
    <3>6. SeedOf(UpTo(cur.path, f)) = cur.path[Governing(f)].seed
      <4>1. /\ UpTo(cur.path, f) \in Histories /\ Len(UpTo(cur.path, f)) = f
            /\ UpTo(cur.path, f) # <<>>
            /\ UpTo(cur.path, f)[Governing(f)] = cur.path[Governing(f)]
        BY <3>4, UpToIsHistory
      <4> QED
        BY <4>1, SeedOfType
    <3>7. UNCHANGED saved /\ st'.path = cur'.path /\ st'.seed = cur'.seed
      BY <2>8, <3>2 DEF RollBack, Published
    <3> QED
      BY <1>2, <3>2, <3>5, <3>6, <3>7 DEF OwnSeed
  <2> QED
    BY EveryStep, <2>1, <2>2, <2>3, <2>4, <2>5, <2>6, <2>7, <2>8
<1> QED
  BY <1>3, <1>4

LEMMA OwnSeedsInit == Init => OwnSeeds
<1> SUFFICES ASSUME Init PROVE OwnSeeds
  OBVIOUS
<1>1. <<>> \in Seeded
  BY SeededIsGood DEF Good
<1>2. Held \subseteq Seeded
  BY <1>1, StartsEmpty DEF Held, Init, NoRow
<1>3. OwnSeed(saved) /\ OwnSeed(cur) /\ OwnSeed(st)
  BY DEF Init, OwnSeed, Published, GenesisPoint, Point, SeedOf
<1> QED
  BY <1>2, <1>3 DEF OwnSeeds

LEMMA OwnSeedsHold == Spec => []OwnSeeds
<1>1. Founded /\ Stored /\ OwnSeeds /\ [Next]_vars => OwnSeeds'
  BY OwnSeedsStep
<1> QED
  BY <1>1, OwnSeedsInit, FoundedHolds, StoredHolds, PTL DEF Spec

\* On a node that mines, synchronises, rolls back and restarts every block, and
\* the next one to be mined, uses the seed pinned at its governing checkpoint.
THEOREM SeedHolds == Spec => []SeedGovernsHeight
<1>1. Founded /\ OwnSeeds => SeedGovernsHeight
  <2> SUFFICES ASSUME Founded, OwnSeeds, ~strayed, ~elsewhere
               PROVE  /\ cur.seed = SeedOf(cur.path)
                      /\ \A h \in 1..Height(cur.path) : cur.path[h].seed = SeedOf(UpTo(cur.path, h))
    BY DEF SeedGovernsHeight
  <2>1. OwnSeed(cur) /\ cur.path \in Seeded
    BY HeldIs DEF OwnSeeds
  <2>2. ASSUME NEW h \in 1..Len(cur.path) PROVE cur.path[h].seed = SeedOf(UpTo(cur.path, h))
    <3>1. cur.path \in Histories /\ h \in 0..Len(cur.path) /\ h > 0
      BY <2>1, HistoryType DEF Seeded
    <3>2. /\ UpTo(cur.path, h) \in Seeded /\ UpTo(cur.path, h) # <<>>
          /\ Last(UpTo(cur.path, h)) = cur.path[h]
      BY <2>1, <3>1, SeededUpTo, UpToIsHistory
    <3> QED
      BY <3>2, SeededSeed
  <2> QED
    BY <2>1, <2>2 DEF OwnSeed, Height
<1> QED
  BY <1>1, FoundedHolds, OwnSeedsHold, PTL
----------------------------------------------------------------------------
(* The published Bitcoin height *)

LEMMA PinnedFrom ==
  ASSUME NEW p \in Histories, NEW k \in 0..Len(p), NEW btc, Pinned(UpTo(p, k), btc)
  PROVE  Pinned(p, btc)
<1>1. /\ Len(UpTo(p, k)) = k /\ \A h \in 1..k : UpTo(p, k)[h] = p[h]
      /\ \A h \in 1..k : h \in 1..Len(p)
  BY UpToIsHistory, HistoryType
<1> QED
  BY <1>1 DEF Pinned, Height

LEMMA PinnedGrows ==
  ASSUME NEW p, NEW q, Grows(q, p), NEW btc, Pinned(p, btc)
  PROVE  Pinned(q, btc)
<1>1. q \in Histories /\ UpTo(q, Len(p)) = p /\ Len(p) \in 0..Len(q)
  BY GrowsType DEF Grows
<1> QED
  BY <1>1, PinnedFrom

LEMMA PinnedAtTip ==
  ASSUME NEW p, NEW q, Grows(q, p), IsCheckpoint(Len(q))
  PROVE  Pinned(q, Last(q).seed.tip)
<1>1. Len(q) \in 1..Len(q) /\ Last(q) = q[Len(q)]
  BY GrowsType
<1> QED
  BY <1>1 DEF Pinned, Height

\* A height a history pins is pinned at or before its last checkpoint.
LEMMA PinnedByCheckpoint ==
  ASSUME NEW p \in Histories, NEW btc, Pinned(p, btc)
  PROVE  Pinned(CheckpointOf(p), btc)
<1> SUFFICES ASSUME btc # 0 PROVE Pinned(CheckpointOf(p), btc)
  BY DEF Pinned
<1>1. PICK h \in 1..Len(p) : IsCheckpoint(h) /\ p[h].seed.tip = btc
  BY DEF Pinned, Height
<1>2. Len(p) \in Nat \ {0}
  BY HistoryType
<1>3. Governing(Len(p)) \in 1..Len(p) /\ h <= Governing(Len(p))
  BY <1>1, <1>2, GoverningIsCheckpoint, GoverningIsLast
<1>4. Governing(Len(p)) \in 0..Len(p) /\ h \in 1..Governing(Len(p))
  BY <1>2, <1>3
<1>5. Len(CheckpointOf(p)) = Governing(Len(p)) /\ CheckpointOf(p)[h] = p[h]
  BY <1>4, UpToIsHistory DEF CheckpointOf, Height
<1> QED
  BY <1>1, <1>4, <1>5 DEF Pinned, Height

LEMMA CheckpointIsPart ==
  ASSUME NEW p \in Histories, NEW btc, Pinned(CheckpointOf(p), btc)
  PROVE  Pinned(p, btc)
<1>1. Governing(Len(p)) \in 0..Len(p)
  <2>1. CASE p = <<>>
    BY <2>1, HistoryType DEF Governing
  <2>2. CASE p # <<>>
    BY <2>2, SeedOfType, HistoryType
  <2> QED
    BY <2>1, <2>2
<1> QED
  BY <1>1, PinnedFrom DEF CheckpointOf, Height

LEMMA OwnHeightsStep ==
  ASSUME Founded, Stored, OwnHeights, [Next]_vars
  PROVE  OwnHeights'
<1> SUFFICES ASSUME ~strayed', ~elsewhere'
             PROVE  /\ \A h \in Heights : Pinned(rows'[h].path, rows'[h].btc)
                    /\ Pinned(saved'.path, saved'.btc)
                    /\ Pinned(cur'.path, cur'.btc) /\ Pinned(st'.path, st'.btc)
                    /\ pc' \in {"stored", "saved"} => Pinned(cur'.path, won')
  BY DEF OwnHeights
<1>1. ~strayed /\ ~elsewhere
  BY FlagsStay
<1>2. /\ TypeOK /\ \A h \in Heights : Pinned(rows[h].path, rows[h].btc)
      /\ Pinned(saved.path, saved.btc) /\ Pinned(cur.path, cur.btc) /\ Pinned(st.path, st.btc)
      /\ pc \in {"stored", "saved"} => Pinned(cur.path, won)
  BY <1>1 DEF OwnHeights, Founded
<1>3. CASE Start
  <2>1. /\ UNCHANGED <<rows, saved>> /\ cur'.path = saved.path /\ pc' = "catchup"
        /\ st'.path = cur'.path /\ st'.btc = cur'.btc
    BY <1>3 DEF Start, Published
  <2>2. CASE Restores
    <3>1. /\ cur'.btc = LatestCheckpoint.btc
          /\ CheckpointOf(LatestCheckpoint.path) = CheckpointOf(saved.path)
      BY <1>2, <1>3, <2>2 DEF Start, TypeOK, Points
    <3>2. Max(PinnedRows) \in Heights
      BY <1>2, <2>2, LatestExists DEF Restores
    <3>3. /\ LatestCheckpoint.path \in Histories /\ saved.path \in Histories
          /\ Pinned(LatestCheckpoint.path, LatestCheckpoint.btc)
      BY <1>2, <3>2, RowType DEF LatestCheckpoint, TypeOK, Points
    <3>4. Pinned(saved.path, LatestCheckpoint.btc)
      BY <3>1, <3>3, PinnedByCheckpoint, CheckpointIsPart
    <3> QED
      BY <1>2, <2>1, <3>1, <3>4
  <2>3. CASE ~Restores
    <3>1. cur' = saved
      BY <1>3, <2>3 DEF Start
    <3> QED
      BY <1>2, <2>1, <3>1
  <2> QED
    BY <2>2, <2>3
<1>4. CASE Crash
  <2>1. /\ UNCHANGED <<rows, saved>> /\ cur'.btc = 0 /\ st'.btc = 0 /\ pc' = "down"
    BY <1>4 DEF Crash, disk, GenesisPoint, Point, Published
  <2> QED
    BY <1>2, <2>1 DEF Pinned
<1>5. CASE \/ Observer \/ PeerClaim \/ CatchUp \/ SyncEnd \/ ReconcileForward \/ SkipReconcile
           \/ RetryFetch \/ FetchCheckpoint \/ UNCHANGED vars
  <2>1. UNCHANGED <<rows, saved, cur, st, won>> /\ (pc' \in {"stored", "saved"} => pc' = pc)
    BY <1>5 DEF Observer, ObserverFetches, ObserverWrites, PeerClaim, CatchUp, SyncEnd,
                ReconcileForward, SkipReconcile, RetryFetch, FetchCheckpoint, vars, disk
  <2> QED
    BY <1>2, <2>1
<1>6. CASE Mine \/ MineCheckpoint
  <2>1. /\ UNCHANGED <<rows, saved, cur>> /\ st'.path = st.path /\ st'.btc = st.btc
        /\ pc' = "grace"
    BY <1>2, <1>6 DEF Mine, MineCheckpoint, MineWith, TypeOK, States, disk
  <2> QED
    BY <1>2, <2>1
<1>7. CASE Save
  <2>1. UNCHANGED <<rows, cur, st, won>> /\ saved'.path = cur.path /\ saved'.btc = won
    BY <1>2, <1>7 DEF Save, TypeOK, Points
  <2> QED
    BY <1>2, <1>7, <2>1 DEF Save
<1>8. CASE Publish
  <2>1. UNCHANGED <<rows, saved, cur>> /\ st'.path = cur.path /\ st'.btc = won /\ pc' = "top"
    BY <1>8 DEF Publish, Published, disk
  <2> QED
    BY <1>2, <1>8, <2>1 DEF Publish
<1>9. CASE SyncRecord
  <2> DEFINE n == Len(cur.path) + 1
             q == UpTo(peer, n)
  <2>1. /\ Accepts /\ UNCHANGED saved /\ pc' = "sync"
        /\ rows' = [rows EXCEPT ![n] = [path |-> q, btc |-> SeedOf(q).tip]]
        /\ cur' = Synced /\ st'.path = cur'.path /\ st'.btc = cur'.btc
    BY <1>9 DEF SyncRecord, Published, Height
  <2>2. Grows(q, cur.path)
    BY <1>2, <2>1, SyncedGrows
  <2>3. /\ Synced.path = q
        /\ Synced.btc = IF IsCheckpoint(n) THEN SeedOf(q).tip ELSE cur.btc
    BY DEF Synced, Point, Height
  <2>4. Pinned(q, SeedOf(q).tip)
    <3>1. q \in Histories /\ Len(q) \in Nat \ {0}
      BY <2>2, GrowsType DEF Grows
    <3> HIDE DEF q
    <3>2. Governing(Len(q)) \in 1..Len(q) /\ IsCheckpoint(Governing(Len(q)))
      BY <3>1, GoverningIsCheckpoint
    <3>3. SeedOf(q) = q[Governing(Len(q))].seed
      BY <3>1, SeedOfType, HistoryType
    <3> QED
      BY <3>2, <3>3 DEF Pinned, Height
  <2>5. Pinned(q, Synced.btc)
    BY <1>2, <2>2, <2>3, <2>4, PinnedGrows
  <2> HIDE DEF n, q
  <2>6. \A h \in Heights : Pinned(rows'[h].path, rows'[h].btc)
    BY <1>2, <2>1, <2>4 DEF TypeOK
  <2> QED
    BY <1>2, <2>1, <2>3, <2>5, <2>6
<1>10. CASE Elect
  <2> DEFINE n == Len(cur.path) + 1
  <2>1. PICK c \in pending :
          /\ Height(c.path) = n /\ won' = PinnedHeight(c, n) /\ cur' = Extended(c)
          /\ rows' = [rows EXCEPT ![n] = [path |-> c.path, btc |-> won']]
          /\ UpTo(c.path, n - 1) = cur.path
    BY <1>10 DEF Elect, Height
  <2>2. UNCHANGED <<saved, st>> /\ pc = "grace"
    BY <1>10 DEF Elect
  <2>3. Grows(c.path, cur.path) /\ Len(c.path) = n
    BY <1>2, <2>1, ElectedGrows DEF Height
  <2>4. cur'.path = c.path /\ cur'.btc = cur.btc
    BY <2>1 DEF Extended, Point
  <2>5. Pinned(c.path, cur.btc)
    BY <1>2, <2>3, PinnedGrows
  <2>6. Pinned(c.path, won')
    <3>1. CASE IsCheckpoint(n)
      BY <2>1, <2>3, <3>1, PinnedAtTip DEF PinnedHeight
    <3>2. CASE ~IsCheckpoint(n)
      <4>1. st.path = cur.path
        BY <2>2 DEF Founded, TipIsPublished
      <4>2. won' = st.btc
        BY <2>1, <3>2 DEF PinnedHeight
      <4> QED
        BY <1>2, <2>3, <4>1, <4>2, PinnedGrows
    <3> QED
      BY <3>1, <3>2
  <2> HIDE DEF n
  <2>7. \A h \in Heights : Pinned(rows'[h].path, rows'[h].btc)
    BY <1>2, <2>1, <2>6 DEF TypeOK
  <2> QED
    BY <1>2, <2>2, <2>4, <2>5, <2>6, <2>7
<1>11. CASE RollBack
  <2>1. PICK p \in PeerChains : \E f \in ForkPoints(p) :
          /\ rows[Governing(f)] # NoRow /\ cur' = RolledBack(f)
          /\ rows' = [h \in Heights |-> IF h <= f THEN rows[h] ELSE NoRow]
          /\ st' = [Published(RolledBack(f)) EXCEPT !.bits = st.bits]
    BY <1>11 DEF RollBack
  <2>2. PICK f \in ForkPoints(p) :
          /\ rows[Governing(f)] # NoRow /\ cur' = RolledBack(f)
          /\ rows' = [h \in Heights |-> IF h <= f THEN rows[h] ELSE NoRow]
          /\ st' = [Published(RolledBack(f)) EXCEPT !.bits = st.bits]
    BY <2>1
  <2>3. LinkedIn(rows, cur.path)
    BY <1>1 DEF Stored, Linked, LinkedIn, Height
  <2>4. /\ f \in 0..Len(cur.path) /\ f \in Nat \ {0} /\ cur.path \in Histories
        /\ rows[f].path = UpTo(cur.path, f) /\ Governing(f) \in 1..f
        /\ IsCheckpoint(Governing(f))
        /\ rows[Governing(f)].path[Governing(f)] = cur.path[Governing(f)]
    BY <1>2, <2>2, <2>3, RollBackFinds
  <2>5. cur'.path = UpTo(cur.path, f) /\ cur'.btc = rows[Governing(f)].btc
    BY <1>2, <2>2, <2>4 DEF RolledBack, TypeOK, Points
  <2>6. rows[Governing(f)].btc = cur.path[Governing(f)].seed.tip
    <3>1. Governing(f) \in Heights /\ rows[Governing(f)].path # <<>>
      BY <1>2, <2>2, RolledBackType, RowType
    <3> QED
      BY <2>4, <3>1 DEF Founded, RowsPin
  <2>7. Pinned(cur'.path, cur'.btc)
    <3>1. /\ Len(UpTo(cur.path, f)) = f
          /\ UpTo(cur.path, f)[Governing(f)] = cur.path[Governing(f)]
      BY <2>4, UpToIsHistory
    <3> QED
      BY <2>4, <2>5, <2>6, <3>1 DEF Pinned, Height
  <2>8. \A h \in Heights : Pinned(rows'[h].path, rows'[h].btc)
    BY <1>2, <2>2 DEF Pinned, NoRow
  <2>9. UNCHANGED saved /\ pc' = "sync" /\ st'.path = cur'.path /\ st'.btc = cur'.btc
    BY <1>11, <2>2 DEF RollBack, Published
  <2> QED
    BY <1>2, <2>7, <2>8, <2>9
<1> QED
  BY EveryStep, <1>3, <1>4, <1>5, <1>6, <1>7, <1>8, <1>9, <1>10, <1>11

LEMMA OwnHeightsInit == Init => OwnHeights
BY DEF Init, OwnHeights, Pinned, NoRow, Published, GenesisPoint, Point

LEMMA OwnHeightsHold == Spec => []OwnHeights
<1>1. Founded /\ Stored /\ OwnHeights /\ [Next]_vars => OwnHeights'
  BY OwnHeightsStep
<1> QED
  BY <1>1, OwnHeightsInit, FoundedHolds, StoredHolds, PTL DEF Spec

\* The Bitcoin height that incoming checkpoints are held against is one the
\* node's chain pinned, whether the task mined the checkpoint, took it from a
\* peer, rolled back to it or restarted on it.
THEOREM PublishedHeightHolds == Spec => []PublishedHeightIsPinned
<1>1. OwnHeights => PublishedHeightIsPinned
  BY DEF OwnHeights, Pinned, PublishedHeightIsPinned
<1> QED
  BY <1>1, OwnHeightsHold, PTL
----------------------------------------------------------------------------
(* No mock observation over a real one *)

\* A tip is a number, and so is every Bitcoin height the node keeps.
LEMMA BtcHeightType ==
  ASSUME NEW btc \in BtcHeights
  PROVE  btc \in Nat /\ (btc > 0 <=> btc # 0)
<1>1. btc \in Nat
  BY TipsAreReal DEF BtcHeights
<1> QED
  BY <1>1

LEMMA TipType ==
  ASSUME NEW p \in Histories, NEW h \in 1..Len(p)
  PROVE  p[h].seed.tip \in Nat
<1>1. p[h].seed \in Observations
  BY HistoryType DEF Block
<1> QED
  BY <1>1, ObservationType

LEMMA RealGrows ==
  ASSUME NEW p, NEW q, Grows(q, p)
  PROVE  Real(q) <=> Real(p) \/ (IsCheckpoint(Len(q)) /\ Last(q).seed.tip > 0)
<1>1. /\ Len(q) \in 1..Len(q) /\ Last(q) = q[Len(q)]
      /\ \A h \in 1..Len(p) : q[h] = p[h] /\ h \in 1..Len(q)
      /\ \A h \in 1..Len(q) : h = Len(q) \/ h \in 1..Len(p)
  BY GrowsType
<1>2. ASSUME NEW g \in 1..Len(q), IsCheckpoint(g), q[g].seed.tip > 0
      PROVE  Real(p) \/ (IsCheckpoint(Len(q)) /\ Last(q).seed.tip > 0)
  BY <1>1, <1>2 DEF Real, Height
<1>3. ASSUME NEW g \in 1..Len(p), IsCheckpoint(g), p[g].seed.tip > 0
      PROVE  Real(q)
  BY <1>1, <1>3 DEF Real, Height
<1> QED
  BY <1>1, <1>2, <1>3 DEF Real, Height

\* What a good history says of its checkpoints.
RealStays(p) ==
  \A g, h \in 1..Len(p) :
    g < h /\ IsCheckpoint(g) /\ IsCheckpoint(h) /\ p[g].seed.tip > 0 => p[h].seed.tip > 0

LEMMA UnmockedIs ==
  ASSUME NEW p
  PROVE  p \in Unmocked <=> p \in Histories /\ RealStays(p)
BY DEF Unmocked, RealStays, Height

LEMMA UnmockedGrows ==
  ASSUME NEW p \in Unmocked, NEW q, Grows(q, p),
         IsCheckpoint(Len(q)) /\ Real(p) => Last(q).seed.tip > 0
  PROVE  q \in Unmocked
<1>1. /\ p \in Histories /\ q \in Histories /\ RealStays(p)
  BY UnmockedIs DEF Grows
<1>2. /\ Len(p) \in Nat /\ Len(p) = Len(q) - 1 /\ Len(q) \in Nat /\ Last(q) = q[Len(q)]
      /\ \A h \in 1..Len(p) : q[h] = p[h]
      /\ \A h \in 1..Len(q) : h = Len(q) \/ h \in 1..Len(p)
  BY GrowsType
<1>3. ASSUME NEW g \in 1..Len(q), NEW h \in 1..Len(q), g < h, IsCheckpoint(g), IsCheckpoint(h),
             q[g].seed.tip > 0
      PROVE  q[h].seed.tip > 0
  <2>1. g \in 1..Len(p) /\ p[g].seed.tip > 0
    BY <1>2, <1>3
  <2>2. CASE h = Len(q)
    <3>1. Real(p)
      BY <1>3, <2>1 DEF Real, Height
    <3> QED
      BY <1>2, <1>3, <2>2, <3>1
  <2>3. CASE h \in 1..Len(p)
    BY <1>1, <1>2, <1>3, <2>1, <2>3 DEF RealStays
  <2> QED
    BY <1>2, <2>2, <2>3
<1>4. RealStays(q)
  BY <1>3 DEF RealStays
<1> QED
  BY <1>1, <1>4, UnmockedIs

LEMMA UnmockedUpTo ==
  ASSUME NEW p \in Unmocked, NEW k \in 0..Len(p)
  PROVE  UpTo(p, k) \in Unmocked
<1>1. p \in Histories /\ RealStays(p)
  BY UnmockedIs
<1>2. /\ UpTo(p, k) \in Histories /\ Len(UpTo(p, k)) = k
      /\ \A h \in 1..k : UpTo(p, k)[h] = p[h]
      /\ \A h \in 1..k : h \in 1..Len(p)
  BY <1>1, UpToIsHistory, HistoryType
<1>3. RealStays(UpTo(p, k))
  BY <1>1, <1>2 DEF RealStays
<1> QED
  BY <1>2, <1>3, UnmockedIs

LEMMA UnmockedIsGood == Good(Unmocked)
<1>1. Unmocked \in SUBSET Histories
  BY DEF Unmocked
<1>2. <<>> \in Unmocked
  BY StartsEmpty DEF Unmocked
<1>3. Closed(Unmocked)
  <2> SUFFICES ASSUME NEW p \in Unmocked, NEW b, Len(p) < MaxHeight, Follows(b, p)
               PROVE  Append(p, b) \in Unmocked
    BY DEF Closed
  <2>1. b \in Block /\ (IsCheckpoint(Len(p) + 1) => b.seed.tip > 0) /\ p \in Histories
    BY <1>1, LiveIsReal DEF Follows
  <2>2. Grows(Append(p, b), p) /\ Last(Append(p, b)) = b /\ Len(Append(p, b)) = Len(p) + 1
    BY <2>1, AppendGrows DEF Grows
  <2> QED
    BY <2>1, <2>2, UnmockedGrows
<1> QED
  BY <1>1, <1>2, <1>3, UnmockedUpTo DEF Good

LEMMA UnmockedClaims ==
  ASSUME NEW p \in Unmocked, NEW b \in Block, Len(p) < MaxHeight, NEW own,
         IsCheckpoint(Len(p) + 1) /\ Real(p) => b.seed.tip > 0,
         \A c \in pending : c.path \in Unmocked,
         pending' = KeepFirst(pending, [path |-> Append(p, b), own |-> own])
  PROVE  \A c \in pending' : c.path \in Unmocked
<1>1. p \in Histories
  BY UnmockedIs
<1>2. Grows(Append(p, b), p) /\ Last(Append(p, b)) = b /\ Len(Append(p, b)) = Len(p) + 1
  BY <1>1, AppendGrows DEF Grows
<1>3. Append(p, b) \in Unmocked
  BY <1>2, UnmockedGrows
<1>4. \A c \in pending' : c \in pending \/ c = [path |-> Append(p, b), own |-> own]
  BY KeepFirstAdds
<1> SUFFICES ASSUME NEW c \in pending' PROVE c.path \in Unmocked
  OBVIOUS
<1>5. c \in pending \/ c = [path |-> Append(p, b), own |-> own]
  BY <1>4
<1>6. CASE c = [path |-> Append(p, b), own |-> own]
  <2>1. c.path = Append(p, b)
    BY <1>6
  <2> QED
    BY <1>3, <2>1
<1> QED
  BY <1>5, <1>6

\* A claim for a checkpoint that pins a real tip is one the node has observed.
ClaimsKnown(claims, seen) ==
  \A c \in claims : IsCheckpoint(Height(c.path)) /\ Last(c.path).seed.tip > 0 => seen.tip > 0

LEMMA ClaimsKnownAdds ==
  ASSUME NEW p \in Histories, NEW b \in Block, Len(p) < MaxHeight, NEW own, NEW seen,
         IsCheckpoint(Len(p) + 1) /\ b.seed.tip > 0 => seen.tip > 0,
         ClaimsKnown(pending, seen),
         pending' = KeepFirst(pending, [path |-> Append(p, b), own |-> own])
  PROVE  ClaimsKnown(pending', seen)
<1>1. Last(Append(p, b)) = b /\ Len(Append(p, b)) = Len(p) + 1
  BY AppendGrows DEF Grows
<1>2. \A c \in pending' : c \in pending \/ c = [path |-> Append(p, b), own |-> own]
  BY KeepFirstAdds
<1> SUFFICES ASSUME NEW c \in pending', IsCheckpoint(Height(c.path)), Last(c.path).seed.tip > 0
             PROVE  seen.tip > 0
  BY DEF ClaimsKnown
<1>3. c \in pending \/ c = [path |-> Append(p, b), own |-> own]
  BY <1>2
<1>4. CASE c = [path |-> Append(p, b), own |-> own]
  <2>1. c.path = Append(p, b)
    BY <1>4
  <2> QED
    BY <1>1, <2>1 DEF Height
<1> QED
  BY <1>3, <1>4 DEF ClaimsKnown

\* A claim of a peer that pins a real tip is held against an observed one.
LEMMA PeerClaimIsKnown ==
  ASSUME TypeOK, NEW seed \in Live, Plausible(seed, st.btc, obs.tip)
  PROVE  obs.tip > 0
<1>1. obs \in Observations /\ seed.tip \in Tips /\ FirstTip \in Nat /\ Tolerance \in Nat
      /\ MaxTip \in Nat /\ FirstTip > Tolerance
  BY LiveIsReal, ParameterAssumption DEF TypeOK, Observations
<1>2. obs.tip \in Nat
  BY <1>1, ObservationType
<1>3. seed.tip - obs.tip <= Tolerance
  BY <1>1, <1>2 DEF Plausible, Tips
<1> QED
  BY <1>1, <1>2, <1>3 DEF Tips

\* What was observed stays observed until a failed fetch is written over it.
LEMMA SeenStays ==
  ASSUME TypeOK, NEW who \in {"task", "observer"}, Writes(who), fetched[who] # NoFetch,
         ~blinded', obs.tip > 0
  PROVE  obs'.tip > 0
<1>1. obs' = fetched[who] /\ fetched[who] \in Live \cup {Mock}
  BY DEF Writes, TypeOK
<1>2. obs # Mock
  BY DEF Mock
<1>3. fetched[who] # Mock
  BY <1>2 DEF Writes
<1> QED
  BY <1>1, <1>3, LiveIsReal

LEMMA UnmockedHeld ==
  ASSUME Founded, Held \subseteq Unmocked, RealIsKnown, [Next]_vars
  PROVE  Held' \subseteq Unmocked
<1>1. TypeOK /\ cur.path \in Unmocked /\ st.path \in Unmocked
      /\ \A c \in pending : c.path \in Unmocked
  BY HeldIs DEF Founded
<1>2. ASSUME Mine \/ MineCheckpoint PROVE \A c \in pending' : c.path \in Unmocked
  <2>1. PICK seed \in Observations :
          /\ MineWith(seed) /\ Height(cur.path) < MaxMined
          /\ IsCheckpoint(Len(cur.path) + 1) /\ Real(cur.path) => seed.tip > 0
    <3>1. CASE Mine
      BY <1>1, <3>1 DEF Mine, TypeOK, Points, Height
    <3>2. CASE MineCheckpoint
      <4>1. /\ fetched.task \in Observations /\ Height(cur.path) < MaxMined
            /\ MineWith(fetched.task)
        BY <1>1, <3>2 DEF MineCheckpoint, Founded, FetchHasCome, TypeOK, Observations
      <4>2. ASSUME Real(cur.path) PROVE fetched.task.tip # 0
        <5>1. ~(fetched.task.tip = 0 /\ cur.btc > 0) /\ pc = "fetch"
          BY <3>2 DEF MineCheckpoint, Blocked
        <5> QED
          BY <4>2, <5>1 DEF RealIsKnown
      <4>3. fetched.task.tip \in Nat
        BY <4>1, ObservationType
      <4> QED
        BY <4>1, <4>2, <4>3
    <3> QED
      BY <1>2, <3>1, <3>2
  <2>2. PICK b \in Block :
          /\ Len(cur.path) < MaxHeight /\ b.seed = seed
          /\ pending' = KeepFirst(pending, [path |-> Append(cur.path, b), own |-> TRUE])
    BY <1>1, <2>1, MineAdds
  <2> QED
    BY <1>1, <2>1, <2>2, UnmockedClaims
<1>3. ASSUME PeerClaim PROVE \A c \in pending' : c.path \in Unmocked
  <2>1. PICK b \in Block :
          /\ Len(st.path) < MaxHeight
          /\ IsCheckpoint(Len(st.path) + 1) => b.seed \in Live
          /\ pending' = KeepFirst(pending, [path |-> Append(st.path, b), own |-> FALSE])
    BY <1>1, <1>3, PeerClaimAdds
  <2> QED
    BY <1>1, <2>1, LiveIsReal, UnmockedClaims
<1> QED
  BY <1>2, <1>3, UnmockedIsGood, HeldStays

LEMMA RealIsKnownStep ==
  ASSUME Founded, Stored, Held \subseteq Unmocked, RealIsKnown, [Next]_vars, ~blinded', ~strayed'
  PROVE  RealIsKnown'
<1>1. /\ TypeOK /\ RowsPin /\ ~strayed /\ LinkedIn(rows, cur.path)
      /\ cur.path \in Unmocked /\ peer \in Unmocked
      /\ Real(cur.path) => cur.btc > 0 \/ obs.tip > 0
      /\ ClaimsKnown(pending, obs)
      /\ pc = "fetch" /\ fetched.task.tip = 0 /\ Real(cur.path) => cur.btc > 0
  BY FlagsStay, HeldIs DEF Founded, Stored, Linked, LinkedIn, Height, RealIsKnown, ClaimsKnown
<1> SUFFICES /\ Real(cur'.path) => cur'.btc > 0 \/ obs'.tip > 0
             /\ ClaimsKnown(pending', obs')
             /\ pc' = "fetch" /\ fetched'.task.tip = 0 /\ Real(cur'.path) => cur'.btc > 0
  BY DEF RealIsKnown, ClaimsKnown
<1>2. CASE Start
  <2>1. pending' = {} /\ pc' = "catchup" /\ cur'.path = saved.path
    BY <1>2 DEF Start, Founded, DownHasNoClaims
  <2>2. ASSUME NEW g \in 1..Len(saved.path), IsCheckpoint(g), saved.path[g].seed.tip > 0
        PROVE  cur'.btc > 0
    <3>1. Linked(saved.path) /\ saved \in Points /\ saved.path \in Histories
      BY <1>1, <1>2 DEF Start, TypeOK, Points
    <3>2. g \in 0..Len(saved.path) /\ g > 0 /\ g \in 1..g /\ g \in Heights
      BY <3>1, HistoryType, ParameterAssumption DEF Heights
    <3>3. rows[g].path = UpTo(saved.path, g)
      BY <3>1 DEF Linked, Height
    <3>4. rows[g].path # <<>> /\ rows[g].path[g] = saved.path[g]
      BY <3>1, <3>2, <3>3, UpToIsHistory
    <3>5. rows[g].btc > 0
      BY <1>1, <2>2, <3>2, <3>4 DEF RowsPin
    <3>6. PinnedRows # {}
      BY <3>2, <3>5 DEF PinnedRows
    <3>7. LatestCheckpoint.btc > 0 /\ LatestCheckpoint.btc \in BtcHeights
      BY <1>1, <3>6, LatestExists, RowType DEF LatestCheckpoint
    <3>8. saved.btc \in Nat /\ LatestCheckpoint.btc \in Nat
      BY <3>1, <3>7, BtcHeightType DEF Points
    <3>9. CASE Restores
      BY <1>2, <3>1, <3>7, <3>9 DEF Start, Points
    <3>10. CASE ~Restores
      <4>1. cur'.btc = saved.btc /\ saved.btc >= LatestCheckpoint.btc
        BY <1>2, <3>6, <3>8, <3>10 DEF Start, Restores
      <4> QED
        BY <3>7, <3>8, <4>1
    <3> QED
      BY <3>9, <3>10
  <2> QED
    BY <2>1, <2>2 DEF Real, Height, ClaimsKnown
<1>3. CASE Crash
  <2>1. pending' = {} /\ pc' = "down" /\ cur'.path = <<>>
    BY <1>3, StartsEmpty DEF Crash
  <2>2. ~Real(<<>>)
    BY DEF Real, Height
  <2> QED
    BY <2>1, <2>2 DEF ClaimsKnown
<1>4. CASE ObserverFetches
  <2>1. UNCHANGED <<pending, cur, obs, pc>> /\ fetched'.task = fetched.task
    BY <1>1, <1>4 DEF ObserverFetches, TypeOK
  <2> QED
    BY <1>1, <2>1
<1>5. CASE ObserverWrites
  <2>1. /\ UNCHANGED <<pending, cur, pc>> /\ fetched'.task = fetched.task
        /\ obs.tip > 0 => obs'.tip > 0
    BY <1>1, <1>5, WritesType, SeenStays DEF ObserverWrites
  <2> QED
    BY <1>1, <2>1 DEF ClaimsKnown
<1>6. CASE PeerClaim
  <2>1. PICK b \in Block :
          /\ Len(st.path) < MaxHeight
          /\ IsCheckpoint(Len(st.path) + 1) => b.seed \in Live /\ Plausible(b.seed, st.btc, obs.tip)
          /\ pending' = KeepFirst(pending, [path |-> Append(st.path, b), own |-> FALSE])
    BY <1>1, <1>6, PeerClaimAdds
  <2>2. IsCheckpoint(Len(st.path) + 1) => obs.tip > 0
    BY <1>1, <2>1, PeerClaimIsKnown
  <2>3. ClaimsKnown(pending', obs)
    BY <1>1, <2>1, <2>2, ClaimsKnownAdds DEF TypeOK, States
  <2>4. UNCHANGED <<cur, obs, pc, fetched>>
    BY <1>6 DEF PeerClaim
  <2> QED
    BY <1>1, <2>3, <2>4
<1>7. CASE CatchUp \/ SyncEnd \/ ReconcileForward \/ SkipReconcile \/ RetryFetch
  <2>1. UNCHANGED <<pending, cur, obs>> /\ pc' # "fetch"
    BY <1>7 DEF CatchUp, SyncEnd, ReconcileForward, SkipReconcile, RetryFetch
  <2> QED
    BY <1>1, <2>1
<1>8. CASE FetchCheckpoint
  <2>1. PICK fresh \in Live \cup {obs} : fetched' = [fetched EXCEPT !.task = fresh]
    BY <1>8 DEF FetchCheckpoint, FetchBtc
  <2>2. UNCHANGED <<pending, cur, obs>> /\ fetched'.task = fresh
    BY <1>1, <1>8, <2>1 DEF FetchCheckpoint, TypeOK
  <2>3. fresh \in Live => fresh.tip > 0 /\ fresh.tip \in Nat
    BY LiveIsReal, TipsAreReal
  <2>4. ASSUME fresh.tip = 0, Real(cur.path) PROVE cur.btc > 0
    <3>1. fresh = obs
      BY <2>3, <2>4
    <3> QED
      BY <1>1, <2>4, <3>1
  <2> QED
    BY <1>1, <2>2, <2>4
<1>9. CASE Mine
  <2>1. /\ UNCHANGED <<obs, cur>> /\ pc' = "grace"
        /\ ~IsCheckpoint(Len(cur.path) + 1) /\ MineWith(cur.seed) /\ Height(cur.path) < MaxMined
    BY <1>9 DEF Mine, MineWith, Height
  <2>2. PICK b \in Block :
          /\ Len(cur.path) < MaxHeight
          /\ pending' = KeepFirst(pending, [path |-> Append(cur.path, b), own |-> TRUE])
    BY <1>1, <2>1, MineAdds DEF TypeOK, Points
  <2>3. ClaimsKnown(pending', obs)
    BY <1>1, <2>1, <2>2, ClaimsKnownAdds DEF TypeOK, Points
  <2> QED
    BY <1>1, <2>1, <2>3
<1>10. CASE MineCheckpoint
  <2>1. /\ Writes("task") /\ MineWith(fetched.task) /\ pc = "fetch" /\ pc' = "grace"
        /\ UNCHANGED cur /\ ~(fetched.task.tip = 0 /\ cur.btc > 0)
        /\ fetched.task # NoFetch /\ Height(cur.path) < MaxMined
    BY <1>10 DEF MineCheckpoint, MineWith, Blocked, Founded, FetchHasCome
  <2>2. /\ fetched.task \in Observations /\ obs' = fetched.task
        /\ cur.path \in Histories
    BY <1>1, <2>1 DEF Writes, TypeOK, Observations, Points
  <2>3. obs'.tip \in Nat
    BY <2>2, ObservationType
  <2>4. Real(cur.path) => obs'.tip > 0
    BY <1>1, <2>1, <2>2, <2>3
  <2>5. PICK b \in Block :
          /\ Len(cur.path) < MaxHeight /\ b.seed = fetched.task
          /\ pending' = KeepFirst(pending, [path |-> Append(cur.path, b), own |-> TRUE])
    BY <1>1, <2>1, <2>2, MineAdds
  <2>6. ClaimsKnown(pending, obs')
    <3>1. obs.tip > 0 => obs'.tip > 0
      BY <1>1, <2>1, SeenStays
    <3> QED
      BY <1>1, <3>1 DEF ClaimsKnown
  <2>7. b.seed.tip > 0 => obs'.tip > 0
    BY <2>2, <2>5
  <2>8. \A seen : seen = obs' => ClaimsKnown(pending', seen)
    <3> TAKE seen
    <3> HAVE seen = obs'
    <3>1. ClaimsKnown(pending, seen) /\ (b.seed.tip > 0 => seen.tip > 0)
      BY <2>6, <2>7
    <3> QED
      BY <2>2, <2>5, <3>1, ClaimsKnownAdds
  <2> QED
    BY <2>1, <2>4, <2>8
<1>11. CASE SyncRecord
  <2> DEFINE n == Len(cur.path) + 1
             q == UpTo(peer, n)
  <2>1. /\ Accepts /\ UNCHANGED obs /\ pc' = "sync" /\ cur' = Synced
        /\ pending' = RetainAbove(pending, n)
    BY <1>11 DEF SyncRecord, Height
  <2>2. Grows(q, cur.path) /\ Len(q) = n
    BY <1>1, <2>1, SyncedGrows DEF Grows
  <2>3. /\ Synced.path = q
        /\ Synced.btc = IF IsCheckpoint(n) THEN SeedOf(q).tip ELSE cur.btc
    BY DEF Synced, Point, Height
  <2>4. q \in Unmocked /\ q \in Histories /\ Len(q) \in Nat \ {0} /\ Last(q) = q[Len(q)]
        /\ Len(cur.path) \in Nat /\ Len(q) \in 1..Len(q)
    <3>1. n \in 0..Len(peer)
      BY <1>1, <2>1, HistoryType DEF Accepts, Height, TypeOK, Points
    <3> QED
      BY <1>1, <2>2, <3>1, UnmockedUpTo, GrowsType DEF Grows
  <2> HIDE DEF q, n
  <2>5. ASSUME Real(q) PROVE Synced.btc > 0 \/ obs.tip > 0
    <3>1. CASE IsCheckpoint(n)
      <4>1. SeedOf(q).tip = Last(q).seed.tip
        BY <2>2, <3>1, SeedOfGrows
      <4>2. PICK g \in 1..Len(q) : IsCheckpoint(g) /\ q[g].seed.tip > 0
        BY <2>5 DEF Real, Height
      <4>3. Last(q).seed.tip > 0
        <5>1. RealStays(q)
          BY <2>4, UnmockedIs
        <5>2. g = Len(q) \/ g < Len(q)
          BY <2>4
        <5> QED
          BY <2>2, <2>4, <3>1, <4>2, <5>1, <5>2 DEF RealStays
      <4> QED
        BY <2>3, <3>1, <4>1, <4>3
    <3>2. CASE ~IsCheckpoint(n)
      BY <1>1, <2>2, <2>3, <2>5, <3>2, RealGrows
    <3> QED
      BY <3>1, <3>2
  <2>6. ClaimsKnown(pending', obs)
    BY <1>1, <2>1 DEF ClaimsKnown, RetainAbove
  <2> QED
    BY <2>1, <2>3, <2>5, <2>6
<1>12. CASE RollBack
  <2>1. PICK p \in PeerChains : \E f \in ForkPoints(p) :
          /\ rows[Governing(f)] # NoRow /\ cur' = RolledBack(f)
          /\ pending' = RetainAbove(pending, f)
    BY <1>12 DEF RollBack
  <2>2. PICK f \in ForkPoints(p) :
          /\ rows[Governing(f)] # NoRow /\ cur' = RolledBack(f)
          /\ pending' = RetainAbove(pending, f)
    BY <2>1
  <2> DEFINE k == Governing(f)
             q == UpTo(cur.path, f)
  <2>3. /\ f \in 0..Len(cur.path) /\ f \in Nat \ {0} /\ cur.path \in Histories
        /\ rows[f].path = q /\ k \in 1..f /\ IsCheckpoint(k)
        /\ rows[k].path[k] = cur.path[k]
    BY <1>1, <2>2, RollBackFinds
  <2>4. cur'.path = q /\ cur'.btc = rows[k].btc
    BY <1>1, <2>2, <2>3 DEF RolledBack, TypeOK, Points
  <2>5. rows[k].btc = cur.path[k].seed.tip
    <3>1. k \in Heights /\ rows[k].path # <<>>
      BY <1>1, <2>2, RolledBackType, RowType
    <3> QED
      BY <1>1, <2>3, <3>1 DEF RowsPin
  <2>6. /\ q \in Unmocked /\ q \in Histories /\ Len(q) = f /\ q[k] = cur.path[k]
    BY <1>1, <2>3, UnmockedUpTo, UpToIsHistory
  <2>7. ASSUME NEW g \in 1..f, IsCheckpoint(g), q[g].seed.tip > 0
        PROVE  cur.path[k].seed.tip > 0
    <3>1. RealStays(q)
      BY <2>6, UnmockedIs
    <3>2. g <= k
      BY <2>3, <2>7, GoverningIsLast
    <3> HIDE DEF q, k
    <3>3. g = k \/ g < k
      BY <2>3, <2>7, <3>2
    <3> QED
      BY <2>3, <2>6, <2>7, <3>1, <3>3 DEF RealStays
  <2>8. ClaimsKnown(pending', obs)
    BY <1>1, <2>2 DEF ClaimsKnown, RetainAbove
  <2>9. obs' = obs /\ pc' = "sync"
    BY <1>12 DEF RollBack
  <2> HIDE DEF q, k
  <2> QED
    BY <2>4, <2>5, <2>6, <2>7, <2>8, <2>9 DEF Real, Height
<1>13. CASE Elect
  <2> DEFINE n == Len(cur.path) + 1
  <2>1. PICK c \in pending :
          /\ Height(c.path) = n /\ cur' = Extended(c) /\ UpTo(c.path, n - 1) = cur.path
          /\ pending' = RetainAbove(pending, n)
    BY <1>13 DEF Elect, Height
  <2>2. UNCHANGED obs /\ pc' = "stored"
    BY <1>13 DEF Elect
  <2>3. Grows(c.path, cur.path) /\ Len(c.path) = n
    BY <1>1, <2>1, ElectedGrows DEF Height
  <2>4. cur'.path = c.path /\ cur'.btc = cur.btc
    BY <2>1 DEF Extended, Point
  <2>5. Real(c.path) => cur.btc > 0 \/ obs.tip > 0
    BY <1>1, <2>3, RealGrows DEF ClaimsKnown, Height
  <2>6. ClaimsKnown(pending', obs)
    BY <1>1, <2>1 DEF ClaimsKnown, RetainAbove
  <2> QED
    BY <2>2, <2>4, <2>5, <2>6
<1>14. CASE Save \/ Publish
  <2>1. UNCHANGED <<pending, cur, obs>> /\ pc' # "fetch"
    BY <1>14 DEF Save, Publish
  <2> QED
    BY <1>1, <2>1
<1>15. CASE UNCHANGED vars
  BY <1>1, <1>15 DEF vars
<1> QED
  BY EveryStep, <1>2, <1>3, <1>4, <1>5, <1>6, <1>7, <1>8, <1>9, <1>10, <1>11, <1>12, <1>13,
     <1>14, <1>15 DEF Observer

LEMMA NeverMockedInit == Init => NeverMocked
<1> SUFFICES ASSUME Init PROVE Held \subseteq Unmocked /\ RealIsKnown
  BY DEF NeverMocked
<1>1. <<>> \in Unmocked
  BY UnmockedIsGood DEF Good
<1>2. Held \subseteq Unmocked
  BY <1>1, StartsEmpty DEF Held, Init, NoRow
<1>3. cur.path = <<>> /\ pending = {}
  BY StartsEmpty DEF Init
<1>4. RealIsKnown
  BY <1>3 DEF RealIsKnown, Real, Height
<1> QED
  BY <1>2, <1>4

LEMMA NeverMockedHolds == Spec => []NeverMocked
<1>1. Founded /\ Stored /\ NeverMocked /\ [Next]_vars => NeverMocked'
  <2> SUFFICES ASSUME Founded, Stored, NeverMocked, [Next]_vars, ~blinded', ~strayed'
               PROVE  Held' \subseteq Unmocked /\ RealIsKnown'
    BY DEF NeverMocked
  <2>1. Held \subseteq Unmocked /\ RealIsKnown
    BY FlagsStay DEF NeverMocked
  <2> QED
    BY <2>1, UnmockedHeld, RealIsKnownStep
<1> QED
  BY <1>1, NeverMockedInit, FoundedHolds, StoredHolds, PTL DEF Spec

\* A node whose chain has pinned a real Bitcoin tip never pins a mock one over
\* it: not in an outage, nor after a restart or a rollback in one.
THEOREM MockNeverFollowsReal == Spec => []NoMockOverReal
<1>1. NeverMocked => NoMockOverReal
  <2> SUFFICES ASSUME NeverMocked, ~blinded, ~strayed, NEW g \in 1..Height(cur.path),
                      NEW h \in 1..Height(cur.path), g < h, IsCheckpoint(g), IsCheckpoint(h),
                      cur.path[g].seed.tip > 0
               PROVE  cur.path[h].seed.tip > 0
    BY DEF NoMockOverReal
  <2>1. RealStays(cur.path)
    BY HeldIs, UnmockedIs DEF NeverMocked
  <2> QED
    BY <2>1 DEF RealStays, Height
<1> QED
  BY <1>1, NeverMockedHolds, PTL
==============================================================================
