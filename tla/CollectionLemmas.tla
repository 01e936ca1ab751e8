-------------------------- MODULE CollectionLemmas --------------------------
(***************************************************************************)
(* Facts about collections that the proofs of several components use: what  *)
(* filtering a sequence gives, and that a fold over a sequence or a set is  *)
(* the run of its steps.                                                    *)
(*                                                                         *)
(* The folds of the community modules are recursive functions on the        *)
(* subsets of a set.  That such a function exists, and that it stays in a   *)
(* set its step does not leave, is shown once, by the least counterexample. *)
(***************************************************************************)
EXTENDS Selection, SequencesExt, FiniteSetTheorems, WellFoundedInduction, TLAPS

\* Every set of naturals that is not empty has a least element.
LEMMA LeastOf ==
  ASSUME NEW S \in SUBSET Nat, S # {}
  PROVE  \E n \in S : \A m \in S : m >= n
<1>1. PICK n \in S : \A m \in S : ~(<<m, n>> \in OpToRel(<, Nat))
  BY NatLessThanWellFounded, WFMin
<1>2. ASSUME NEW m \in S PROVE m >= n
  <2>1. m \in Nat /\ n \in Nat
    OBVIOUS
  <2>2. ~(m < n)
    BY <1>1, <2>1 DEF OpToRel
  <2> QED
    BY <2>1, <2>2
<1> QED
  BY <1>2

\* The least position left when k positions were taken has rank k + 1.
LEMMA NextRank ==
  ASSUME NEW at \in SUBSET Nat, IsFiniteSet(at), NEW U \in SUBSET at,
         Cardinality(U) < Cardinality(at),
         \A j \in at \ U : \A i \in U : i < j
  PROVE  \E m \in at : Rank(at, m) = Cardinality(U) + 1
<1>1. IsFiniteSet(U) /\ U # at
  <2>1. IsFiniteSet(U) /\ Cardinality(at) \in Nat
    BY FS_Subset, FS_CardinalityType
  <2> QED
    BY <2>1
<1>2. PICK m \in at \ U : \A j \in at \ U : j >= m
  BY <1>1, LeastOf
<1>3. {j \in at : j <= m} = U \cup {m}
  <2>1. ASSUME NEW j \in at, j <= m PROVE j \in U \cup {m}
    BY <2>1, <1>2
  <2>2. ASSUME NEW j \in U PROVE j \in at /\ j <= m
    BY <2>2, <1>2
  <2> QED
    BY <2>1, <2>2, <1>2
<1>4. Cardinality(U \cup {m}) = Cardinality(U) + 1
  BY <1>1, <1>2, FS_AddElement
<1> QED
  BY <1>2, <1>3, <1>4 DEF Rank

\* Every rank up to the number of positions is somebody's.
LEMMA RankExists ==
  ASSUME NEW at \in SUBSET Nat, IsFiniteSet(at)
  PROVE  \A k \in 1..Cardinality(at) : \E i \in at : Rank(at, i) = k
<1> DEFINE n == Cardinality(at)
           Bad == {k \in 1..n : ~\E i \in at : Rank(at, i) = k}
<1>0. n \in Nat
  BY FS_CardinalityType
<1>1. SUFFICES ASSUME Bad # {} PROVE FALSE
  OBVIOUS
<1>2. PICK k \in Bad : \A m \in Bad : m >= k
  <2>1. Bad \in SUBSET Nat
    BY <1>0
  <2> QED
    BY <1>1, <2>1, LeastOf
<1>3. k \in 1..n
  OBVIOUS
<1>4. CASE k = 1
  <2>1. {} \in SUBSET at /\ Cardinality({}) = 0
    BY FS_EmptySet
  <2>2. \E m \in at : Rank(at, m) = Cardinality({}) + 1
    BY <2>1, <1>0, <1>3, NextRank
  <2> QED
    BY <2>1, <2>2, <1>4
<1>5. CASE k # 1
  <2>1. k - 1 \in 1..n /\ k - 1 \notin Bad
    BY <1>0, <1>2, <1>3, <1>5
  <2>2. PICK i \in at : Rank(at, i) = k - 1
    BY <2>1
  <2> DEFINE U == {j \in at : j <= i}
  <2>3. Cardinality(U) = k - 1
    BY <2>2 DEF Rank
  <2>4. U \in SUBSET at /\ \A j \in at \ U : \A l \in U : l < j
    OBVIOUS
  <2>5. \E m \in at : Rank(at, m) = Cardinality(U) + 1
    <3> HIDE DEF U
    <3> QED
      BY <2>3, <2>4, <1>0, <1>3, NextRank
  <2> QED
    BY <2>3, <2>5, <1>3, <1>0
<1> QED
  BY <1>4, <1>5

\* The position of a rank is one of the positions, and has that rank.
LEMMA NthIsKept ==
  ASSUME NEW at \in SUBSET Nat, IsFiniteSet(at), NEW k \in 1..Cardinality(at)
  PROVE  Nth(at, k) \in at /\ Rank(at, Nth(at, k)) = k
BY RankExists DEF Nth

\* Filtering keeps the order: a later element stands at a later position.
LEMMA NthAscends ==
  ASSUME NEW at \in SUBSET Nat, IsFiniteSet(at),
         NEW k \in 1..Cardinality(at), NEW l \in 1..Cardinality(at), k < l
  PROVE  Nth(at, k) < Nth(at, l)
<1> DEFINE i == Nth(at, k)
           j == Nth(at, l)
<1>1. /\ i \in at /\ j \in at /\ i \in Nat /\ j \in Nat
      /\ Rank(at, i) = k /\ Rank(at, j) = l
  BY NthIsKept
<1> HIDE DEF i, j
<1>2. SUFFICES ASSUME j <= i PROVE FALSE
  BY <1>1 DEF i, j
<1>3. /\ {m \in at : m <= j} \in SUBSET {m \in at : m <= i}
      /\ {m \in at : m <= i} \in SUBSET at
  <2>1. \A m \in at : m <= j => m <= i
    BY <1>1, <1>2
  <2> QED
    BY <2>1
<1>4. IsFiniteSet({m \in at : m <= i})
  BY <1>3, FS_Subset
<1>5. Rank(at, j) <= Rank(at, i)
  BY <1>3, <1>4, FS_Subset DEF Rank
<1>6. k \in Int /\ l \in Int
  BY FS_CardinalityType
<1> QED
  BY <1>1, <1>5, <1>6

\* Filtering a sequence gives one with elements of it.
LEMMA KeptIsSeq ==
  ASSUME NEW S, NEW s \in Seq(S), NEW at \in SUBSET DOMAIN s
  PROVE  /\ IsFiniteSet(at)
         /\ Kept(s, at) \in Seq(S)
         /\ Len(Kept(s, at)) = Cardinality(at)
         /\ Cardinality(at) \in Nat /\ Cardinality(at) <= Len(s)
         /\ \A k \in 1..Cardinality(at) : Kept(s, at)[k] = s[Nth(at, k)] /\ Nth(at, k) \in at
<1>1. DOMAIN s = 1..Len(s) /\ Len(s) \in Nat
  OBVIOUS
<1>2. IsFiniteSet(1..Len(s)) /\ Cardinality(1..Len(s)) = Len(s)
  <2>1. 1 \in Int /\ Len(s) \in Int /\ (1 > Len(s) <=> Len(s) = 0)
    BY <1>1
  <2>2. Cardinality(1..Len(s)) = IF 1 > Len(s) THEN 0 ELSE Len(s) - 1 + 1
    BY <2>1, FS_Interval
  <2> QED
    BY <2>1, <2>2, FS_Interval
<1>3. IsFiniteSet(at) /\ Cardinality(at) \in Nat /\ Cardinality(at) <= Len(s)
  BY <1>1, <1>2, FS_Subset, FS_CardinalityType
<1>4. at \in SUBSET Nat
  BY <1>1
<1>5. \A k \in 1..Cardinality(at) : Nth(at, k) \in at
  BY <1>3, <1>4, NthIsKept
<1>6. \A k \in 1..Cardinality(at) : s[Nth(at, k)] \in S
  BY <1>5
<1>7. Kept(s, at) \in [1..Cardinality(at) -> S]
  BY <1>6 DEF Kept
<1>8. Kept(s, at) \in Seq(S) /\ Len(Kept(s, at)) = Cardinality(at)
  BY <1>3, <1>7
<1> QED
  BY <1>3, <1>5, <1>8 DEF Kept

\* The community modules choose a least and a greatest element.
LEMMA MinOfTwo ==
  ASSUME NEW a \in Int, NEW b \in Int
  PROVE  Min({a, b}) = IF a <= b THEN a ELSE b
<1>1. Min({a, b}) \in {a, b} /\ \A y \in {a, b} : Min({a, b}) <= y
  <2>1. \E x \in {a, b} : \A y \in {a, b} : x <= y
    OBVIOUS
  <2> QED
    BY <2>1 DEF Min
<1> QED
  BY <1>1

LEMMA MaxOfTwo ==
  ASSUME NEW a \in Int, NEW b \in Int
  PROVE  Max({a, b}) = IF a >= b THEN a ELSE b
<1>1. Max({a, b}) \in {a, b} /\ \A y \in {a, b} : Max({a, b}) >= y
  <2>1. \E x \in {a, b} : \A y \in {a, b} : x >= y
    OBVIOUS
  <2> QED
    BY <2>1 DEF Max
<1> QED
  BY <1>1

----------------------------------------------------------------------------
(* Recursion on the subsets of a finite set *)

\* ch chooses an element of every subset, and g takes it away and steps.
Chooses(ch, S) == \A s \in SUBSET S : s # {} => ch[s] \in s
Takes(g, S, base, op, ch) ==
  \A s \in SUBSET S : g[s] = IF s = {} THEN base ELSE op[<<g[s \ {ch[s]}], ch[s]>>]

\* A function that takes one chosen element at a time away exists, for every
\* step that does not leave the set of values.
LEMMA RecursionOnSubsets ==
  ASSUME NEW S, IsFiniteSet(S), NEW V, NEW base \in V, NEW op \in [V \X S -> V],
         NEW ch, Chooses(ch, S)
  PROVE  \E g \in [SUBSET S -> V] : Takes(g, S, base, op, ch)
<1> USE DEF Chooses
<1> DEFINE Small(n) == {s \in SUBSET S : Cardinality(s) <= n}
           Runs(g, n) == \A s \in Small(n) :
             g[s] = IF s = {} THEN base ELSE op[<<g[s \ {ch[s]}], ch[s]>>]
           Bad == {n \in Nat : ~\E g \in [Small(n) -> V] : Runs(g, n)}
<1>1. \A s \in SUBSET S : IsFiniteSet(s) /\ Cardinality(s) \in Nat /\ Cardinality(s) <= Cardinality(S)
  BY FS_Subset, FS_CardinalityType
<1>2. ASSUME NEW s \in SUBSET S, s # {}
      PROVE  /\ s \ {ch[s]} \in SUBSET S
             /\ Cardinality(s \ {ch[s]}) = Cardinality(s) - 1
             /\ Cardinality(s) # 0
  <2>1. Cardinality(s \ {ch[s]}) = Cardinality(s) - 1
    BY <1>1, <1>2, FS_RemoveElement
  <2> QED
    BY <1>1, <1>2, <2>1, FS_EmptySet
<1>3. Bad = {}
  <2> SUFFICES ASSUME Bad # {} PROVE FALSE
    OBVIOUS
  <2>1. PICK n \in Bad : \A m \in Bad : m >= n
    <3>1. Bad \in SUBSET Nat
      OBVIOUS
    <3> HIDE DEF Bad
    <3> QED
      BY <3>1, LeastOf
  <2>2. n \in Nat /\ ~\E g \in [Small(n) -> V] : Runs(g, n)
    OBVIOUS
  <2>3. CASE n = 0
    <3> DEFINE g == [s \in Small(0) |-> base]
    <3>1. g \in [Small(0) -> V]
      OBVIOUS
    <3>2. \A s \in Small(0) : s = {}
      <4>1. ASSUME NEW s \in SUBSET S, Cardinality(s) <= 0 PROVE s = {}
        <5>1. Cardinality(s) = 0
          BY <1>1, <4>1
        <5> QED
          BY <1>2, <5>1
      <4> QED
        BY <4>1
    <3>3. Runs(g, 0)
      BY <3>2
    <3> QED
      BY <2>2, <2>3, <3>1, <3>3
  <2>4. CASE n # 0
    <3>1. n - 1 \in Nat /\ n - 1 \notin Bad
      <4> HIDE DEF Bad
      <4> QED
        BY <2>1, <2>2, <2>4
    <3>2. PICK g \in [Small(n - 1) -> V] : Runs(g, n - 1)
      BY <3>1
    <3> DEFINE h == [s \in Small(n) |-> IF s = {} THEN base ELSE op[<<g[s \ {ch[s]}], ch[s]>>]]
    <3>3. ASSUME NEW s \in Small(n), s # {} PROVE s \ {ch[s]} \in Small(n - 1) /\ ch[s] \in S
      BY <1>1, <1>2, <2>2, <3>3
    <3>4. h \in [Small(n) -> V]
      <4>1. ASSUME NEW s \in Small(n), s # {} PROVE op[<<g[s \ {ch[s]}], ch[s]>>] \in V
        <5>1. g[s \ {ch[s]}] \in V /\ ch[s] \in S
          BY <3>3, <4>1
        <5> QED
          BY <5>1
      <4> QED
        BY <4>1
    <3>5. \A s \in Small(n - 1) : s \in Small(n) /\ h[s] = g[s]
      <4>1. ASSUME NEW s \in Small(n - 1) PROVE s \in Small(n)
        BY <1>1, <2>2
      <4> QED
        BY <3>2, <4>1
    <3>6. Runs(h, n)
      <4>1. ASSUME NEW s \in Small(n), s # {} PROVE h[s] = op[<<h[s \ {ch[s]}], ch[s]>>]
        <5>1. h[s] = op[<<g[s \ {ch[s]}], ch[s]>>]
          BY <4>1
        <5>2. h[s \ {ch[s]}] = g[s \ {ch[s]}]
          BY <3>3, <3>5, <4>1
        <5> QED
          BY <5>1, <5>2
      <4> QED
        BY <4>1
    <3> QED
      BY <2>2, <3>4, <3>6
  <2> QED
    BY <2>3, <2>4
<1>4. Cardinality(S) \in Nat /\ Small(Cardinality(S)) = SUBSET S
  BY <1>1, FS_CardinalityType
<1>5. PICK g \in [Small(Cardinality(S)) -> V] : Runs(g, Cardinality(S))
  BY <1>3, <1>4
<1> QED
  BY <1>4, <1>5 DEF Takes

\* Such a function has no other values than those its step preserves.
LEMMA FoldStaysIn ==
  ASSUME NEW S, IsFiniteSet(S), NEW V, NEW ch, NEW h, h[{}] \in V,
         \A s \in SUBSET S : s # {} => ch[s] \in s /\ (h[s \ {ch[s]}] \in V => h[s] \in V)
  PROVE  \A s \in SUBSET S : h[s] \in V
<1> DEFINE Bad == {n \in Nat : \E s \in SUBSET S : Cardinality(s) = n /\ h[s] \notin V}
<1>1. \A s \in SUBSET S : IsFiniteSet(s) /\ Cardinality(s) \in Nat
  BY FS_Subset, FS_CardinalityType
<1>2. SUFFICES ASSUME Bad # {} PROVE FALSE
  BY <1>1
<1>3. PICK n \in Bad : \A m \in Bad : m >= n
  <2>1. Bad \in SUBSET Nat
    OBVIOUS
  <2> HIDE DEF Bad
  <2> QED
    BY <1>2, <2>1, LeastOf
<1>4. PICK s \in SUBSET S : Cardinality(s) = n /\ h[s] \notin V
  OBVIOUS
<1>5. s # {} /\ ch[s] \in s /\ h[s \ {ch[s]}] \notin V
  BY <1>4
<1>6. Cardinality(s \ {ch[s]}) = n - 1
  BY <1>1, <1>4, <1>5, FS_RemoveElement
<1>7. n - 1 \in Bad
  <2>1. s \ {ch[s]} \in SUBSET S
    OBVIOUS
  <2> QED
    BY <1>1, <1>5, <1>6, <2>1
<1> QED
  BY <1>3, <1>7

\* The last position of a stretch of a sequence, taken away, leaves the stretch
\* before it.
LEMMA LastPosition ==
  ASSUME NEW n \in Nat
  PROVE  /\ \A s \in SUBSET (1..n) : s # {} => Max(s) \in s
         /\ \A k \in 1..n : Max(1..k) = k /\ (1..k) \ {k} = 1..(k - 1)
<1>1. ASSUME NEW s \in SUBSET (1..n), s # {} PROVE Max(s) \in s
  <2> DEFINE D == {n - x : x \in s}
  <2>1. D \in SUBSET Nat /\ D # {}
    <3>1. \A x \in s : x \in 1..n /\ n - x \in Nat
      OBVIOUS
    <3> QED
      BY <1>1, <3>1
  <2>2. PICK d \in D : \A m \in D : m >= d
    <3> HIDE DEF D
    <3> QED
      BY <2>1, LeastOf
  <2>3. PICK x \in s : d = n - x
    OBVIOUS
  <2>4. \A y \in s : x >= y
    <3>1. ASSUME NEW y \in s PROVE x >= y
      <4>1. n - y >= d
        BY <2>2
      <4> QED
        BY <2>3, <4>1
    <3> QED
      BY <3>1
  <2> QED
    BY <2>4 DEF Max
<1>2. ASSUME NEW k \in 1..n PROVE Max(1..k) = k /\ (1..k) \ {k} = 1..(k - 1)
  <2>1. \A x \in 1..k : (\A y \in 1..k : x >= y) <=> x = k
    OBVIOUS
  <2> QED
    BY <2>1 DEF Max
<1> QED
  BY <1>1, <1>2

\* g is the recursive function of a fold over seq (FoldLeft) that starts with base.
FoldsOver(g, seq, base, op) ==
  g = [s \in SUBSET DOMAIN seq |->
         IF s = {} THEN base ELSE op[<<g[s \ {Max(s)}], seq[Max(s)]>>]]

\* It exists for every step that does not leave a set of values.
LEMMA FoldExists ==
  ASSUME NEW T, NEW seq \in Seq(T), NEW V, NEW base \in V, NEW op \in [V \X T -> V]
  PROVE  \E g \in [SUBSET DOMAIN seq -> V] : FoldsOver(g, seq, base, op)
<1> DEFINE S == DOMAIN seq
           ch == [s \in SUBSET S |-> Max(s)]
           step == [p \in V \X S |-> op[<<p[1], seq[p[2]]>>]]
<1>1. S = 1..Len(seq) /\ Len(seq) \in Nat
  OBVIOUS
<1>2. IsFiniteSet(S)
  BY <1>1, FS_Interval
<1>3. \A s \in SUBSET S : s # {} => ch[s] \in s
  BY <1>1, LastPosition
<1>4. step \in [V \X S -> V]
  <2>1. ASSUME NEW p \in V \X S PROVE op[<<p[1], seq[p[2]]>>] \in V
    OBVIOUS
  <2> QED
    BY <2>1
<1>5. PICK g \in [SUBSET S -> V] : \A s \in SUBSET S :
           g[s] = IF s = {} THEN base ELSE step[<<g[s \ {ch[s]}], ch[s]>>]
  <2> HIDE DEF S, ch, step
  <2>1. Chooses(ch, S)
    BY <1>3 DEF Chooses
  <2>2. \E g \in [SUBSET S -> V] : Takes(g, S, base, step, ch)
    BY <1>2, <1>4, <2>1, RecursionOnSubsets
  <2> QED
    BY <2>2 DEF Takes
<1>6. ASSUME NEW s \in SUBSET S, s # {}
      PROVE  g[s] = op[<<g[s \ {Max(s)}], seq[Max(s)]>>]
  <2>1. ch[s] = Max(s) /\ Max(s) \in S
    BY <1>1, <1>6, LastPosition
  <2>2. g[s \ {Max(s)}] \in V
    OBVIOUS
  <2>3. step[<<g[s \ {Max(s)}], Max(s)>>] = op[<<g[s \ {Max(s)}], seq[Max(s)]>>]
    BY <2>1, <2>2
  <2> QED
    BY <1>5, <1>6, <2>1, <2>3
<1>7. g = [s \in SUBSET S |-> IF s = {} THEN base ELSE op[<<g[s \ {Max(s)}], seq[Max(s)]>>]]
  BY <1>5, <1>6
<1> QED
  BY <1>7 DEF FoldsOver

\* The stretches of a sequence, each with its last position taken away: what a
\* fold over the sequence passes through.
LEMMA Stretches ==
  ASSUME NEW T, NEW seq \in Seq(T)
  PROVE  DOMAIN seq = 1..Len(seq)
         /\ 1..Len(seq) \in SUBSET DOMAIN seq
         /\ 1..0 = {}
         /\ \A k \in 1..Len(seq) : /\ 1..k \in SUBSET DOMAIN seq /\ 1..k # {}
                                   /\ Max(1..k) = k
                                   /\ (1..k) \ {Max(1..k)} = 1..(k - 1)
<1>1. DOMAIN seq = 1..Len(seq) /\ Len(seq) \in Nat
  OBVIOUS
<1> QED
  BY <1>1, LastPosition

\* What a first element has and every step hands on, all have.
LEMMA RunStaysIn ==
  ASSUME NEW n \in Nat, NEW V, NEW run, run[0] \in V,
         \A k \in 1..n : run[k - 1] \in V => run[k] \in V
  PROVE  \A k \in 0..n : run[k] \in V
<1> DEFINE Bad == {k \in 0..n : run[k] \notin V}
<1>1. SUFFICES ASSUME Bad # {} PROVE FALSE
  OBVIOUS
<1>2. PICK k \in Bad : \A m \in Bad : m >= k
  <2>1. Bad \in SUBSET Nat
    OBVIOUS
  <2> HIDE DEF Bad
  <2> QED
    BY <1>1, <2>1, LeastOf
<1>3. k \in 0..n /\ k # 0 /\ run[k] \notin V
  OBVIOUS
<1>4. k \in 1..n /\ k - 1 \in 0..n /\ run[k - 1] \notin V
  BY <1>3
<1>5. k - 1 \in Bad
  BY <1>4
<1> QED
  BY <1>2, <1>3, <1>5

\* The same of a set of positions.
LEMMA StepByStep ==
  ASSUME NEW n \in Nat, NEW G, 0 \in G, \A k \in 1..n : k - 1 \in G => k \in G
  PROVE  \A k \in 0..n : k \in G
<1> DEFINE run == [k \in 0..n |-> k]
<1>1. run[0] \in G /\ \A k \in 1..n : run[k - 1] \in G => run[k] \in G
  OBVIOUS
<1> HIDE DEF run
<1>2. \A k \in 0..n : run[k] \in G
  BY <1>1, RunStaysIn
<1> QED
  BY <1>2 DEF run

\* Runs that begin alike and step alike are alike.
LEMMA RunsAgree ==
  ASSUME NEW n \in Nat, NEW r, NEW q, r[0] = q[0],
         \A k \in 1..n : r[k - 1] = q[k - 1] => r[k] = q[k]
  PROVE  \A k \in 0..n : r[k] = q[k]
<1> DEFINE V == {TRUE}
           same == [k \in 0..n |-> r[k] = q[k]]
<1>1. \A k \in 0..n : same[k] \in V <=> r[k] = q[k]
  OBVIOUS
<1>2. same[0] \in V
  <2>1. 0 \in 0..n
    OBVIOUS
  <2> HIDE DEF same, V
  <2> QED
    BY <1>1, <2>1
<1>3. ASSUME NEW k \in 1..n, same[k - 1] \in V PROVE same[k] \in V
  <2>1. k \in 0..n /\ k - 1 \in 0..n
    OBVIOUS
  <2> HIDE DEF same, V
  <2> QED
    BY <1>1, <1>3, <2>1
<1> HIDE DEF same, V
<1>4. \A k \in 0..n : same[k] \in V
  BY <1>2, <1>3, RunStaysIn
<1> QED
  BY <1>1, <1>4

\* f takes the last position of a sequence away, at every step.
TakesLast(f, seq, V, base, op) ==
  /\ f[{}] = base
  /\ \A s \in SUBSET DOMAIN seq :
       s # {} /\ f[s \ {Max(s)}] \in V => f[s] = op[<<f[s \ {Max(s)}], seq[Max(s)]>>]

\* run goes through a sequence from its first element on.
GoesThrough(run, seq, V, base, op) ==
  /\ run[0] = base
  /\ \A k \in 0..Len(seq) : run[k] \in V
  /\ \A k \in 1..Len(seq) : run[k] = op[<<run[k - 1], seq[k]>>]

HasRun(f, seq, V, base, op) ==
  \E run : GoesThrough(run, seq, V, base, op) /\ f[DOMAIN seq] = run[Len(seq)]

\* The one is the other.
LEMMA FoldRuns ==
  ASSUME NEW T, NEW seq \in Seq(T), NEW V, NEW base \in V, NEW op \in [V \X T -> V], NEW f,
         TakesLast(f, seq, V, base, op)
  PROVE  HasRun(f, seq, V, base, op)
<1> DEFINE n == Len(seq)
           run == [k \in 0..n |-> f[1..k]]
<1>1. n \in Nat /\ DOMAIN seq = 1..n /\ \A k \in 1..n : seq[k] \in T
  OBVIOUS
<1>2. /\ 1..0 = {}
      /\ \A k \in 1..n : /\ 1..k \in SUBSET DOMAIN seq /\ 1..k # {}
                         /\ Max(1..k) = k /\ (1..k) \ {Max(1..k)} = 1..(k - 1)
  BY Stretches
<1>3. run[0] = base /\ f[DOMAIN seq] = run[n]
  <2>1. 0 \in 0..n /\ n \in 0..n
    BY <1>1
  <2> QED
    BY <1>1, <1>2, <2>1 DEF TakesLast
<1>4. ASSUME NEW k \in 1..n, run[k - 1] \in V PROVE run[k] = op[<<run[k - 1], seq[k]>>]
  <2>1. run[k - 1] = f[1..(k - 1)] /\ run[k] = f[1..k]
    BY <1>1
  <2>2. /\ 1..k \in SUBSET DOMAIN seq /\ 1..k # {}
        /\ Max(1..k) = k /\ (1..k) \ {Max(1..k)} = 1..(k - 1)
    BY <1>2
  <2> HIDE DEF run, n
  <2>3. f[(1..k) \ {Max(1..k)}] \in V
    BY <1>4, <2>1, <2>2
  <2>4. f[1..k] = op[<<f[(1..k) \ {Max(1..k)}], seq[Max(1..k)]>>]
    BY <2>2, <2>3 DEF TakesLast
  <2> QED
    BY <2>1, <2>2, <2>4
<1> HIDE DEF run, n
<1>5. \A k \in 1..n : run[k - 1] \in V => run[k] \in V
  <2>1. ASSUME NEW k \in 1..n, run[k - 1] \in V PROVE run[k] \in V
    <3>1. seq[k] \in T
      BY <1>1
    <3> QED
      BY <1>4, <2>1, <3>1
  <2> QED
    BY <2>1
<1>6. \A k \in 0..n : run[k] \in V
  BY <1>1, <1>3, <1>5, RunStaysIn
<1>7. \A k \in 1..n : k - 1 \in 0..n
  BY <1>1
<1>8. \A k \in 1..n : run[k] = op[<<run[k - 1], seq[k]>>]
  BY <1>4, <1>6, <1>7
<1> QED
  BY <1>3, <1>6, <1>8 DEF n, GoesThrough, HasRun

\* Two runs in step, from one start, agree.
InStep(r, q, n) == r[0] = q[0] /\ \A k \in 1..n : r[k - 1] = q[k - 1] => r[k] = q[k]

LEMMA InStepAgree ==
  ASSUME NEW n \in Nat, NEW r, NEW q, InStep(r, q, n)
  PROVE  r[n] = q[n]
<1>1. r[0] = q[0] /\ \A k \in 1..n : r[k - 1] = q[k - 1] => r[k] = q[k]
  BY DEF InStep
<1>2. \A k \in 0..n : r[k] = q[k]
  BY <1>1, RunsAgree
<1>3. n \in 0..n
  OBVIOUS
<1> QED
  BY <1>2, <1>3

----------------------------------------------------------------------------
(* The sum of the values of a function *)

SumOf(b, S) == MapThenSumSet(LAMBDA x : b[x], S)

\* The sum takes one element after another away.
Sums(h, b, S) ==
  /\ h \in [SUBSET S -> Int]
  /\ \A s \in SUBSET S :
       h[s] = IF s = {} THEN 0
              ELSE b[CHOOSE x \in s : TRUE] + h[s \ {CHOOSE x \in s : TRUE}]

\* MapThenSumSet is such a sum.
LEMMA SumRuns ==
  ASSUME NEW S, IsFiniteSet(S), NEW b \in [S -> Int]
  PROVE  \E h : Sums(h, b, S) /\ SumOf(b, S) = h[S]
<1> DEFINE ch == [s \in SUBSET S |-> CHOOSE x \in s : TRUE]
           op == [p \in Int \X S |-> b[p[2]] + p[1]]
           Summed(f) == [s \in SUBSET S |->
             IF s = {} THEN 0 ELSE b[CHOOSE x \in s : TRUE] + f[s \ {CHOOSE x \in s : TRUE}]]
           h == CHOOSE f : f = Summed(f)
<1>1. SumOf(b, S) = h[S]
  BY DEF SumOf, MapThenSumSet, MapThenFoldSet
<1>2. \E f \in [SUBSET S -> Int] : f = Summed(f)
  <2>1. op \in [Int \X S -> Int] /\ 0 \in Int
    OBVIOUS
  <2>2. Chooses(ch, S)
    BY DEF Chooses
  <2>3. PICK g \in [SUBSET S -> Int] : Takes(g, S, 0, op, ch)
    <3> HIDE DEF op, ch
    <3> QED
      BY <2>1, <2>2, RecursionOnSubsets
  <2>4. ASSUME NEW s \in SUBSET S, s # {}
        PROVE  op[<<g[s \ {ch[s]}], ch[s]>>] = b[ch[s]] + g[s \ {ch[s]}]
    <3>1. ch[s] \in S /\ g[s \ {ch[s]}] \in Int
      BY <2>2, <2>4 DEF Chooses
    <3> HIDE DEF ch
    <3> QED
      BY <3>1
  <2>5. \A s \in SUBSET S : ch[s] = CHOOSE x \in s : TRUE
    OBVIOUS
  <2> HIDE DEF op, ch
  <2>6. g = Summed(g)
    BY <2>3, <2>4, <2>5 DEF Takes
  <2> QED
    BY <2>6
<1>3. h = Summed(h)
  <2>1. \E f : f = Summed(f)
    BY <1>2
  <2> HIDE DEF Summed
  <2> QED
    BY <2>1
<1>4. PICK f \in [SUBSET S -> Int] : f = Summed(f)
  BY <1>2
<1>5. h = f
  <2>1. h \in [SUBSET S -> {h[s] : s \in SUBSET S}]
    <3> HIDE DEF h
    <3>1. h = [s \in SUBSET S |-> h[s]]
      BY <1>3
    <3> QED
      BY <3>1
  <2>2. \A s \in SUBSET S : h[s] = f[s]
    <3> DEFINE same == [s \in SUBSET S |-> h[s] = f[s]]
    <3>1. same[{}] \in {TRUE}
      <4>1. h[{}] = 0 /\ f[{}] = 0
        <5> HIDE DEF h
        <5> QED
          BY <1>3, <1>4
      <4> HIDE DEF h
      <4> QED
        BY <4>1
    <3>2. ASSUME NEW s \in SUBSET S, s # {}
          PROVE  ch[s] \in s /\ (same[s \ {ch[s]}] \in {TRUE} => same[s] \in {TRUE})
      <4>1. ch[s] \in s /\ ch[s] = CHOOSE x \in s : TRUE
        BY <3>2
      <4> HIDE DEF h, ch
      <4>2. h[s] = b[ch[s]] + h[s \ {ch[s]}] /\ f[s] = b[ch[s]] + f[s \ {ch[s]}]
        BY <1>3, <1>4, <3>2, <4>1
      <4> QED
        BY <4>1, <4>2
    <3> DEFINE V == {TRUE}
    <3>3. same[{}] \in V
          /\ \A s \in SUBSET S : s # {} => ch[s] \in s /\ (same[s \ {ch[s]}] \in V => same[s] \in V)
      BY <3>1, <3>2
    <3> HIDE DEF same, ch, V
    <3>4. \A s \in SUBSET S : same[s] \in V
      BY <3>3, FoldStaysIn
    <3> HIDE DEF h
    <3> QED
      BY <3>4 DEF same, V
  <2> HIDE DEF h
  <2> QED
    BY <1>3, <2>2
<1> HIDE DEF h
<1> QED
  BY <1>1, <1>4, <1>5 DEF Sums

\* A sum is a number, and not negative when nothing in it is.
LEMMA SumIsNumber ==
  ASSUME NEW S, IsFiniteSet(S), NEW b \in [S -> Int]
  PROVE  /\ SumOf(b, S) \in Int
         /\ b \in [S -> Nat] => SumOf(b, S) \in Nat
         /\ (\A x \in S : b[x] = 0) => SumOf(b, S) = 0
<1>1. PICK h : Sums(h, b, S) /\ SumOf(b, S) = h[S]
  BY SumRuns
<1> DEFINE ch == [s \in SUBSET S |-> CHOOSE x \in s : TRUE]
<1>2. /\ h[{}] = 0
      /\ \A s \in SUBSET S : s # {} => ch[s] \in s /\ h[s] = b[ch[s]] + h[s \ {ch[s]}]
  BY <1>1 DEF Sums
<1> HIDE DEF ch
<1>3. ASSUME b \in [S -> Nat] PROVE h[S] \in Nat
  <2>1. ASSUME NEW s \in SUBSET S, s # {}, h[s \ {ch[s]}] \in Nat PROVE h[s] \in Nat
    <3>1. ch[s] \in S /\ h[s] = b[ch[s]] + h[s \ {ch[s]}]
      BY <1>2, <2>1
    <3>2. b[ch[s]] \in Nat
      BY <1>3, <3>1
    <3> QED
      BY <2>1, <3>1, <3>2
  <2> DEFINE V == Nat
  <2>2. h[{}] \in V
    BY <1>2
  <2>3. \A s \in SUBSET S : s # {} => (h[s \ {ch[s]}] \in V => h[s] \in V)
    BY <2>1
  <2> HIDE DEF V
  <2>4. \A s \in SUBSET S : s # {} => ch[s] \in s /\ (h[s \ {ch[s]}] \in V => h[s] \in V)
    BY <1>2, <2>3
  <2>5. \A s \in SUBSET S : h[s] \in V
    BY <2>2, <2>4, FoldStaysIn
  <2> QED
    BY <2>5 DEF V
<1>4. ASSUME \A x \in S : b[x] = 0 PROVE h[S] = 0
  <2> DEFINE V == {0}
  <2>1. h[{}] \in V
        /\ \A s \in SUBSET S : s # {} => ch[s] \in s /\ (h[s \ {ch[s]}] \in V => h[s] \in V)
    BY <1>2, <1>4
  <2> HIDE DEF V
  <2>2. \A s \in SUBSET S : h[s] \in V
    BY <2>1, FoldStaysIn
  <2> QED
    BY <2>2 DEF V
<1> QED
  BY <1>1, <1>3, <1>4 DEF Sums

\* A sum changes as the one value in it that changes.
LEMMA SumChanges ==
  ASSUME NEW S, IsFiniteSet(S), NEW b \in [S -> Int], NEW p \in S, NEW v \in Int
  PROVE  SumOf([b EXCEPT ![p] = v], S) = SumOf(b, S) + v - b[p]
<1> PICK c : c = [b EXCEPT ![p] = v]
  OBVIOUS
<1>1. c \in [S -> Int] /\ \A x \in S : c[x] = IF x = p THEN v ELSE b[x]
  OBVIOUS
<1>2. PICK h : Sums(h, b, S) /\ SumOf(b, S) = h[S]
  BY SumRuns
<1>3. PICK k : Sums(k, c, S) /\ SumOf(c, S) = k[S]
  BY <1>1, SumRuns
<1> DEFINE ch == [s \in SUBSET S |-> CHOOSE x \in s : TRUE]
           more(s) == IF p \in s THEN v - b[p] ELSE 0
           d == [s \in SUBSET S |-> k[s] - h[s] - more(s)]
<1>4. h[{}] = 0 /\ k[{}] = 0 /\ h \in [SUBSET S -> Int] /\ k \in [SUBSET S -> Int]
  BY <1>2, <1>3 DEF Sums
<1>5. ASSUME NEW s \in SUBSET S, s # {}
      PROVE  /\ ch[s] \in s
             /\ h[s] = b[ch[s]] + h[s \ {ch[s]}]
             /\ k[s] = c[ch[s]] + k[s \ {ch[s]}]
  BY <1>2, <1>3, <1>5 DEF Sums
<1>6. d[{}] \in {0}
  BY <1>4
<1>7. ASSUME NEW s \in SUBSET S, s # {}, d[s \ {ch[s]}] \in {0} PROVE d[s] \in {0}
  <2> DEFINE x == ch[s]
             r == s \ {x}
  <2>1. /\ x \in s /\ x \in S /\ r \in SUBSET S
        /\ h[s] = b[x] + h[r] /\ k[s] = c[x] + k[r]
    BY <1>5, <1>7
  <2>2. h[r] \in Int /\ k[r] \in Int /\ b[x] \in Int /\ c[x] \in Int /\ b[p] \in Int
    <3> HIDE DEF x, r
    <3> QED
      BY <1>1, <1>4, <2>1
  <2>3. k[r] - h[r] - more(r) = 0
    <3>1. d[r] = k[r] - h[r] - more(r)
      BY <2>1
    <3> QED
      BY <1>7, <3>1
  <2>4. d[s] = k[s] - h[s] - more(s)
    OBVIOUS
  <2>5. CASE x = p
    <3>1. more(s) = v - b[p] /\ more(r) = 0 /\ c[x] = v
      BY <1>1, <2>1, <2>5
    <3> HIDE DEF more, d, x, r, ch
    <3> QED
      BY <2>1, <2>2, <2>3, <2>4, <2>5, <3>1
  <2>6. CASE x # p
    <3>1. more(s) = more(r) /\ c[x] = b[x] /\ more(r) \in Int
      BY <1>1, <2>1, <2>2, <2>6
    <3> HIDE DEF more, d, x, r, ch
    <3> QED
      BY <2>1, <2>2, <2>3, <2>4, <3>1
  <2> QED
    BY <2>5, <2>6
<1>8. d[S] = 0
  <2> DEFINE V == {0}
  <2>1. d[{}] \in V
        /\ \A s \in SUBSET S : s # {} => ch[s] \in s /\ (d[s \ {ch[s]}] \in V => d[s] \in V)
    BY <1>5, <1>6, <1>7
  <2> HIDE DEF V, d, ch
  <2>2. \A s \in SUBSET S : d[s] \in V
    BY <2>1, FoldStaysIn
  <2> QED
    BY <2>2 DEF V
<1>9. k[S] - h[S] - (v - b[p]) = 0
  BY <1>8
<1>10. k[S] \in Int /\ h[S] \in Int /\ b[p] \in Int
  BY <1>4
<1> QED
  BY <1>2, <1>3, <1>9, <1>10

\* A sum does not depend on the order its elements are taken in.
AnyOrder(h, b, S) == \A t \in SUBSET S : \A y \in t : h[t] = b[y] + h[t \ {y}]

LEMMA SumTakesAny ==
  ASSUME NEW S, IsFiniteSet(S), NEW b \in [S -> Int], NEW h, Sums(h, b, S)
  PROVE  AnyOrder(h, b, S)
<1> DEFINE Bad == {n \in Nat : \E t \in SUBSET S : /\ Cardinality(t) = n
                                                   /\ \E y \in t : h[t] # b[y] + h[t \ {y}]}
           ch(t) == CHOOSE x \in t : TRUE
<1>1. SUFFICES ASSUME Bad # {} PROVE FALSE
  <2>1. \A t \in SUBSET S : Cardinality(t) \in Nat
    BY FS_Subset, FS_CardinalityType
  <2> QED
    BY <2>1 DEF AnyOrder
<1>2. PICK n \in Bad : \A m \in Bad : m >= n
  <2>1. Bad \in SUBSET Nat
    OBVIOUS
  <2> HIDE DEF Bad
  <2> QED
    BY <1>1, <2>1, LeastOf
<1>3. PICK t \in SUBSET S : Cardinality(t) = n /\ \E y \in t : h[t] # b[y] + h[t \ {y}]
  OBVIOUS
<1>4. PICK y \in t : h[t] # b[y] + h[t \ {y}]
  BY <1>3
<1> DEFINE c == ch(t)
<1>5. c \in t /\ c \in S /\ y \in S /\ h[t] = b[c] + h[t \ {c}]
  BY <1>4 DEF Sums
<1>6. c # y
  BY <1>4, <1>5
<1>7. \A z \in t : \A x \in t \ {z} : h[t \ {z}] = b[x] + h[(t \ {z}) \ {x}]
  <2> SUFFICES ASSUME NEW z \in t, NEW x \in t \ {z},
                      h[t \ {z}] # b[x] + h[(t \ {z}) \ {x}]
               PROVE  FALSE
    OBVIOUS
  <2>1. IsFiniteSet(t) /\ n \in Nat
    BY FS_Subset
  <2>2. Cardinality(t \ {z}) = n - 1 /\ n - 1 \in Nat
    <3>1. IsFiniteSet(t \ {z}) /\ Cardinality(t \ {z}) = Cardinality(t) - 1
      BY <2>1, FS_RemoveElement
    <3>2. Cardinality(t \ {z}) \in Nat
      BY <3>1, FS_CardinalityType
    <3> QED
      BY <1>3, <3>1, <3>2
  <2>3. n - 1 \in Bad
    BY <2>2
  <2> HIDE DEF Bad
  <2> QED
    BY <1>2, <2>1, <2>3
<1> HIDE DEF Bad, c
<1>8. /\ h[t \ {c}] = b[y] + h[(t \ {c}) \ {y}]
      /\ h[t \ {y}] = b[c] + h[(t \ {y}) \ {c}]
      /\ (t \ {c}) \ {y} = (t \ {y}) \ {c}
  BY <1>5, <1>6, <1>7
<1>9. h[(t \ {y}) \ {c}] \in Int /\ b[y] \in Int /\ b[c] \in Int
  BY <1>5 DEF Sums
<1> DEFINE rest == h[(t \ {y}) \ {c}]
<1>10. h[t] = b[c] + (b[y] + rest) /\ h[t \ {y}] = b[c] + rest /\ rest \in Int
  BY <1>5, <1>8, <1>9
<1> HIDE DEF rest
<1> QED
  BY <1>4, <1>9, <1>10

\* One more element adds its value to a sum.
LEMMA SumAdds ==
  ASSUME NEW S, IsFiniteSet(S), NEW x, x \notin S, NEW b \in [S \cup {x} -> Int],
         NEW r \in [S -> Int], \A y \in S : r[y] = b[y]
  PROVE  SumOf(b, S \cup {x}) = SumOf(r, S) + b[x]
<1> DEFINE T == S \cup {x}
           ch == [s \in SUBSET T |-> CHOOSE y \in s : TRUE]
<1>1. IsFiniteSet(T)
  BY FS_AddElement
<1>2. PICK h : Sums(h, b, T) /\ SumOf(b, T) = h[T]
  BY <1>1, SumRuns
<1>3. PICK k : Sums(k, r, S) /\ SumOf(r, S) = k[S]
  BY SumRuns
<1>4. h[T] = b[x] + h[S]
  <2>1. AnyOrder(h, b, T)
    <3>1. b \in [T -> Int] /\ IsFiniteSet(T) /\ Sums(h, b, T)
      BY <1>1, <1>2
    <3> HIDE DEF T, ch
    <3> QED
      BY <3>1, SumTakesAny
  <2>2. T \in SUBSET T /\ x \in T /\ T \ {x} = S
    OBVIOUS
  <2> QED
    BY <2>1, <2>2 DEF AnyOrder
<1> DEFINE d == [s \in SUBSET S |-> h[s] - k[s]]
<1>5. d[{}] \in {0}
  BY <1>2, <1>3 DEF Sums
<1>6. ASSUME NEW s \in SUBSET S, s # {}
      PROVE  ch[s] \in s /\ (d[s \ {ch[s]}] \in {0} => d[s] \in {0})
  <2>1. s \in SUBSET T /\ ch[s] \in s /\ ch[s] \in S
    BY <1>6
  <2>2. h[s] = b[ch[s]] + h[s \ {ch[s]}] /\ k[s] = r[ch[s]] + k[s \ {ch[s]}]
    BY <1>2, <1>3, <1>6, <2>1 DEF Sums
  <2>3. r[ch[s]] = b[ch[s]]
    BY <2>1
  <2>4. h[s \ {ch[s]}] \in Int /\ k[s \ {ch[s]}] \in Int /\ b[ch[s]] \in Int
    BY <1>2, <1>3, <2>1 DEF Sums
  <2> HIDE DEF ch
  <2>5. d[s] = h[s] - k[s] /\ d[s \ {ch[s]}] = h[s \ {ch[s]}] - k[s \ {ch[s]}]
    OBVIOUS
  <2> HIDE DEF d
  <2> QED
    BY <2>1, <2>2, <2>3, <2>4, <2>5
<1>7. d[S] \in {0}
  <2> DEFINE V == {0}
  <2>1. d[{}] \in V
        /\ \A s \in SUBSET S : s # {} => ch[s] \in s /\ (d[s \ {ch[s]}] \in V => d[s] \in V)
    BY <1>5, <1>6
  <2> HIDE DEF d, V, ch
  <2>2. \A s \in SUBSET S : d[s] \in V
    BY <2>1, FoldStaysIn
  <2> QED
    BY <2>2 DEF V
<1>8. h[S] = k[S] /\ h[S] \in Int /\ b[x] \in Int
  <2>1. S \in SUBSET T /\ h \in [SUBSET T -> Int] /\ k \in [SUBSET S -> Int]
    BY <1>2, <1>3 DEF Sums
  <2>2. h[S] \in Int /\ k[S] \in Int /\ h[S] - k[S] = 0
    BY <1>7, <2>1
  <2> QED
    BY <2>2
<1> QED
  BY <1>2, <1>3, <1>4, <1>8

\* Without negative values, the sum of a part is at most the sum of the whole.
LEMMA SumGrows ==
  ASSUME NEW S, IsFiniteSet(S), NEW b \in [S -> Nat], NEW T \in SUBSET S,
         NEW r \in [T -> Nat], \A y \in T : r[y] = b[y]
  PROVE  SumOf(r, T) <= SumOf(b, S)
<1>0. PICK R : R = S \ T
  OBVIOUS
<1>1. IsFiniteSet(T) /\ IsFiniteSet(R) /\ b \in [S -> Int] /\ r \in [T -> Int]
  BY <1>0, FS_Subset
<1>2. PICK h : Sums(h, b, S) /\ SumOf(b, S) = h[S]
  BY <1>1, SumRuns
<1>3. PICK k : Sums(k, r, T) /\ SumOf(r, T) = k[T]
  BY <1>1, SumRuns
<1>4. AnyOrder(h, b, S)
  BY <1>1, <1>2, SumTakesAny
<1> DEFINE ch == [s \in SUBSET S |-> CHOOSE x \in s : TRUE]
<1>5. /\ \A s \in SUBSET S : s # {} => ch[s] \in s
      /\ \A s \in SUBSET R : s # {} => ch[s] \in s
  BY <1>0
<1>6. \A s \in SUBSET T : s # {} => k[s] = r[ch[s]] + k[s \ {ch[s]}]
  BY <1>3 DEF Sums
<1> HIDE DEF ch
<1>7. h \in [SUBSET S -> Int] /\ k \in [SUBSET T -> Int] /\ h[{}] = 0 /\ k[{}] = 0
  BY <1>2, <1>3 DEF Sums
<1> DEFINE d == [s \in SUBSET T |-> h[s] - k[s]]
           V == {0}
<1>8. d[{}] \in V
  BY <1>7
<1>9. ASSUME NEW s \in SUBSET T, s # {}, d[s \ {ch[s]}] \in V PROVE d[s] \in V
  <2>1. PICK x \in s : x = ch[s]
    BY <1>5, <1>9
  <2>2. /\ x \in T /\ s \in SUBSET S /\ s \ {x} \in SUBSET T /\ s \ {x} \in SUBSET S
        /\ b[x] \in Int /\ r[x] = b[x]
    OBVIOUS
  <2>3. h[s] = b[x] + h[s \ {x}] /\ k[s] = b[x] + k[s \ {x}]
    BY <1>4, <1>6, <1>9, <2>1, <2>2 DEF AnyOrder
  <2>4. h[s \ {x}] \in Int /\ k[s \ {x}] \in Int
    BY <1>7, <2>2
  <2>5. h[s \ {x}] - k[s \ {x}] = 0
    BY <1>9, <2>1, <2>2
  <2>6. h[s] - k[s] = 0
    BY <2>2, <2>3, <2>4, <2>5
  <2> QED
    BY <2>6
<1>10. d[T] = 0
  <2>1. \A s \in SUBSET T : s # {} => ch[s] \in s /\ (d[s \ {ch[s]}] \in V => d[s] \in V)
    BY <1>5, <1>9
  <2> HIDE DEF d
  <2> HIDE DEF V
  <2>2. \A s \in SUBSET T : d[s] \in V
    BY <1>1, <1>8, <2>1, FoldStaysIn
  <2> QED
    BY <2>2 DEF V
<1>11. h[T] = k[T] /\ h[T] \in Int
  BY <1>7, <1>10
<1> HIDE DEF d, V
<1> DEFINE g == [s \in SUBSET R |-> h[s \cup T] - h[T]]
           W == Nat
<1>12. g[{}] \in W
  <2>1. {} \cup T = T
    OBVIOUS
  <2> QED
    BY <1>11, <2>1
<1>13. ASSUME NEW s \in SUBSET R, s # {}, g[s \ {ch[s]}] \in W PROVE g[s] \in W
  <2>1. PICK x \in s : x = ch[s]
    BY <1>5, <1>13
  <2>2. /\ s \cup T \in SUBSET S /\ (s \ {x}) \cup T \in SUBSET S /\ x \in s \cup T
        /\ (s \cup T) \ {x} = (s \ {x}) \cup T /\ b[x] \in Nat
        /\ s \ {x} \in SUBSET R
    BY <1>0
  <2>3. h[s \cup T] = b[x] + h[(s \ {x}) \cup T]
    BY <1>4, <2>2 DEF AnyOrder
  <2>4. h[(s \ {x}) \cup T] \in Int
    BY <1>7, <2>2
  <2>5. h[(s \ {x}) \cup T] - h[T] \in Nat
    BY <1>13, <2>1, <2>2
  <2>6. h[s \cup T] - h[T] \in Nat
    BY <1>11, <2>2, <2>3, <2>4, <2>5
  <2> QED
    BY <2>6
<1>14. g[R] \in W
  <2>1. \A s \in SUBSET R : s # {} => ch[s] \in s /\ (g[s \ {ch[s]}] \in W => g[s] \in W)
    BY <1>5, <1>13
  <2> HIDE DEF g
  <2> HIDE DEF W
  <2>2. \A s \in SUBSET R : g[s] \in W
    BY <1>1, <1>12, <2>1, FoldStaysIn
  <2> QED
    BY <2>2, Zenon
<1>15. h[S] - h[T] \in Nat /\ h[S] \in Int
  <2>1. R \cup T = S
    BY <1>0
  <2> QED
    BY <1>7, <1>14, <2>1
<1> QED
  BY <1>2, <1>3, <1>11, <1>15

\* f starts with base and takes one step a number.
Recurs(f, n, base, op) == f[0] = base /\ \A k \in 1..n : f[k] = op[<<f[k - 1], k>>]

\* Such a recursion exists for every step that does not leave the set of values.
LEMMA RecursionOnNumbers ==
  ASSUME NEW n \in Nat, NEW V, NEW base \in V, NEW op \in [V \X (1..n) -> V]
  PROVE  \E f \in [0..n -> V] : Recurs(f, n, base, op)
<1> DEFINE seq == [k \in 1..n |-> k]
<1>1. seq \in Seq(1..n) /\ Len(seq) = n /\ \A k \in 1..n : seq[k] = k
  OBVIOUS
<1> HIDE DEF seq
<1>2. PICK g \in [SUBSET DOMAIN seq -> V] : FoldsOver(g, seq, base, op)
  BY <1>1, FoldExists
<1> DEFINE f == [k \in 0..n |-> g[1..k]]
<1>3. /\ 1..0 = {}
      /\ \A k \in 1..n : /\ 1..k \in SUBSET DOMAIN seq /\ 1..k # {}
                         /\ Max(1..k) = k /\ (1..k) \ {Max(1..k)} = 1..(k - 1)
  BY <1>1, Stretches
<1>4. f[0] = base
  BY <1>2, <1>3 DEF FoldsOver
<1>5. ASSUME NEW k \in 1..n PROVE f[k] = op[<<f[k - 1], k>>]
  <2>1. g[1..k] = op[<<g[(1..k) \ {Max(1..k)}], seq[Max(1..k)]>>]
    BY <1>2, <1>3 DEF FoldsOver
  <2>2. k - 1 \in 0..n /\ k \in 0..n
    OBVIOUS
  <2> QED
    BY <1>1, <1>3, <2>1, <2>2
<1>6. f \in [0..n -> V]
  <2>1. \A k \in 0..n : 1..k \in SUBSET DOMAIN seq
    BY <1>1, Stretches
  <2> QED
    BY <2>1
<1> QED
  BY <1>4, <1>5, <1>6 DEF Recurs

\* A finite set of integers has a greatest element.
LEMMA MaxOfInterval ==
  ASSUME NEW n \in Nat, NEW s \in SUBSET ((-n)..n), s # {}
  PROVE  Max(s) \in s
<1> DEFINE D == {n - x : x \in s}
<1>1. \A x \in s : x \in Int /\ n - x \in Nat
  OBVIOUS
<1>2. D \in SUBSET Nat /\ D # {}
  BY <1>1
<1>3. PICK m \in D : \A e \in D : e >= m
  <2> HIDE DEF D
  <2> QED
    BY <1>2, LeastOf
<1>4. PICK x \in s : m = n - x
  OBVIOUS
<1>5. \A y \in s : x >= y
  <2> TAKE y \in s
  <2>1. n - y \in D
    OBVIOUS
  <2>2. n - y >= m
    BY <1>3, <2>1
  <2> QED
    BY <1>1, <1>4, <2>2
<1> QED
  BY <1>4, <1>5 DEF Max
=============================================================================
