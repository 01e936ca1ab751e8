-------------------------- MODULE StaleBlocksProofs --------------------------
(***************************************************************************)
(* What is proved about StaleBlocks for every set of blocks, every report   *)
(* of tips and every limit: the types and the bounds of the histories, that *)
(* the tracker's three maps agree, and that no proof is lost or submitted   *)
(* twice.                                                                   *)
(***************************************************************************)
EXTENDS StaleBlocks, CollectionLemmas, SequenceTheorems

\* A tip of a poll, and a tip that lost to another.
Tip == [block : Blocks, height : Nat, status : {"Active", "Competing", "Stale"}]
Event == [loser : Blocks, winner : Blocks, depth : Nat]

\* The numbers of the proofs in a queue.
Nos(queue) == [i \in DOMAIN queue |-> queue[i].no]

\* The index by height that belongs to a set of headers.
ByHeight(hs) == [h \in {Height[b] : b \in hs} |-> {b \in hs : Height[b] = h}]

Typed ==
  /\ now \in Clock
  /\ tips \in Seq(Tip) /\ Len(tips) <= MaxTips
  /\ headers \in SUBSET Blocks
  /\ cumulative \in SUBSET Blocks
  /\ forks \in Seq(Event) /\ Len(forks) <= MaxHistory
  /\ pendingProofs \in Seq(Made)
  /\ pendingEvents \in Seq(Event)
  /\ batch \in [proofs : Seq(Made), events : Seq(Event)]
  /\ made \in 0..MaxMade
  /\ events \in 0..MaxEvents
  /\ submitted \in Seq(Nat)

\* The index is exactly that of the headers, and no block has two proofs: without
\* the latter, evicting one of them would take the header from the other.
Indexed ==
  /\ IsFiniteSet(proofs)
  /\ {p.block : p \in proofs} = headers
  /\ \A p, q \in proofs : p.block = q.block => p = q
  /\ byHeight = ByHeight(headers)
  /\ Cardinality(proofs) = Cardinality(headers)
  /\ Cardinality(headers) <= MaxHistory

IInv == Typed /\ Indexed /\ EveryProofOnce

----------------------------------------------------------------------------
(* Scores *)

\* The quality of a proof is a percentage, whatever the block and the depth
\* (compute_score_breakdown).
LEMMA QualityRange ==
  ASSUME NEW b \in Blocks, NEW depth \in Nat, now \in Clock
  PROVE  Quality(b, depth) \in 0..100
<1>1. Zeros[b] \in Nat /\ Ones[b] \in Nat /\ Stamp[b] \in Nat /\ now \in Nat
  BY ParameterAssumption
<1>2. PowScore(Zeros[b]) \in Nat
  <2>1. Zeros[b] \div 3 \in Nat
    BY <1>1
  <2>2. Min({Zeros[b] \div 3, 14}) \in Nat
    BY <2>1, MinOfTwo
  <2> QED
    BY <2>2 DEF PowScore
<1>3. DepthScore(depth) \in Nat
  <2>1. Min({depth, 6}) \in 0..6
    BY MinOfTwo
  <2> QED
    BY <2>1 DEF DepthScore
<1>4. DivergenceScore(b) \in Nat
  <2>1. Min({Ones[b], 16}) \in Nat
    BY <1>1, MinOfTwo
  <2>2. Stamp[b] % 600 \in Nat
    BY <1>1
  <2>3. Min({Stamp[b] % 600, 300}) \in Nat
    BY <2>2, MinOfTwo
  <2>4. (Min({Ones[b], 16}) * 10) \div 16 \in Nat
    BY <2>1
  <2>5. (Min({Stamp[b] % 600, 300}) * 15) \div 300 \in Nat
    BY <2>3
  <2>6. (Min({Ones[b], 16}) * 10) \div 16 + (Min({Stamp[b] % 600, 300}) * 15) \div 300 \in Nat
    BY <2>4, <2>5
  <2> DEFINE score == (Min({Ones[b], 16}) * 10) \div 16 + (Min({Stamp[b] % 600, 300}) * 15) \div 300
  <2>7. DivergenceScore(b) = Min({score, 25})
    BY DEF DivergenceScore
  <2>8. score \in Nat
    BY <2>6
  <2> HIDE DEF score
  <2>9. Min({score, 25}) = IF score <= 25 THEN score ELSE 25
    BY <2>8, MinOfTwo
  <2> QED
    BY <2>7, <2>8, <2>9
<1>5. FreshnessScore(Age(b)) \in Nat
  BY DEF FreshnessScore
<1>6. PowScore(Zeros[b]) + DepthScore(depth) + DivergenceScore(b) + FreshnessScore(Age(b)) \in Nat
  BY <1>2, <1>3, <1>4, <1>5
<1> DEFINE sum == PowScore(Zeros[b]) + DepthScore(depth) + DivergenceScore(b) + FreshnessScore(Age(b))
<1>7. Quality(b, depth) = Min({sum, 100})
  BY DEF Quality
<1>8. sum \in Nat
  BY <1>6
<1> HIDE DEF sum
<1>9. Min({sum, 100}) = IF sum <= 100 THEN sum ELSE 100
  BY <1>8, MinOfTwo
<1> QED
  BY <1>7, <1>8, <1>9

LEMMA QueuedIsMade ==
  ASSUME now \in Clock, made \in 0..MaxMade, NEW n \in Nat, made + n <= MaxMade,
         NEW new \in [1..n -> [block : Blocks, canonical : Blocks, depth : Nat,
                              quality : 0..100, created : Clock]]
  PROVE  /\ Queued(new) \in Seq(Made)
         /\ Nos(Queued(new)) = [i \in 1..n |-> made + i]
<1>1. MaxMade \in Nat
  BY ParameterAssumption
<1>2. Queued(new) = [i \in 1..n |-> [proof |-> new[i], no |-> made + i]]
  BY DEF Queued
<1>3. \A i \in 1..n : made + i \in 1..MaxMade
  BY <1>1
<1>4. \A i \in 1..n : [proof |-> new[i], no |-> made + i] \in Made
  BY <1>3 DEF Made
<1>5. Queued(new) \in [1..n -> Made]
  BY <1>2, <1>4
<1> QED
  BY <1>2, <1>5 DEF Nos

LEMMA ProofIsProof ==
  ASSUME now \in Clock, NEW b \in Blocks, NEW c \in Blocks, NEW depth \in Nat
  PROVE  Proof(b, c, depth) \in [block : Blocks, canonical : Blocks, depth : Nat,
                                 quality : 0..100, created : Clock]
BY QualityRange DEF Proof

----------------------------------------------------------------------------
(* Tips and fork events *)

\* What a poll may report is a list of tips.
LEMMA ReportIsTips ==
  ASSUME NEW new \in Reports
  PROVE  new \in Seq(Tip)
<1>1. PICK s \in UNION {SetToSeqs(bs) : bs \in TipSets}, best \in Blocks, rest \in {"Competing", "Stale"} :
        new = [i \in 1..Len(s) |-> [block |-> s[i], height |-> Height[s[i]],
                                    status |-> IF s[i] = best THEN "Active" ELSE rest]]
  BY DEF Reports, TipLists
<1>2. PICK bs \in TipSets : s \in SetToSeqs(bs)
  BY <1>1
<1>3. bs \subseteq Blocks /\ Cardinality(bs) \in Nat
  BY ParameterAssumption, FS_Subset, FS_CardinalityType
<1>4. s \in Seq(Blocks)
  BY <1>2, <1>3 DEF SetToSeqs
<1>5. \A i \in 1..Len(s) : s[i] \in Blocks /\ Height[s[i]] \in Nat
  <2>1. \A i \in 1..Len(s) : s[i] \in Blocks
    BY <1>4
  <2>2. Height \in [Blocks -> Nat]
    BY ParameterAssumption
  <2> QED
    BY <2>1, <2>2
<1>6. new \in [1..Len(s) -> Tip] /\ Len(s) \in Nat
  BY <1>1, <1>4, <1>5 DEF Tip
<1> QED
  BY <1>6

\* A function on the first n numbers is a sequence.
LEMMA SequenceOf ==
  ASSUME NEW T, NEW n \in Nat, NEW f \in [1..n -> T]
  PROVE  f \in Seq(T)
  OBVIOUS

\* The winner's height is no smaller than the loser's, so the depth is a number.
LEMMA DepthIsNat ==
  ASSUME NEW high \in Nat, NEW low \in Nat, high >= low
  PROVE  high - low + 1 \in Nat
  OBVIOUS

\* The loser of an event is a tip of the last poll and its winner one of this.
LEMMA ForkEventsType ==
  ASSUME tips \in Seq(Tip), NEW new \in Seq(Tip)
  PROVE  ForkEvents(new) \in Seq(Event)
<1> DEFINE at == {l \in DOMAIN tips :
             /\ tips[l].status \in {"Active", "Competing"}
             /\ \A i \in DOMAIN new : new[i].block # tips[l].block
             /\ Winner(tips[l], new) # <<>>}
           won(t) == {i \in DOMAIN new : new[i].height >= t.height /\ new[i].status = "Active"}
<1>1. at \in SUBSET DOMAIN tips
  OBVIOUS
<1>2. Losers(new) = Kept(tips, at)
  BY DEF Losers
<1> HIDE DEF at
<1>3. /\ Losers(new) \in Seq(Tip) /\ Len(Losers(new)) = Cardinality(at) /\ Cardinality(at) \in Nat
      /\ \A k \in 1..Cardinality(at) : Losers(new)[k] = tips[Nth(at, k)] /\ Nth(at, k) \in at
  BY <1>1, <1>2, KeptIsSeq
<1>4. ASSUME NEW k \in DOMAIN Losers(new)
      PROVE  LET t == Losers(new)[k]
                 w == Winner(t, new)[1]
             IN [loser |-> t.block, winner |-> w.block, depth |-> w.height - t.height + 1] \in Event
  <2> DEFINE t == Losers(new)[k]
             w == Winner(t, new)[1]
  <2>1. t \in Tip
    BY <1>3
  <2>2. Winner(t, new) # <<>>
    <3>1. PICK l \in at : t = tips[l]
      BY <1>3
    <3>2. Winner(tips[l], new) # <<>>
      BY DEF at
    <3> QED
      BY <3>1, <3>2
  <2>3. won(t) \in SUBSET DOMAIN new /\ Winner(t, new) = Kept(new, won(t))
    BY DEF Winner
  <2> HIDE DEF won
  <2>4. /\ Winner(t, new) \in Seq(Tip) /\ Len(Winner(t, new)) = Cardinality(won(t))
        /\ \A j \in 1..Cardinality(won(t)) :
             Winner(t, new)[j] = new[Nth(won(t), j)] /\ Nth(won(t), j) \in won(t)
    BY <2>3, KeptIsSeq
  <2>5. 1 \in 1..Len(Winner(t, new))
    BY <2>2, <2>4
  <2>6. w \in Tip /\ w.height >= t.height
    BY <2>4, <2>5 DEF won
  <2>7. t.block \in Blocks /\ w.block \in Blocks /\ t.height \in Nat /\ w.height \in Nat
    BY <2>1, <2>6 DEF Tip
  <2>8. w.height - t.height + 1 \in Nat
    BY <2>6, <2>7, DepthIsNat, Zenon
  <2> QED
    BY <2>7, <2>8, SMTT(20) DEF Event
<1>5. DOMAIN Losers(new) = 1..Len(Losers(new)) /\ Len(Losers(new)) \in Nat
  BY <1>3
<1>6. ForkEvents(new) \in [1..Len(Losers(new)) -> Event]
  BY <1>4, <1>5 DEF ForkEvents
<1> QED
  BY <1>5, <1>6, SequenceOf, Zenon

\* A proof for every loser whose header is known.
LEMMA ProofsOfType ==
  ASSUME now \in Clock, NEW evs \in Seq(Event)
  PROVE  \E n \in Nat : /\ Len(ProofsOf(evs)) = n
                        /\ ProofsOf(evs) \in [1..n -> [block : Blocks, canonical : Blocks, depth : Nat,
                                                      quality : 0..100, created : Clock]]
<1> DEFINE at == {i \in DOMAIN evs : evs[i].loser \in headers /\ Buildable(evs[i].loser, evs[i].depth)}
           known == Kept(evs, at)
<1>1. at \in SUBSET DOMAIN evs
  OBVIOUS
<1>2. ProofsOf(evs) = [i \in DOMAIN known |-> Proof(known[i].loser, known[i].winner, known[i].depth)]
  BY DEF ProofsOf
<1> HIDE DEF at
<1>3. known \in Seq(Event)
  BY <1>1, KeptIsSeq
<1> HIDE DEF known
<1>4. DOMAIN known = 1..Len(known) /\ Len(known) \in Nat
  BY <1>3
<1>5. \A i \in 1..Len(known) : known[i].loser \in Blocks /\ known[i].winner \in Blocks /\ known[i].depth \in Nat
  <2>1. \A i \in 1..Len(known) : known[i] \in Event
    BY <1>3
  <2> QED
    BY <2>1 DEF Event
<1>6. \A i \in 1..Len(known) : Proof(known[i].loser, known[i].winner, known[i].depth)
         \in [block : Blocks, canonical : Blocks, depth : Nat, quality : 0..100, created : Clock]
  BY <1>5, ProofIsProof
<1>7. ProofsOf(evs) \in [1..Len(known) -> [block : Blocks, canonical : Blocks, depth : Nat,
                                          quality : 0..100, created : Clock]]
  BY <1>2, <1>4, <1>6
<1>8. Len(ProofsOf(evs)) = Len(known)
  BY <1>4, <1>7
<1> QED
  BY <1>4, <1>7, <1>8

\* What the bounded histories keep is part of what they are given.
LEMMA RingBounds ==
  ASSUME NEW list \in Seq(Event)
  PROVE  Ring(list) \in Seq(Event) /\ Len(Ring(list)) <= MaxHistory
<1>1. MaxHistory \in Nat \ {0} /\ Len(list) \in Nat
  BY ParameterAssumption
<1>2. CASE Len(list) > MaxHistory
  <2>1. Len(list) - MaxHistory + 1 \in 1..Len(list) + 1
    BY <1>1, <1>2
  <2>2. /\ SubSeq(list, Len(list) - MaxHistory + 1, Len(list)) \in Seq(Event)
        /\ Len(SubSeq(list, Len(list) - MaxHistory + 1, Len(list))) = MaxHistory
    BY <1>1, <1>2, <2>1, SubSeqProperties
  <2> QED
    BY <1>1, <1>2, <2>2 DEF Ring
<1> QED
  BY <1>1, <1>2 DEF Ring

LEMMA TruncatedBounds ==
  ASSUME NEW new \in Seq(Tip)
  PROVE  Truncated(new) \in Seq(Tip) /\ Len(Truncated(new)) <= MaxTips
<1>1. MaxTips \in Nat \ {0} /\ Len(new) \in Nat
  BY ParameterAssumption
<1>2. CASE Len(new) > MaxTips
  <2>1. SubSeq(new, 1, MaxTips) \in Seq(Tip) /\ Len(SubSeq(new, 1, MaxTips)) = MaxTips
    BY <1>1, <1>2, SubSeqProperties
  <2> QED
    BY <1>1, <1>2, <2>1 DEF Truncated
<1> QED
  BY <1>1, <1>2 DEF Truncated

----------------------------------------------------------------------------
(* The index by height *)

\* A header that is added and indexed leaves the index of the larger set.
LEMMA WithIndexes ==
  ASSUME NEW hs \in SUBSET Blocks, NEW b \in Blocks
  PROVE  With(ByHeight(hs), b) = ByHeight(hs \cup {b})
<1> DEFINE old == ByHeight(hs)
           H == {Height[x] : x \in hs}
<1>1. DOMAIN old = H /\ \A h \in H : old[h] = {x \in hs : Height[x] = h}
  BY DEF ByHeight
<1>2. H \cup {Height[b]} = {Height[x] : x \in hs \cup {b}}
  OBVIOUS
<1>3. ASSUME NEW h \in H \cup {Height[b]}
      PROVE  (IF h \in H THEN old[h] ELSE {}) \cup (IF h = Height[b] THEN {b} ELSE {})
               = {x \in hs \cup {b} : Height[x] = h}
  <2>1. h \notin H => {x \in hs : Height[x] = h} = {}
    OBVIOUS
  <2>2. (IF h \in H THEN old[h] ELSE {}) = {x \in hs : Height[x] = h}
    BY <1>1, <2>1
  <2> QED
    BY <2>2
<1> HIDE DEF old, H
<1>4. With(old, b) = [h \in H \cup {Height[b]} |->
        (IF h \in H THEN old[h] ELSE {}) \cup (IF h = Height[b] THEN {b} ELSE {})]
  BY <1>1 DEF With
<1>5. With(old, b) = [h \in H \cup {Height[b]} |-> {x \in hs \cup {b} : Height[x] = h}]
  BY <1>3, <1>4
<1> QED
  BY <1>2, <1>5 DEF ByHeight, old

\* One that is removed leaves that of the smaller set: no empty list stays.
LEMMA WithoutIndexes ==
  ASSUME NEW hs \in SUBSET Blocks, NEW b \in hs
  PROVE  Without(ByHeight(hs), b) = ByHeight(hs \ {b})
<1> DEFINE old == ByHeight(hs)
           H == {Height[x] : x \in hs}
           rest == [old EXCEPT ![Height[b]] = @ \ {b}]
           kept == {h \in DOMAIN old : rest[h] # {}}
<1>1. DOMAIN old = H /\ \A h \in H : old[h] = {x \in hs : Height[x] = h}
  BY DEF ByHeight
<1>2. Height[b] \in H
  OBVIOUS
<1>3. \A h \in H : rest[h] = {x \in hs \ {b} : Height[x] = h}
  BY <1>1, <1>2
<1>4. Without(old, b) = [h \in kept |-> rest[h]]
  BY <1>1, <1>2 DEF Without
<1> HIDE DEF old, rest
<1>5. kept = {Height[x] : x \in hs \ {b}}
  <2>1. ASSUME NEW h \in kept PROVE h \in {Height[x] : x \in hs \ {b}}
    BY <1>1, <1>3
  <2>2. ASSUME NEW x \in hs \ {b} PROVE Height[x] \in kept
    <3>1. Height[x] \in H /\ x \in rest[Height[x]]
      BY <1>3
    <3> QED
      BY <1>1, <3>1
  <2> QED
    BY <2>1, <2>2
<1>6. \A h \in kept : rest[h] = {x \in hs \ {b} : Height[x] = h}
  BY <1>1, <1>3
<1> HIDE DEF kept
<1>7. [h \in kept |-> rest[h]] = [h \in {Height[x] : x \in hs \ {b}} |-> {x \in hs \ {b} : Height[x] = h}]
  BY <1>5, <1>6
<1> QED
  BY <1>4, <1>7 DEF ByHeight, old

\* Recording a block keeps the three maps together, whichever of the oldest
\* proofs goes (record_stale_block, evict_oldest).
LEMMA RecordKeepsIndexed ==
  ASSUME Typed, Indexed, NEW b \in Blocks, b \notin headers, NEW proof, proof.block = b,
         NEW kept \in Evict(headers \cup {b}, proofs \cup {proof}, With(byHeight, b))
  PROVE  /\ kept.headers \in SUBSET Blocks
         /\ IsFiniteSet(kept.proofs)
         /\ {p.block : p \in kept.proofs} = kept.headers
         /\ \A p, q \in kept.proofs : p.block = q.block => p = q
         /\ kept.index = ByHeight(kept.headers)
         /\ Cardinality(kept.proofs) = Cardinality(kept.headers)
         /\ Cardinality(kept.headers) <= MaxHistory
<1> DEFINE hs == headers \cup {b}
           ps == proofs \cup {proof}
           index == With(byHeight, b)
<1>0. MaxHistory \in Nat
  BY ParameterAssumption
<1>1. headers \in SUBSET Blocks /\ hs \in SUBSET Blocks
  BY DEF Typed
<1>2. IsFiniteSet(headers) /\ IsFiniteSet(hs)
  BY <1>1, ParameterAssumption, FS_Subset
<1>3. proof \notin proofs
  BY DEF Indexed
<1>4. IsFiniteSet(ps) /\ Cardinality(ps) = Cardinality(proofs) + 1
  BY <1>3, FS_AddElement DEF Indexed
<1>5. Cardinality(hs) = Cardinality(headers) + 1
  BY <1>2, FS_AddElement
<1>6. Cardinality(ps) = Cardinality(hs) /\ Cardinality(hs) \in Nat /\ Cardinality(hs) <= MaxHistory + 1
  BY <1>0, <1>2, <1>4, <1>5, FS_CardinalityType DEF Indexed
<1>7. {p.block : p \in ps} = hs
  BY DEF Indexed
<1>8. \A p, q \in ps : p.block = q.block => p = q
  BY DEF Indexed
<1>9. index = ByHeight(hs)
  BY <1>1, WithIndexes DEF Indexed
<1> HIDE DEF hs, ps, index
<1>10. CASE Cardinality(hs) <= MaxHistory
  <2>1. kept = [headers |-> hs, proofs |-> ps, index |-> index]
    BY <1>10 DEF Evict, hs, ps, index
  <2>2. kept.headers = hs /\ kept.proofs = ps /\ kept.index = index
    BY <2>1
  <2> QED
    BY <2>2, <1>1, <1>4, <1>6, <1>7, <1>8, <1>9, <1>10
<1>11. CASE ~(Cardinality(hs) <= MaxHistory)
  <2>1. PICK p \in Oldest(ps) : kept = [headers |-> hs \ {p.block}, proofs |-> ps \ {p},
                                         index |-> Without(index, p.block)]
    BY <1>11 DEF Evict, hs, ps, index
  <2>2. /\ kept.headers = hs \ {p.block} /\ kept.proofs = ps \ {p}
        /\ kept.index = Without(index, p.block)
    BY <2>1
  <2>3. p \in ps /\ p.block \in hs
    BY <1>7 DEF Oldest
  <2>4. /\ IsFiniteSet(ps \ {p}) /\ Cardinality(ps \ {p}) = Cardinality(ps) - 1
        /\ Cardinality(hs \ {p.block}) = Cardinality(hs) - 1
    BY <1>2, <1>4, <2>3, FS_RemoveElement
  <2>5. {q.block : q \in ps \ {p}} = hs \ {p.block}
    BY <1>7, <1>8, <2>3
  <2>6. Without(index, p.block) = ByHeight(hs \ {p.block})
    BY <1>1, <1>9, <2>3, WithoutIndexes
  <2> QED
    BY <1>0, <1>1, <1>6, <1>8, <2>2, <2>4, <2>5, <2>6
<1> QED
  BY <1>10, <1>11

----------------------------------------------------------------------------
(* The numbers of the proofs *)

LEMMA NosType ==
  ASSUME NEW q \in Seq(Made)
  PROVE  /\ Nos(q) \in Seq(Nat) /\ Len(Nos(q)) = Len(q)
         /\ \A i \in 1..Len(q) : Nos(q)[i] = q[i].no
<1>1. \A i \in 1..Len(q) : q[i].no \in Nat
  <2>1. \A i \in 1..Len(q) : q[i] \in Made
    OBVIOUS
  <2>2. \A x \in Made : x.no \in 1..MaxMade
    BY DEF Made
  <2>3. 1..MaxMade \subseteq Nat
    BY ParameterAssumption
  <2> QED
    BY <2>1, <2>2, <2>3
<1>2. Nos(q) \in [1..Len(q) -> Nat] /\ Len(q) \in Nat
  BY <1>1 DEF Nos
<1> QED
  BY <1>2 DEF Nos

LEMMA Regroup ==
  ASSUME NEW s \in Seq(Nat), NEW t \in Seq(Nat), NEW u \in Seq(Nat)
  PROVE  (s \o t) \o u = s \o (t \o u)
<1>1. (s \o t) \o u \in Seq(Nat) /\ s \o (t \o u) \in Seq(Nat)
  OBVIOUS
<1>2. /\ Len((s \o t) \o u) = Len(s \o (t \o u))
      /\ \A i \in 1..Len((s \o t) \o u) : ((s \o t) \o u)[i] = (s \o (t \o u))[i]
  OBVIOUS
<1> QED
  BY <1>1, <1>2, SeqEqual

LEMMA NosOfConcat ==
  ASSUME NEW s \in Seq(Made), NEW t \in Seq(Made)
  PROVE  Nos(s \o t) = Nos(s) \o Nos(t)
<1>1. s \o t \in Seq(Made) /\ Len(s \o t) = Len(s) + Len(t)
  BY ConcatProperties
<1>2. /\ Nos(s) \in Seq(Nat) /\ Len(Nos(s)) = Len(s)
      /\ Nos(t) \in Seq(Nat) /\ Len(Nos(t)) = Len(t)
      /\ Nos(s \o t) \in Seq(Nat) /\ Len(Nos(s \o t)) = Len(s) + Len(t)
  BY <1>1, NosType
<1>3. Nos(s) \o Nos(t) \in Seq(Nat) /\ Len(Nos(s) \o Nos(t)) = Len(s) + Len(t)
  BY <1>2, ConcatProperties
<1>4. ASSUME NEW i \in 1..Len(s) + Len(t) PROVE Nos(s \o t)[i] = (Nos(s) \o Nos(t))[i]
  <2> DEFINE a == Nos(s)
             b == Nos(t)
  <2>1. Nos(s \o t)[i] = (s \o t)[i].no
    BY <1>1, NosType
  <2>4. a \in Seq(Nat) /\ b \in Seq(Nat) /\ Len(a) = Len(s) /\ Len(b) = Len(t)
    BY <1>2
  <2>2. CASE i <= Len(s)
    <3>1. i \in 1..Len(s)
      BY <2>2
    <3>2. (s \o t)[i] = s[i]
      BY <2>2
    <3>3. (a \o b)[i] = a[i]
      <4> HIDE DEF a, b
      <4> QED
        BY <2>2, <2>4
    <3> QED
      BY <2>1, <3>1, <3>2, <3>3, NosType
  <2>3. CASE ~(i <= Len(s))
    <3>1. i - Len(s) \in 1..Len(t)
      BY <2>3
    <3>2. (s \o t)[i] = t[i - Len(s)]
      BY <2>3
    <3>3. (a \o b)[i] = b[i - Len(s)]
      <4> HIDE DEF a, b
      <4> QED
        BY <2>3, <2>4
    <3> QED
      BY <2>1, <3>1, <3>2, <3>3, NosType
  <2> QED
    BY <2>2, <2>3
<1> QED
  BY <1>2, <1>3, <1>4, SeqEqual

\* What was queued, drained and submitted so far is every proof made, in order.
LEMMA EveryNumber ==
  ASSUME Typed
  PROVE  EveryProofOnce <=> (submitted \o Nos(batch.proofs)) \o Nos(pendingProofs) = [i \in 1..made |-> i]
<1>1. batch.proofs \in Seq(Made) /\ submitted \in Seq(Nat) /\ pendingProofs \in Seq(Made)
  BY DEF Typed
<1>2. Nos(batch.proofs) \in Seq(Nat) /\ Nos(pendingProofs) \in Seq(Nat)
  BY <1>1, NosType
<1>3. (submitted \o Nos(batch.proofs)) \o Nos(pendingProofs) = submitted \o (Nos(batch.proofs) \o Nos(pendingProofs))
  BY <1>1, <1>2, Regroup, Zenon
<1> QED
  BY <1>3 DEF EveryProofOnce, Nos

LEMMA Counting ==
  ASSUME NEW m \in Nat, NEW n \in Nat
  PROVE  [i \in 1..m |-> i] \o [i \in 1..n |-> m + i] = [i \in 1..m + n |-> i]
<1> DEFINE all == [i \in 1..m |-> i]
           more == [i \in 1..n |-> m + i]
           total == [i \in 1..m + n |-> i]
<1>1. /\ all \in Seq(Nat) /\ Len(all) = m /\ \A i \in 1..m : all[i] = i
      /\ more \in Seq(Nat) /\ Len(more) = n /\ \A i \in 1..n : more[i] = m + i
      /\ total \in Seq(Nat) /\ Len(total) = m + n /\ \A i \in 1..m + n : total[i] = i
  OBVIOUS
<1> HIDE DEF all, more, total
<1>2. /\ all \o more \in Seq(Nat) /\ Len(all \o more) = Len(all) + Len(more)
      /\ \A i \in 1..Len(all) + Len(more) :
           (all \o more)[i] = IF i <= Len(all) THEN all[i] ELSE more[i - Len(all)]
  BY <1>1, ConcatProperties
<1>3. ASSUME NEW i \in 1..m + n PROVE (all \o more)[i] = total[i]
  BY <1>1, <1>2
<1>4. all \o more = total
  BY <1>1, <1>2, <1>3, SeqEqual
<1> QED
  BY <1>4 DEF all, more, total

\* New proofs continue the numbers.
LEMMA NumbersContinue ==
  ASSUME Typed, NEW n \in Nat, made + n <= MaxMade, NEW q \in Seq(Made),
         Nos(q) = [i \in 1..n |-> made + i],
         (submitted \o Nos(batch.proofs)) \o Nos(pendingProofs) = [i \in 1..made |-> i]
  PROVE  (submitted \o Nos(batch.proofs)) \o Nos(pendingProofs \o q) = [i \in 1..made + n |-> i]
<1> DEFINE front == submitted \o Nos(batch.proofs)
<1>1. batch.proofs \in Seq(Made) /\ submitted \in Seq(Nat) /\ pendingProofs \in Seq(Made) /\ made \in Nat
  BY ParameterAssumption DEF Typed
<1>2. Nos(batch.proofs) \in Seq(Nat) /\ Nos(pendingProofs) \in Seq(Nat) /\ Nos(q) \in Seq(Nat)
  BY <1>1, NosType
<1>3. front \in Seq(Nat)
  BY <1>1, <1>2, ConcatProperties
<1> HIDE DEF front
<1>4. front \o Nos(pendingProofs \o q) = (front \o Nos(pendingProofs)) \o Nos(q)
  <2>1. Nos(pendingProofs \o q) = Nos(pendingProofs) \o Nos(q)
    BY <1>1, NosOfConcat
  <2>2. (front \o Nos(pendingProofs)) \o Nos(q) = front \o (Nos(pendingProofs) \o Nos(q))
    BY <1>2, <1>3, Regroup, Zenon
  <2> QED
    BY <2>1, <2>2
<1>5. [i \in 1..made |-> i] \o [i \in 1..n |-> made + i] = [i \in 1..made + n |-> i]
  BY <1>1, Counting
<1> QED
  BY <1>4, <1>5 DEF front
----------------------------------------------------------------------------
(* The invariant, action by action *)

LEMMA InitHolds ==
  ASSUME Init
  PROVE  IInv
<1> USE DEF Init
<1>1. now \in Clock
  <2>1. \E n \in Clock : \A m \in Clock : n <= m
    <3>1. Clock \in SUBSET Nat /\ Clock # {}
      BY ParameterAssumption
    <3>2. PICK n \in Clock : \A m \in Clock : m >= n
      BY <3>1, LeastOf
    <3> QED
      BY <3>1, <3>2
  <2> QED
    BY <2>1 DEF Min
<1>2. Typed
  <2>1. MaxMade \in Nat /\ MaxEvents \in Nat /\ MaxHistory \in Nat /\ MaxTips \in Nat
    BY ParameterAssumption
  <2>2. \A S : <<>> \in Seq(S)
    OBVIOUS
  <2>3. Len(<<>>) = 0
    OBVIOUS
  <2> QED
    BY <1>1, <2>1, <2>2, <2>3 DEF Typed
<1>3. Indexed
  <2>1. {Height[b] : b \in {}} = {} /\ {p.block : p \in {}} = {}
    OBVIOUS
  <2>2. byHeight = ByHeight(headers)
    BY <2>1 DEF ByHeight
  <2>3. MaxHistory \in Nat
    BY ParameterAssumption
  <2> QED
    BY <2>1, <2>2, <2>3, FS_EmptySet DEF Indexed
<1>4. EveryProofOnce
  <2>1. Nos(<<>>) = <<>>
    BY DEF Nos
  <2>2. batch.proofs = <<>>
    OBVIOUS
  <2>3. (<<>> \o <<>>) \o <<>> = <<>>
    OBVIOUS
  <2>4. [i \in 1..0 |-> i] = <<>>
    OBVIOUS
  <2> QED
    BY <1>2, <2>1, <2>2, <2>3, <2>4, EveryNumber
<1> QED
  BY <1>2, <1>3, <1>4 DEF IInv

\* A poll makes fork events and proofs and touches no index (process_tips).
LEMMA ProcessTipsStep ==
  ASSUME IInv, NEW new \in Reports, ProcessTips(new)
  PROVE  IInv'
<1> DEFINE evs == ForkEvents(new)
           built == ProofsOf(evs)
<1>1. /\ events + Len(evs) <= MaxEvents
      /\ made + Len(built) <= MaxMade
      /\ tips' = Truncated(new)
      /\ forks' = Ring(forks \o evs)
      /\ pendingEvents' = pendingEvents \o evs
      /\ pendingProofs' = pendingProofs \o Queued(built)
      /\ made' = made + Len(built)
      /\ events' = events + Len(evs)
      /\ UNCHANGED <<now, headers, proofs, byHeight, cumulative, batch, submitted>>
  BY DEF ProcessTips
<1>2. Typed /\ Indexed
  BY DEF IInv
<1>3. new \in Seq(Tip) /\ evs \in Seq(Event)
  BY <1>2, ReportIsTips, ForkEventsType DEF Typed
<1> HIDE DEF evs
<1>4. PICK n \in Nat : /\ Len(built) = n
                       /\ built \in [1..n -> [block : Blocks, canonical : Blocks, depth : Nat,
                                              quality : 0..100, created : Clock]]
  BY <1>2, <1>3, ProofsOfType DEF Typed
<1> HIDE DEF built
<1>5. Queued(built) \in Seq(Made) /\ Nos(Queued(built)) = [i \in 1..n |-> made + i]
  BY <1>1, <1>2, <1>4, QueuedIsMade DEF Typed
<1>6. Typed'
  <2>1. tips' \in Seq(Tip) /\ Len(tips') <= MaxTips
    BY <1>1, <1>3, TruncatedBounds
  <2>2. forks \o evs \in Seq(Event) /\ pendingEvents \o evs \in Seq(Event)
    BY <1>2, <1>3, ConcatProperties DEF Typed
  <2>3. forks' \in Seq(Event) /\ Len(forks') <= MaxHistory
    BY <1>1, <2>2, RingBounds
  <2>4. pendingProofs' \in Seq(Made)
    BY <1>1, <1>2, <1>5, ConcatProperties DEF Typed
  <2>5. made' \in 0..MaxMade /\ events' \in 0..MaxEvents
    <3>1. MaxMade \in Nat /\ MaxEvents \in Nat /\ Len(evs) \in Nat
      BY <1>3, ParameterAssumption
    <3> QED
      BY <1>1, <1>2, <1>4, <3>1 DEF Typed
  <2> QED
    BY <1>1, <1>2, <2>1, <2>2, <2>3, <2>4, <2>5 DEF Typed
<1>7. Indexed'
  BY <1>1, <1>2 DEF Indexed, ByHeight
<1>8. EveryProofOnce'
  <2>1. (submitted \o Nos(batch.proofs)) \o Nos(pendingProofs) = [i \in 1..made |-> i]
    BY <1>2, EveryNumber DEF IInv
  <2>2. (submitted \o Nos(batch.proofs)) \o Nos(pendingProofs \o Queued(built)) = [i \in 1..made + n |-> i]
    BY <1>1, <1>2, <1>4, <1>5, <2>1, NumbersContinue
  <2>3. (submitted' \o Nos(batch'.proofs)) \o Nos(pendingProofs') = [i \in 1..made' |-> i]
    BY <1>1, <1>4, <2>2
  <2>4. ((submitted \o Nos(batch.proofs)) \o Nos(pendingProofs) = [i \in 1..made |-> i])'
    BY <2>3 DEF Nos
  <2>5. Typed' => EveryProofOnce'
    BY <2>4, EveryNumber, PTL
  <2> QED
    BY <1>6, <2>5
<1> QED
  BY <1>6, <1>7, <1>8 DEF IInv

\* A recorded block enters every map at once, and one of the oldest leaves them
\* all (record_stale_block, evict_oldest).
LEMMA SubmitHeaderStep ==
  ASSUME IInv, NEW b \in Blocks, NEW canonical \in Blocks, NEW depth \in Nat,
         SubmitHeader(b, canonical, depth)
  PROVE  IInv'
<1> DEFINE proof == Proof(b, canonical, depth)
<1>1. /\ made < MaxMade /\ b \notin headers
      /\ cumulative' = (cumulative \ {b}) \cup ({b} \ cumulative)
      /\ pendingProofs' = pendingProofs \o Queued(<<proof>>)
      /\ made' = made + 1
      /\ UNCHANGED <<now, tips, forks, pendingEvents, batch, events, submitted>>
  BY DEF SubmitHeader, Record, Recordable
<1>2. PICK kept \in Evict(headers \cup {b}, proofs \cup {proof}, With(byHeight, b)) :
        headers' = kept.headers /\ proofs' = kept.proofs /\ byHeight' = kept.index
  BY DEF SubmitHeader, Record
<1>3. Typed /\ Indexed
  BY DEF IInv
<1>4. proof.block = b /\ proof \in [block : Blocks, canonical : Blocks, depth : Nat,
                                    quality : 0..100, created : Clock]
  BY <1>3, ProofIsProof DEF Typed, Proof
<1> HIDE DEF proof
<1>5. /\ headers' \in SUBSET Blocks
      /\ Indexed'
  <2>1. /\ kept.headers \in SUBSET Blocks
        /\ IsFiniteSet(kept.proofs)
        /\ {p.block : p \in kept.proofs} = kept.headers
        /\ \A p, q \in kept.proofs : p.block = q.block => p = q
        /\ kept.index = ByHeight(kept.headers)
        /\ Cardinality(kept.proofs) = Cardinality(kept.headers)
        /\ Cardinality(kept.headers) <= MaxHistory
    <3>1. b \in Blocks /\ b \notin headers /\ Typed /\ Indexed /\ proof.block = b
          /\ kept \in Evict(headers \cup {b}, proofs \cup {proof}, With(byHeight, b))
      BY <1>1, <1>2, <1>3, <1>4
    <3> QED
      BY <3>1, RecordKeepsIndexed, Zenon
  <2> QED
    BY <1>2, <2>1 DEF Indexed, ByHeight
<1>6. /\ MaxMade \in Nat /\ made \in Nat /\ made + 1 <= MaxMade
  BY <1>1, <1>3, ParameterAssumption, SMTT(40) DEF Typed
<1>7. Queued(<<proof>>) \in Seq(Made) /\ Nos(Queued(<<proof>>)) = [i \in 1..1 |-> made + i]
  <2>1. <<proof>> \in [1..1 -> [block : Blocks, canonical : Blocks, depth : Nat,
                                quality : 0..100, created : Clock]]
    BY <1>4
  <2>2. now \in Clock /\ made \in 0..MaxMade /\ 1 \in Nat
    BY <1>3 DEF Typed
  <2> QED
    BY <1>6, <2>1, <2>2, QueuedIsMade, Zenon
<1>8. Typed'
  <2>1. pendingProofs' \in Seq(Made)
    BY <1>1, <1>3, <1>7, ConcatProperties DEF Typed
  <2>2. cumulative' \in SUBSET Blocks
    BY <1>1, <1>3 DEF Typed
  <2>3. made' \in 0..MaxMade
    BY <1>1, <1>6
  <2> QED
    BY <1>1, <1>3, <1>5, <2>1, <2>2, <2>3 DEF Typed
<1>9. EveryProofOnce'
  <2>1. (submitted \o Nos(batch.proofs)) \o Nos(pendingProofs) = [i \in 1..made |-> i]
    BY <1>3, EveryNumber DEF IInv
  <2>2. (submitted \o Nos(batch.proofs)) \o Nos(pendingProofs \o Queued(<<proof>>)) = [i \in 1..made + 1 |-> i]
    BY <1>3, <1>6, <1>7, <2>1, NumbersContinue
  <2>3. (submitted' \o Nos(batch'.proofs)) \o Nos(pendingProofs') = [i \in 1..made' |-> i]
    BY <1>1, <2>2
  <2>4. ((submitted \o Nos(batch.proofs)) \o Nos(pendingProofs) = [i \in 1..made |-> i])'
    BY <2>3 DEF Nos
  <2>5. Typed' => EveryProofOnce'
    BY <2>4, EveryNumber, PTL
  <2> QED
    BY <1>8, <2>5
<1> QED
  BY <1>5, <1>8, <1>9 DEF IInv

\* What is drained is the batch (drain_pending_proofs, drain_pending_fork_events).
LEMMA DrainStep ==
  ASSUME IInv, Drain
  PROVE  IInv'
<1>1. /\ batch = [proofs |-> <<>>, events |-> <<>>]
      /\ batch' = [proofs |-> pendingProofs, events |-> pendingEvents]
      /\ pendingProofs' = <<>> /\ pendingEvents' = <<>>
      /\ UNCHANGED <<now, tracker, made, events, submitted>>
  BY DEF Drain
<1>2. Typed /\ Indexed
  BY DEF IInv
<1>3. Typed'
  <2>1. \A S : <<>> \in Seq(S)
    OBVIOUS
  <2>2. batch' \in [proofs : Seq(Made), events : Seq(Event)]
    BY <1>1, <1>2 DEF Typed
  <2> QED
    BY <1>1, <1>2, <2>1, <2>2 DEF Typed, tracker
<1>4. Indexed'
  BY <1>1, <1>2 DEF Indexed, ByHeight, tracker
<1>5. EveryProofOnce'
  <2>1. (submitted \o Nos(batch.proofs)) \o Nos(pendingProofs) = [i \in 1..made |-> i]
    BY <1>2, EveryNumber DEF IInv
  <2>2. submitted \in Seq(Nat) /\ Nos(pendingProofs) \in Seq(Nat)
    BY <1>2, NosType DEF Typed
  <2>3. Nos(<<>>) = <<>>
    BY DEF Nos
  <2>4. submitted \o <<>> = submitted
    BY <2>2, ConcatEmptySeq
  <2>5. (submitted \o Nos(pendingProofs)) \o <<>> = submitted \o Nos(pendingProofs)
    <3>1. submitted \o Nos(pendingProofs) \in Seq(Nat)
      BY <2>2, ConcatProperties
    <3> QED
      BY <3>1, ConcatEmptySeq
  <2>6. (submitted \o Nos(pendingProofs)) \o Nos(<<>>) = [i \in 1..made |-> i]
    BY <1>1, <2>1, <2>3, <2>4, <2>5
  <2>7. (submitted' \o Nos(batch'.proofs)) \o Nos(pendingProofs') = [i \in 1..made' |-> i]
    BY <1>1, <2>6
  <2>8. ((submitted \o Nos(batch.proofs)) \o Nos(pendingProofs) = [i \in 1..made |-> i])'
    BY <2>7 DEF Nos
  <2>9. Typed' => EveryProofOnce'
    BY <2>8, EveryNumber, PTL
  <2> QED
    BY <1>3, <2>9
<1> QED
  BY <1>3, <1>4, <1>5 DEF IInv

\* A batch submitted in part and put back, whatever was queued behind it since
\* (requeue_pending_proofs, requeue_fork_events).
LEMMA RequeueStep ==
  ASSUME IInv, NEW n \in Nat, Requeue(n)
  PROVE  IInv'
<1> DEFINE list == batch.proofs
           first == [i \in 1..n |-> list[i].no]
           rest == SubSeq(list, n + 1, Len(list))
<1>1. /\ n <= Len(list)
      /\ submitted' = submitted \o first
      /\ pendingProofs' = rest \o pendingProofs
      /\ pendingEvents' = (IF n = Len(list) THEN <<>> ELSE batch.events) \o pendingEvents
      /\ batch' = [proofs |-> <<>>, events |-> <<>>]
      /\ UNCHANGED <<now, tracker, made, events>>
  BY DEF Requeue, PutBack, Delivered
<1>2. Typed /\ Indexed
  BY DEF IInv
<1>3. list \in Seq(Made) /\ batch.events \in Seq(Event) /\ Len(list) \in Nat
  BY <1>2 DEF Typed
<1> HIDE DEF list
<1>4. SubSeq(list, 1, n) \in Seq(Made) /\ Len(SubSeq(list, 1, n)) = n
      /\ \A i \in 1..n : SubSeq(list, 1, n)[i] = list[i]
  <2>1. \A i \in 1..n : list[i] \in Made
    BY <1>1, <1>3
  <2> QED
    BY <2>1, SubSeqProperties
<1>5. rest \in Seq(Made)
  <2>1. \A i \in n + 1 .. Len(list) : list[i] \in Made
    BY <1>3
  <2> QED
    BY <1>3, <2>1, SubSeqProperties
<1>6. SubSeq(list, 1, n) \o rest = list
  <2>1. 1 \in 1..Len(list) + 1 /\ n \in 1 - 1 .. Len(list) /\ Len(list) \in n..Len(list)
    BY <1>1, <1>3
  <2>2. SubSeq(list, 1, n) \o SubSeq(list, n + 1, Len(list)) = SubSeq(list, 1, Len(list))
    BY <1>3, <2>1, ConcatAdjacentSubSeq
  <2> QED
    BY <1>3, <2>2, SubSeqFull
<1>7. Nos(SubSeq(list, 1, n)) = first
  <2>1. DOMAIN SubSeq(list, 1, n) = 1..n
    BY <1>4
  <2> QED
    BY <1>4, <2>1 DEF Nos
<1> HIDE DEF rest, first
<1>8. first \in Seq(Nat)
  BY <1>4, <1>7, NosType
<1>9. Typed'
  <2>1. submitted' \in Seq(Nat)
    BY <1>1, <1>2, <1>8, ConcatProperties DEF Typed
  <2>2. pendingProofs' \in Seq(Made)
    BY <1>1, <1>2, <1>5, ConcatProperties DEF Typed
  <2>3. pendingEvents' \in Seq(Event)
    <3>1. (IF n = Len(list) THEN <<>> ELSE batch.events) \in Seq(Event)
      BY <1>3
    <3> QED
      BY <1>1, <1>2, <3>1, ConcatProperties DEF Typed
  <2>4. batch' \in [proofs : Seq(Made), events : Seq(Event)]
    BY <1>1
  <2> QED
    BY <1>1, <1>2, <2>1, <2>2, <2>3, <2>4 DEF Typed, tracker
<1>10. Indexed'
  BY <1>1, <1>2 DEF Indexed, ByHeight, tracker
<1>11. EveryProofOnce'
  <2>1. (submitted \o Nos(list)) \o Nos(pendingProofs) = [i \in 1..made |-> i]
    BY <1>2, EveryNumber DEF IInv, list
  <2>2. Nos(list) = first \o Nos(rest)
    BY <1>4, <1>5, <1>6, <1>7, NosOfConcat
  <2>3. submitted \in Seq(Nat) /\ Nos(rest) \in Seq(Nat) /\ Nos(pendingProofs) \in Seq(Nat)
    BY <1>2, <1>5, NosType DEF Typed
  <2>4. Nos(rest \o pendingProofs) = Nos(rest) \o Nos(pendingProofs)
    BY <1>2, <1>5, NosOfConcat DEF Typed
  <2>5. submitted \o first \in Seq(Nat)
    BY <1>8, <2>3, ConcatProperties
  <2>6. (submitted \o first) \o (Nos(rest) \o Nos(pendingProofs))
          = ((submitted \o first) \o Nos(rest)) \o Nos(pendingProofs)
    BY <2>3, <2>5, Regroup, Zenon
  <2>7. (submitted \o first) \o Nos(rest) = submitted \o (first \o Nos(rest))
    <3>1. first \in Seq(Nat)
      BY <1>8
    <3> QED
      BY <2>3, <3>1, Regroup, Zenon
  <2>8. (submitted \o first) \o Nos(rest \o pendingProofs) = [i \in 1..made |-> i]
    BY <2>1, <2>2, <2>4, <2>6, <2>7
  <2>9. Nos(<<>>) = <<>> /\ (submitted \o first) \o <<>> = submitted \o first
    BY <2>5, ConcatEmptySeq DEF Nos
  <2>10. (submitted' \o Nos(batch'.proofs)) \o Nos(pendingProofs') = [i \in 1..made' |-> i]
    BY <1>1, <2>8, <2>9
  <2>11. ((submitted \o Nos(batch.proofs)) \o Nos(pendingProofs) = [i \in 1..made |-> i])'
    BY <2>10 DEF Nos
  <2>12. Typed' => EveryProofOnce'
    BY <2>11, EveryNumber, PTL
  <2> QED
    BY <1>9, <2>12
<1> QED
  BY <1>9, <1>10, <1>11 DEF IInv

LEMMA Step ==
  ASSUME IInv, [Next]_vars
  PROVE  IInv'
<1>1. CASE \E new \in Reports : ProcessTips(new)
  BY <1>1, ProcessTipsStep
<1>2. CASE \E b \in Blocks, depth \in Depths :
             \E canonical \in {c \in Blocks : Height[c] = Height[b]} : SubmitHeader(b, canonical, depth)
  BY <1>2, SubmitHeaderStep, ParameterAssumption
<1>3. CASE Drain
  BY <1>3, DrainStep
<1>4. CASE \E n \in 0..MaxMade : Requeue(n)
  BY <1>4, RequeueStep
<1>5. CASE Tick
  <2>1. now' \in Clock /\ UNCHANGED <<tracker, pendingProofs, pendingEvents, batch, made, events, submitted>>
    BY <1>5 DEF Tick
  <2> QED
    BY <2>1 DEF IInv, Typed, Indexed, EveryProofOnce, ByHeight, tracker
<1>6. CASE UNCHANGED vars
  BY <1>6 DEF IInv, Typed, Indexed, EveryProofOnce, ByHeight, tracker, vars
<1> QED
  BY <1>1, <1>2, <1>3, <1>4, <1>5, <1>6 DEF Next

LEMMA IInvTypeOK ==
  IInv => TypeOK
<1> SUFFICES ASSUME IInv PROVE TypeOK
  OBVIOUS
<1> USE DEF IInv
<1>1. \A i \in DOMAIN tips : tips[i].status \in {"Active", "Competing", "Stale"} /\ tips[i].block \in Blocks
  <2>1. \A i \in DOMAIN tips : tips[i] \in Tip
    BY DEF Typed
  <2> QED
    BY <2>1 DEF Tip
<1>2. ToSet(pendingProofs) \cup ToSet(batch.proofs) \subseteq Made
  <2>1. pendingProofs \in Seq(Made) /\ batch.proofs \in Seq(Made)
    BY DEF Typed
  <2> QED
    BY <2>1 DEF ToSet
<1> QED
  BY <1>1, <1>2 DEF Typed, Indexed, TypeOK

LEMMA IInvIndexesAgree ==
  IInv => IndexesAgree
<1> SUFFICES ASSUME IInv PROVE IndexesAgree
  OBVIOUS
<1>1. byHeight = ByHeight(headers) /\ {p.block : p \in proofs} = headers
      /\ Cardinality(proofs) = Cardinality(headers)
  BY DEF IInv, Indexed
<1> DEFINE H == {Height[b] : b \in headers}
<1>2. DOMAIN byHeight = H /\ \A h \in H : byHeight[h] = {b \in headers : Height[b] = h}
  BY <1>1 DEF ByHeight
<1>3. \A h \in H : byHeight[h] # {} /\ \A b \in byHeight[h] : Height[b] = h
  BY <1>2
<1>4. UNION {byHeight[h] : h \in H} = headers
  <2>1. ASSUME NEW b \in headers PROVE \E h \in H : b \in byHeight[h]
    <3>1. Height[b] \in H /\ b \in byHeight[Height[b]]
      BY <1>2
    <3> QED
      BY <3>1
  <2>2. \A h \in H : byHeight[h] \subseteq headers
    BY <1>2
  <2> QED
    BY <2>1, <2>2
<1> QED
  BY <1>1, <1>2, <1>3, <1>4 DEF IndexesAgree

----------------------------------------------------------------------------
(* Theorems *)

\* Every history of the miner stays within its limit and every queued proof is
\* one StaleWorkProof::build can make, for any blocks, reports and clock.
THEOREM HistoriesBounded == Spec => []TypeOK
<1>1. Init => IInv
  BY InitHolds
<1>2. IInv /\ [Next]_vars => IInv'
  BY Step
<1> QED
  BY <1>1, <1>2, IInvTypeOK, PTL DEF Spec

\* Headers, proofs and the index by height hold the same blocks, one proof each,
\* through every eviction (evict_oldest).
THEOREM IndexesAlwaysAgree == Spec => []IndexesAgree
<1>1. Init => IInv
  BY InitHolds
<1>2. IInv /\ [Next]_vars => IInv'
  BY Step
<1> QED
  BY <1>1, <1>2, IInvIndexesAgree, PTL DEF Spec

\* Through drains, partial failures and requeues every proof is queued, in the
\* batch or submitted exactly once, and in the order it was made.
THEOREM ProofsNeverLost == Spec => []EveryProofOnce
<1>1. Init => IInv
  BY InitHolds
<1>2. IInv /\ [Next]_vars => IInv'
  BY Step
<1>3. IInv => EveryProofOnce
  BY DEF IInv
<1> QED
  BY <1>1, <1>2, <1>3, PTL DEF Spec
=============================================================================
