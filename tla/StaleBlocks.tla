----------------------------- MODULE StaleBlocks -----------------------------
(***************************************************************************)
(* The harvester of stale Bitcoin blocks: it compares the chain tips it is  *)
(* given with those it had, takes headers from its caller, keeps a bounded  *)
(* history of both and queues proofs and fork events for submission         *)
(* (src/l1-chain/core/src/stale_block_miner.rs).                            *)
(*                                                                         *)
(* A block stands for its header, its hash and the entropy mixed from it;   *)
(* so does the XOR of entropies for the blocks in it an odd number of times.*)
(* Times are Unix seconds.  Nothing of the node calls this module: who polls*)
(* Bitcoin and who submits is the caller's affair.                          *)
(***************************************************************************)
EXTENDS Integers, Sequences, FiniteSets, FiniteSetsExt, SequencesExt, Selection

CONSTANTS
  Blocks,
  TipSets,     \* sets of blocks a Bitcoin node may report as its tips
  Height,      \* [Blocks -> Nat]
  Zeros,       \* [Blocks -> 0..256]: leading zero bits of the hash
  Ones,        \* [Blocks -> 0..32]: bits set in the nonce
  Stamp,       \* [Blocks -> Nat]: header timestamps
  Depths,      \* reorg depths a caller states
  Clock,       \* times at which something happens
  MinZeros,    \* MIN_LEADING_ZEROS
  MaxAge,      \* MAX_STALE_AGE_SECS
  MaxDepth,    \* MAX_REORG_DEPTH
  MaxHistory,  \* MAX_STALE_HISTORY
  MaxTips,     \* MAX_TRACKED_TIPS
  MaxMade,     \* bound: proofs made in a behaviour
  MaxEvents    \* bound: fork events seen in a behaviour

ASSUME ParameterAssumption ==
  /\ IsFiniteSet(Blocks)
  /\ TipSets \subseteq SUBSET Blocks
  /\ \A f \in {Height, Zeros, Ones, Stamp} : f \in [Blocks -> Nat]
  /\ Clock \subseteq Nat \ {0} /\ Clock # {}
  /\ Depths \subseteq Nat
  /\ {MinZeros, MaxAge, MaxDepth, MaxMade, MaxEvents} \subseteq Nat
  /\ {MaxHistory, MaxTips} \subseteq Nat \ {0}

VARIABLES
  now,
  \* LoserChainTracker
  tips,         \* the tips of the last poll
  headers,      \* stale_headers, by hash
  proofs,       \* stale_proofs, by proof_id
  byHeight,     \* stale_by_height: only the heights it has entries for
  forks,        \* fork_events
  cumulative,   \* cumulative_entropy
  \* StaleBlockMiner
  pendingProofs,
  pendingEvents,
  \* the caller: what it drained and has not submitted
  batch,
  \* history
  made,         \* how many proofs were ever queued
  events,       \* how many fork events were
  submitted     \* numbers of the proofs that were submitted

tracker == <<tips, headers, proofs, byHeight, forks, cumulative>>
vars == <<now, tracker, pendingProofs, pendingEvents, batch, made, events, submitted>>

----------------------------------------------------------------------------
(* Scores: compute_score_breakdown *)

PowScore(z) ==
  IF z >= 72 THEN 30
  ELSE IF z >= 56 THEN 25
  ELSE IF z >= 40 THEN 20
  ELSE IF z >= 32 THEN 15
  ELSE Min({z \div 3, 14})

DepthScore(d) ==
  LET capped == Min({d, 6})
  IN CASE capped = 0 -> 0
       [] capped = 1 -> 10
       [] capped = 2 -> 15
       [] capped \in 3..5 -> 20
       [] OTHER -> 25

DivergenceScore(b) ==
  Min({(Min({Ones[b], 16}) * 10) \div 16 + (Min({Stamp[b] % 600, 300}) * 15) \div 300, 25})

FreshnessScore(age) ==
  IF age < 600 THEN 20
  ELSE IF age < 3600 THEN 15
  ELSE IF age < 86400 THEN 10
  ELSE 5

\* saturating_sub
Age(b) == IF now > Stamp[b] THEN now - Stamp[b] ELSE 0

Quality(b, depth) ==
  Min({PowScore(Zeros[b]) + DepthScore(depth) + DivergenceScore(b)
         + FreshnessScore(Age(b)), 100})

----------------------------------------------------------------------------
(* Proofs *)

\* StaleWorkProof::build
Buildable(b, depth) == Zeros[b] >= MinZeros /\ depth <= MaxDepth
Proof(b, canonical, depth) ==
  [block |-> b, canonical |-> canonical, depth |-> depth,
   quality |-> Quality(b, depth), created |-> now]

\* verify_self, as far as build does not settle it.
ConsistentProof(b, canonical) == b # canonical

\* A queued proof has its number, the order in which proofs were made.
Queued(new) == [i \in DOMAIN new |-> [proof |-> new[i], no |-> made + i]]

----------------------------------------------------------------------------
(* LoserChainTracker *)

\* The entries of a height without a hash; an empty list is removed.
Without(index, b) ==
  LET rest == [index EXCEPT ![Height[b]] = @ \ {b}]
      kept == {h \in DOMAIN index : rest[h] # {}}
  IN IF Height[b] \in DOMAIN index THEN [h \in kept |-> rest[h]] ELSE index

With(index, b) ==
  [h \in DOMAIN index \cup {Height[b]} |->
     (IF h \in DOMAIN index THEN index[h] ELSE {}) \cup
     (IF h = Height[b] THEN {b} ELSE {})]

\* evict_oldest: the oldest proof goes, and with it the header and the index
\* entry of its block; of equally old proofs any.  The variant leaves the index
\* as it is.
Oldest(ps) == {p \in ps : \A q \in ps : p.created <= q.created}
EvictKeepIndex(hs, ps, index) ==
  IF Cardinality(hs) <= MaxHistory THEN {[headers |-> hs, proofs |-> ps, index |-> index]}
  ELSE {[headers |-> hs \ {p.block}, proofs |-> ps \ {p}, index |-> index] : p \in Oldest(ps)}
Evict(hs, ps, index) ==
  IF Cardinality(hs) <= MaxHistory THEN {[headers |-> hs, proofs |-> ps, index |-> index]}
  ELSE {[headers |-> hs \ {p.block}, proofs |-> ps \ {p},
         index |-> Without(index, p.block)] : p \in Oldest(ps)}

\* record_stale_block
Recordable(b, canonical, depth) ==
  /\ b \notin headers
  /\ now > Stamp[b] => now - Stamp[b] <= MaxAge
  /\ Buildable(b, depth)
  /\ ConsistentProof(b, canonical)

Record(b, canonical, depth) ==
  LET proof == Proof(b, canonical, depth)
  IN /\ cumulative' = (cumulative \ {b}) \cup ({b} \ cumulative)
     /\ \E kept \in Evict(headers \cup {b}, proofs \cup {proof}, With(byHeight, b)) :
          /\ headers' = kept.headers
          /\ proofs' = kept.proofs
          /\ byHeight' = kept.index
     /\ pendingProofs' = pendingProofs \o Queued(<<proof>>)
     /\ made' = made + 1

\* update_tips: a tip in the race before that is not given any more lost to the
\* active tip, where that is as high; a chain that just grew counts as well.
Winner(t, new) ==
  Kept(new, {i \in DOMAIN new : new[i].height >= t.height /\ new[i].status = "Active"})
Losers(new) ==
  Kept(tips, {l \in DOMAIN tips :
    /\ tips[l].status \in {"Active", "Competing"}
    /\ \A i \in DOMAIN new : new[i].block # tips[l].block
    /\ Winner(tips[l], new) # <<>>})

ForkEvents(new) ==
  LET losers == Losers(new)
  IN [i \in DOMAIN losers |->
        LET w == Winner(losers[i], new)[1]
        IN [loser |-> losers[i].block, winner |-> w.block,
            depth |-> w.height - losers[i].height + 1]]

\* record_fork_event of each: the ring forgets the first.
Ring(list) ==
  IF Len(list) > MaxHistory THEN SubSeq(list, Len(list) - MaxHistory + 1, Len(list)) ELSE list

\* The variant keeps every tip of the poll.
TruncatedNever(new) == new
Truncated(new) == IF Len(new) > MaxTips THEN SubSeq(new, 1, MaxTips) ELSE new

----------------------------------------------------------------------------
(* StaleBlockMiner *)

\* process_tips: a proof for every loser whose header is known; the tracker
\* records none of them.
ProofsOf(evs) ==
  LET known == Kept(evs, {i \in DOMAIN evs :
                 evs[i].loser \in headers /\ Buildable(evs[i].loser, evs[i].depth)})
  IN [i \in DOMAIN known |-> Proof(known[i].loser, known[i].winner, known[i].depth)]

ProcessTips(new) ==
  LET evs == ForkEvents(new)
      built == ProofsOf(evs)
  IN /\ events + Len(evs) <= MaxEvents
     /\ made + Len(built) <= MaxMade
     /\ tips' = Truncated(new)
     /\ forks' = Ring(forks \o evs)
     /\ pendingEvents' = pendingEvents \o evs
     /\ pendingProofs' = pendingProofs \o Queued(built)
     /\ made' = made + Len(built)
     /\ events' = events + Len(evs)
     /\ UNCHANGED <<now, headers, proofs, byHeight, cumulative, batch, submitted>>

\* submit_stale_header and submit_stale_fields
SubmitHeader(b, canonical, depth) ==
  /\ made < MaxMade
  /\ b # canonical
  /\ Recordable(b, canonical, depth)
  /\ Record(b, canonical, depth)
  /\ UNCHANGED <<now, tips, forks, pendingEvents, batch, events, submitted>>

\* drain_pending_proofs and drain_pending_fork_events, once the caller is done
\* with the last batch.
Drain ==
  /\ batch = [proofs |-> <<>>, events |-> <<>>]
  /\ pendingProofs # <<>> \/ pendingEvents # <<>>
  /\ batch' = [proofs |-> pendingProofs, events |-> pendingEvents]
  /\ pendingProofs' = <<>>
  /\ pendingEvents' = <<>>
  /\ UNCHANGED <<now, tracker, made, events, submitted>>

\* The caller submits some of the batch, and has the rest queued again.
Delivered(list, n) == SubSeq(list, n + 1, Len(list))

\* requeue_pending_proofs and requeue_fork_events push to the front, last first;
\* the variant pushes them in order.
PutBackReversed(rest, queue) == Reverse(rest) \o queue
PutBack(rest, queue) == rest \o queue

Requeue(n) ==
  /\ batch # [proofs |-> <<>>, events |-> <<>>]
  /\ n <= Len(batch.proofs)
  /\ submitted' = submitted \o [i \in 1..n |-> batch.proofs[i].no]
  /\ pendingProofs' = PutBack(Delivered(batch.proofs, n), pendingProofs)
  /\ pendingEvents' = PutBack(IF n = Len(batch.proofs) THEN <<>> ELSE batch.events, pendingEvents)
  /\ batch' = [proofs |-> <<>>, events |-> <<>>]
  /\ UNCHANGED <<now, tracker, made, events>>

Tick ==
  /\ now' \in {t \in Clock : t > now}
  /\ UNCHANGED <<tracker, pendingProofs, pendingEvents, batch, made, events, submitted>>

----------------------------------------------------------------------------
(* The specification *)

\* What a Bitcoin node may report: one active tip, of the greatest height, and
\* others, in any order.
TipLists ==
  {[i \in 1..Len(s) |-> [block |-> s[i], height |-> Height[s[i]],
                         status |-> IF s[i] = best THEN "Active" ELSE rest]] :
     s \in UNION {SetToSeqs(bs) : bs \in TipSets},
     best \in Blocks, rest \in {"Competing", "Stale"}}

Reports ==
  {l \in TipLists : \E i \in DOMAIN l : /\ l[i].status = "Active"
                                        /\ \A j \in DOMAIN l : l[j].height <= l[i].height}

Init ==
  /\ now = Min(Clock)
  /\ tips = <<>>
  /\ headers = {}
  /\ proofs = {}
  /\ byHeight = [h \in {} |-> {}]
  /\ forks = <<>>
  /\ cumulative = {}
  /\ pendingProofs = <<>>
  /\ pendingEvents = <<>>
  /\ batch = [proofs |-> <<>>, events |-> <<>>]
  /\ made = 0
  /\ events = 0
  /\ submitted = <<>>

Next ==
  \/ \E new \in Reports : ProcessTips(new)
  \/ \E b \in Blocks, depth \in Depths :
       \E canonical \in {c \in Blocks : Height[c] = Height[b]} :
         SubmitHeader(b, canonical, depth)
  \/ Drain
  \/ \E n \in 0..MaxMade : Requeue(n)
  \/ Tick

Spec == Init /\ [][Next]_vars

----------------------------------------------------------------------------
(* Properties *)

Made == [proof : [block : Blocks, canonical : Blocks, depth : Nat,
                  quality : 0..100, created : Clock], no : 1..MaxMade]

\* Every variable has its type, and no history outgrows its limit.
TypeOK ==
  /\ now \in Clock
  /\ \A i \in DOMAIN tips :
       tips[i].status \in {"Active", "Competing", "Stale"} /\ tips[i].block \in Blocks
  /\ Len(tips) <= MaxTips
  /\ headers \cup cumulative \subseteq Blocks
  /\ Cardinality(headers) <= MaxHistory
  /\ Len(forks) <= MaxHistory
  /\ ToSet(pendingProofs) \cup ToSet(batch.proofs) \subseteq Made
  /\ made \in 0..MaxMade /\ events \in 0..MaxEvents

\* The three maps of the tracker hold the same blocks, each with one proof,
\* whatever is evicted and comes again: evict_oldest can always make room, and
\* a block that is known can never be harvested a second time.
IndexesAgree ==
  /\ {p.block : p \in proofs} = headers
  /\ Cardinality(proofs) = Cardinality(headers)
  /\ UNION {byHeight[h] : h \in DOMAIN byHeight} = headers
  /\ \A h \in DOMAIN byHeight : /\ byHeight[h] # {}
                                /\ \A b \in byHeight[h] : Height[b] = h

\* No proof is lost or submitted twice and none overtakes another, through
\* batches that fail in part while new proofs arrive (drain_pending_proofs,
\* requeue_pending_proofs).
EveryProofOnce ==
  submitted \o [i \in DOMAIN batch.proofs |-> batch.proofs[i].no]
            \o [i \in DOMAIN pendingProofs |-> pendingProofs[i].no]
    = [i \in 1..made |-> i]
=============================================================================
