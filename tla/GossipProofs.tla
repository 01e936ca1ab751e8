----------------------------- MODULE GossipProofs -----------------------------
(***************************************************************************)
(* For any nodes, seeds, time-to-live and bounds, and whatever is lost,     *)
(* forgotten or reordered: no node posts a claim to its peers twice, the    *)
(* seen sets and peer lists keep their caps, and where there are hops       *)
(* enough a flood does not dry up before every node has the claim.          *)
(*                                                                         *)
(* The seen set does not give the first, as it forgets.  It follows from    *)
(* what a node admits: a claim it has posted is a candidate still, or its   *)
(* height has been elected.                                                 *)
(***************************************************************************)
EXTENDS Gossip, CollectionLemmas, SequenceTheorems

----------------------------------------------------------------------------
(* The inductive invariant *)

ClaimOnChain == [miner : Miners, prev : Seq(Miners)]

\* The values PostsOnce depends on.
Typed ==
  /\ DOMAIN peers \subseteq Nodes
  /\ tip \in [Nodes -> Seq(Miners)]
  /\ pending \in [Nodes -> SUBSET ClaimOnChain]
  /\ \A m \in net : m.id.claim \in ClaimOnChain

\* A candidate extends the tip of the node that has it.
CandidatesExtendTip == \A n \in Nodes : \A c \in pending[n] : c.prev = tip[n]

\* A posted claim is a candidate, or below the tip.
PostedIsKept ==
  \A s \in sent :
    /\ s[1] \in Nodes
    /\ s[2] \in ClaimOnChain
    /\ s[2] \in pending[s[1]] \/ Len(s[2].prev) < Len(tip[s[1]])

Inv == Typed /\ CandidatesExtendTip /\ PostedIsKept /\ PostsOnce

----------------------------------------------------------------------------
(* Steps *)

\* A node that makes a claim its candidate may post it.
Posted(n, c) ==
  /\ tip' = tip
  /\ pending' = [pending EXCEPT ![n] = @ \cup {c}]
  /\ RecordPost(n, c)

LEMMA PostKeeps ==
  ASSUME Inv, NEW n \in Nodes, NEW c \in ClaimOnChain,
         c.prev = tip[n], c \notin pending[n], Posted(n, c)
  PROVE  CandidatesExtendTip' /\ PostedIsKept' /\ PostsOnce'
<1> USE DEF Inv, Posted, RecordPost
<1>1. <<n, c>> \notin sent
  BY DEF Typed, PostedIsKept
<1>2. PostsOnce'
  BY <1>1 DEF PostsOnce
<1>3. CandidatesExtendTip'
  BY DEF Typed, CandidatesExtendTip
<1>4. PostedIsKept'
  <2> SUFFICES ASSUME NEW s \in sent'
               PROVE  /\ s[1] \in Nodes /\ s[2] \in ClaimOnChain
                      /\ s[2] \in pending'[s[1]] \/ Len(s[2].prev) < Len(tip'[s[1]])
    BY DEF PostedIsKept
  <2>1. CASE s \in sent
    BY <2>1 DEF Typed, PostedIsKept
  <2>2. CASE s = <<n, c>>
    BY <2>2 DEF Typed
  <2> QED
    BY <2>1, <2>2
<1> QED
  BY <1>2, <1>3, <1>4

LEMMA InvInit == Init => Inv
BY DEF Init, Inv, Typed, CandidatesExtendTip, PostedIsKept, PostsOnce

\* What only touches peers, requests of known claims and seen sets.
LEMMA QuietKeeps ==
  ASSUME Inv, DOMAIN peers' \subseteq Nodes, UNCHANGED <<tip, pending, posted>>,
         \A m \in net' : m \in net
  PROVE  Inv'
BY DEF Inv, Typed, CandidatesExtendTip, PostedIsKept, PostsOnce, posted

LEMMA PeersKeep ==
  ASSUME Inv, NEW n \in Nodes, NEW other \in Nodes,
         Start(n) \/ Bootstrap(n, other) \/ Connect(n, other)
  PROVE  Inv'
<1>1. CASE Start(n)
  BY <1>1, QuietKeeps DEF Start, Inv, Typed
<1>2. CASE Bootstrap(n, other)
  <2>1. DOMAIN peers' \subseteq Nodes
    BY <1>2 DEF Bootstrap, Meet, Inv, Typed
  <2> QED
    BY <1>2, <2>1, QuietKeeps DEF Bootstrap
<1>3. CASE Connect(n, other)
  <2>1. DOMAIN peers' \subseteq Nodes
    BY <1>3 DEF Connect, Inv, Typed
  <2> QED
    BY <1>3, <2>1, QuietKeeps DEF Connect
<1> QED
  BY <1>1, <1>2, <1>3

\* broadcast_claim, of a claim that has just become a candidate.
LEMMA BroadcastKeeps ==
  ASSUME Inv, NEW n \in Nodes, NEW c \in ClaimOnChain,
         c.prev = tip[n], c \notin pending[n],
         Posted(n, c), Broadcast(n, c), peers' = peers
  PROVE  Inv'
<1>1. Typed'
  <2>1. \A m \in net' : m.id.claim \in ClaimOnChain
    BY DEF Broadcast, Posts, Message, Inv, Typed
  <2> QED
    BY <2>1 DEF Posted, Inv, Typed
<1> QED
  BY <1>1, PostKeeps DEF Inv

LEMMA MineKeeps == ASSUME Inv, NEW n \in Nodes, Mine(n) PROVE Inv'
<1> DEFINE c == [miner |-> n, prev |-> tip[n]]
<1>1. c \in ClaimOnChain /\ c.prev = tip[n]
  BY DEF ClaimOnChain, Miners, Inv, Typed
<1>2. /\ c \notin pending[n] /\ Broadcast(n, c) /\ peers' = peers /\ tip' = tip
      /\ pending' = [pending EXCEPT ![n] = @ \cup {c}]
  BY DEF Mine
<1>3. Posted(n, c)
  BY <1>2 DEF Posted, Broadcast
<1> QED
  BY <1>1, <1>2, <1>3, BroadcastKeeps

LEMMA SubmitKeeps ==
  ASSUME Inv, NEW n \in Nodes, NEW miner \in Outside, Submit(n, miner) PROVE Inv'
<1> DEFINE c == [miner |-> miner, prev |-> tip[n]]
<1>1. c \in ClaimOnChain /\ c.prev = tip[n]
  BY DEF ClaimOnChain, Miners, Inv, Typed
<1>2. /\ c \notin pending[n] /\ Broadcast(n, c) /\ peers' = peers /\ tip' = tip
      /\ pending' = [pending EXCEPT ![n] = @ \cup {c}]
  BY DEF Submit, Admits
<1>3. Posted(n, c)
  BY <1>2 DEF Posted, Broadcast
<1> QED
  BY <1>1, <1>2, <1>3, BroadcastKeeps

\* The winner is the new tip: candidates go, and all that was posted is below it.
LEMMA ElectKeeps == ASSUME Inv, NEW n \in Nodes, Elect(n) PROVE Inv'
<1> USE DEF Inv
<1>1. PICK w \in pending[n] : tip' = [tip EXCEPT ![n] = Append(@, w.miner)]
  BY DEF Elect
<1>2. w.miner \in Miners /\ tip[n] \in Seq(Miners)
  BY DEF Typed, ClaimOnChain
<1>3. tip' \in [Nodes -> Seq(Miners)] /\ Len(tip'[n]) = Len(tip[n]) + 1
  BY <1>1, <1>2 DEF Typed
<1>4. Typed'
  BY <1>3 DEF Elect, Typed
<1>5. CandidatesExtendTip'
  BY <1>1 DEF Elect, Typed, CandidatesExtendTip
<1>6. PostedIsKept'
  <2> SUFFICES ASSUME NEW s \in sent
               PROVE  s[2] \in pending'[s[1]] \/ Len(s[2].prev) < Len(tip'[s[1]])
    BY DEF PostedIsKept, Elect, posted
  <2>1. CASE s[1] # n
    BY <1>1, <2>1 DEF Elect, PostedIsKept, Typed
  <2>2. CASE s[1] = n /\ s[2] \in pending[n]
    <3>1. s[2].prev = tip[n] /\ Len(tip[n]) \in Nat
      BY <1>2, <2>2 DEF CandidatesExtendTip
    <3> QED
      BY <1>3, <2>2, <3>1
  <2>3. CASE s[1] = n /\ s[2] \notin pending[n]
    <3>1. Len(s[2].prev) < Len(tip[n])
      BY <2>3 DEF PostedIsKept
    <3>2. Len(s[2].prev) \in Nat /\ Len(tip[n]) \in Nat
      BY <1>2 DEF PostedIsKept, ClaimOnChain
    <3> QED
      BY <1>3, <2>3, <3>1, <3>2
  <2> QED
    BY <2>1, <2>2, <2>3
<1>7. PostsOnce'
  BY DEF PostsOnce, Elect, posted
<1> QED
  BY <1>4, <1>5, <1>6, <1>7

\* handle_p2p_message: what is admitted is relayed or not.
LEMMA DeliverKeeps == ASSUME Inv, NEW m \in net, Deliver(m) PROVE Inv'
<1> DEFINE n == m.to
           c == m.id.claim
<1>1. n \in Nodes /\ c \in ClaimOnChain
  BY DEF Deliver, Started, Inv, Typed
<1>2. CASE net' = net \ {m} /\ UNCHANGED <<pending, posted>>
  BY <1>2, QuietKeeps DEF Deliver, Inv, Typed
<1>3. CASE /\ Admits(n, c)
           /\ pending' = [pending EXCEPT ![n] = @ \cup {c}]
           /\ Relay(m)
  <2>1. c.prev = tip[n] /\ c \notin pending[n] /\ tip' = tip /\ peers' = peers
    BY <1>3 DEF Admits, Deliver
  <2>2. Typed'
    <3>1. \A k \in net' : k.id.claim \in ClaimOnChain
      BY <1>1, <1>3 DEF Relay, Posts, Message, Inv, Typed
    <3>2. pending' \in [Nodes -> SUBSET ClaimOnChain]
      BY <1>1, <1>3 DEF Inv, Typed
    <3> QED
      BY <2>1, <3>1, <3>2 DEF Inv, Typed
  <2>3. CASE HopsLeft(m) > 0
    <3>1. Posted(n, c)
      BY <1>3, <2>1, <2>3 DEF Relay, Posted
    <3> QED
      BY <1>1, <2>1, <2>2, <3>1, PostKeeps DEF Inv
  <2>4. CASE ~(HopsLeft(m) > 0)
    <3>1. UNCHANGED posted
      BY <1>3, <2>4 DEF Relay
    <3>2. CandidatesExtendTip' /\ PostedIsKept' /\ PostsOnce'
      BY <1>1, <1>3, <2>1, <3>1
      DEF Inv, Typed, CandidatesExtendTip, PostedIsKept, PostsOnce, posted
    <3> QED
      BY <2>2, <3>2 DEF Inv
  <2> QED
    BY <2>3, <2>4
<1> QED
  BY <1>2, <1>3 DEF Deliver

LEMMA InvStep == Inv /\ [Next]_vars => Inv'
<1> SUFFICES ASSUME Inv, [Next]_vars PROVE Inv'
  OBVIOUS
<1>1. CASE UNCHANGED vars
  BY <1>1, QuietKeeps DEF vars, posted, Inv, Typed
<1>2. CASE \E n \in Nodes : Start(n) \/ Mine(n) \/ Elect(n)
  BY <1>2, PeersKeep, MineKeeps, ElectKeeps
<1>3. CASE \E n, other \in Nodes : Bootstrap(n, other) \/ Connect(n, other)
  BY <1>3, PeersKeep
<1>4. CASE \E n \in Nodes, miner \in Outside : Submit(n, miner)
  BY <1>4, SubmitKeeps
<1>5. CASE \E m \in net : Deliver(m) \/ Lose(m)
  <2>1. ASSUME NEW m \in net, Lose(m) PROVE Inv'
    BY <2>1, QuietKeeps DEF Lose, Inv, Typed
  <2> QED
    BY <1>5, <2>1, DeliverKeeps
<1>6. CASE AtBound
  BY <1>6, <1>1 DEF AtBound
<1> QED
  BY <1>1, <1>2, <1>3, <1>4, <1>5, <1>6 DEF Next

----------------------------------------------------------------------------
(* No claim is posted twice *)

\* broadcast_claim and relay_message: a node posts a claim to its peers at most
\* once, though its seen set forgets and claims come back in other envelopes.
THEOREM PostsAtMostOnce == Spec => []PostsOnce
<1>1. Inv => PostsOnce
  BY DEF Inv
<1> QED
  BY <1>1, InvInit, InvStep, PTL DEF Spec

----------------------------------------------------------------------------
(* The types and the caps                                                    *)

Id == [maker : Nodes, claim : Claims]

\* A candidate is for a height within the bound, so that electing it is too.
Shape ==
  /\ TypeOK
  /\ tip \in [Nodes -> Chains]
  /\ pending \in [Nodes -> SUBSET Claims]
  /\ seen \in [Nodes -> SUBSET Id]
  /\ \A n \in Nodes : IsFiniteSet(seen[n])
  /\ \A n \in Nodes : \A c \in pending[n] : c.prev = tip[n] /\ Len(c.prev) < MaxHeight

\* PeerList.add keeps what is there and never passes MAX_PEERS.
LEMMA AddedBounds ==
  ASSUME NEW list \in SUBSET Nodes, Cardinality(list) <= MaxPeers,
         NEW addresses \in SUBSET Nodes, NEW l \in Added(list, addresses)
  PROVE  l \in SUBSET Nodes /\ list \subseteq l /\ Cardinality(l) <= MaxPeers
<1> DEFINE both == list \cup addresses
<1>1. MaxPeers \in Nat
  BY ParameterAssumption
<1>2. Cardinality(list) \in Nat /\ Cardinality(both) \in Nat
  BY ParameterAssumption, FS_Subset, FS_CardinalityType
<1>3. l \in SUBSET both /\ list \subseteq l
      /\ Cardinality(l) = Max({Cardinality(list), Min({MaxPeers, Cardinality(both)})})
  BY DEF Added
<1> HIDE DEF both
<1>4. Min({MaxPeers, Cardinality(both)}) \in Nat /\ Min({MaxPeers, Cardinality(both)}) <= MaxPeers
  BY <1>1, <1>2, MinOfTwo
<1>5. Max({Cardinality(list), Min({MaxPeers, Cardinality(both)})}) <= MaxPeers
  <2> DEFINE room == Min({MaxPeers, Cardinality(both)})
  <2>1. room \in Nat /\ room <= MaxPeers
    BY <1>4
  <2> HIDE DEF room
  <2>2. Max({Cardinality(list), room}) = IF Cardinality(list) >= room THEN Cardinality(list) ELSE room
    BY <1>2, <2>1, MaxOfTwo
  <2>3. Max({Cardinality(list), room}) <= MaxPeers
    BY <2>1, <2>2
  <2> QED
    BY <2>3 DEF room
<1> QED
  BY <1>3, <1>5 DEF both

\* mark_seen: a full set forgets half of itself, so that one more has room.
LEMMA MarkedBounds ==
  ASSUME Shape, NEW n \in Nodes, NEW id \in Id, NEW marked \in Marked(n, id)
  PROVE  marked \in SUBSET Id /\ IsFiniteSet(marked) /\ Cardinality(marked) <= MaxSeen
<1>1. /\ seen[n] \in SUBSET Id /\ IsFiniteSet(seen[n])
      /\ Cardinality(seen[n]) \in Nat /\ Cardinality(seen[n]) <= MaxSeen
  BY FS_CardinalityType DEF Shape, TypeOK
<1>2. MaxSeen \in Nat \ {0, 1} /\ MaxSeen \div 2 \in 1..MaxSeen
  BY ParameterAssumption
<1>3. PICK forgotten \in SUBSET seen[n] :
        /\ marked = (seen[n] \ forgotten) \cup {id}
        /\ IF Cardinality(seen[n]) < MaxSeen THEN forgotten = {}
             ELSE Cardinality(forgotten) = MaxSeen \div 2
  BY DEF Marked, kSubset
<1> DEFINE rest == seen[n] \ forgotten
<1>4. IsFiniteSet(rest) /\ Cardinality(rest) = Cardinality(seen[n]) - Cardinality(seen[n] \cap forgotten)
  BY <1>1, FS_Difference, FS_Subset
<1>5. seen[n] \cap forgotten = forgotten /\ IsFiniteSet(forgotten)
  BY <1>1, FS_Subset
<1>6. Cardinality(rest) <= MaxSeen - 1 /\ Cardinality(rest) \in Nat
  <2>1. CASE Cardinality(seen[n]) < MaxSeen
    <3>1. forgotten = {}
      BY <1>3, <2>1
    <3>2. rest = seen[n]
      BY <3>1
    <3> HIDE DEF rest
    <3> QED
      BY <1>1, <1>2, <2>1, <3>2
  <2>2. CASE ~(Cardinality(seen[n]) < MaxSeen)
    <3>1. Cardinality(rest) = Cardinality(seen[n]) - MaxSeen \div 2
      BY <1>3, <1>4, <1>5, <2>2
    <3>2. Cardinality(rest) \in Nat
      BY <1>4, FS_CardinalityType
    <3> QED
      BY <1>1, <1>2, <3>1, <3>2
  <2> QED
    BY <2>1, <2>2
<1>7. IsFiniteSet(rest \cup {id}) /\ Cardinality(rest \cup {id}) <= MaxSeen
  <2> HIDE DEF rest
  <2>1. IsFiniteSet(rest \cup {id}) /\ Cardinality(rest \cup {id})
          = IF id \in rest THEN Cardinality(rest) ELSE Cardinality(rest) + 1
    BY <1>4, FS_AddElement
  <2>2. Cardinality(rest \cup {id}) \in Nat
    BY <2>1, FS_CardinalityType
  <2> QED
    BY <1>2, <1>6, <2>1, <2>2
<1> QED
  BY <1>1, <1>3, <1>7

\* A chain is a list of miners; one block more stays a chain below the bound.
LEMMA ChainGrowsByOne ==
  ASSUME NEW s \in Chains
  PROVE  /\ s \in Seq(Miners) /\ Len(s) \in 0..MaxHeight
         /\ \A m \in Miners : Len(s) < MaxHeight => Append(s, m) \in Chains
<1>1. PICK h \in 0..MaxHeight : s \in [1..h -> Miners]
  BY DEF Chains
<1>2. MaxHeight \in Nat
  BY ParameterAssumption
<1>3. s \in Seq(Miners) /\ Len(s) = h
  BY <1>1
<1>4. ASSUME NEW m \in Miners, Len(s) < MaxHeight PROVE Append(s, m) \in Chains
  <2> DEFINE more == Append(s, m)
  <2>0. more \in Seq(Miners) /\ Len(more) = h + 1
    BY <1>3
  <2> HIDE DEF more
  <2>1. more \in [1..(h + 1) -> Miners] /\ h + 1 \in 0..MaxHeight
    BY <1>2, <1>3, <1>4, <2>0
  <2> QED
    BY <2>1 DEF Chains, more
<1> QED
  BY <1>1, <1>3, <1>4

\* Lists of peers within the cap.
PeerLists(p) ==
  /\ DOMAIN p \subseteq Nodes
  /\ \A n \in DOMAIN p : p[n] \in SUBSET Nodes /\ Cardinality(p[n]) <= MaxPeers

\* What adding addresses to lists gives.
Grown(p, q) ==
  /\ PeerLists(q)
  /\ DOMAIN q = DOMAIN p
  /\ \A m \in DOMAIN p : p[m] \subseteq q[m]

WithList(p, n, list) == [p EXCEPT ![n] = list]

\* One list that takes addresses, and the others as they were.
LEMMA OneListGrows ==
  ASSUME NEW p, PeerLists(p), NEW n \in DOMAIN p, NEW addresses \in SUBSET Nodes,
         NEW list \in Added(p[n], addresses)
  PROVE  Grown(p, WithList(p, n, list)) /\ list \in SUBSET Nodes
<1> PICK q : q = WithList(p, n, list)
  OBVIOUS
<1>1. list \in SUBSET Nodes /\ p[n] \subseteq list /\ Cardinality(list) <= MaxPeers
  BY AddedBounds DEF PeerLists
<1>2. DOMAIN q = DOMAIN p /\ \A m \in DOMAIN p : q[m] = IF m = n THEN list ELSE p[m]
  BY DEF WithList
<1>3. PeerLists(q) /\ (\A m \in DOMAIN p : p[m] \subseteq q[m]) /\ q[n] = list
  BY <1>1, <1>2 DEF PeerLists
<1> QED
  BY <1>1, <1>2, <1>3 DEF Grown

\* No address ever leaves a list, and no list passes the cap (PeerList.add).
LEMMA PeersOnlyGrow ==
  ASSUME Shape, NEW n \in Nodes, NEW other \in Nodes,
         Start(n) \/ Bootstrap(n, other) \/ Connect(n, other)
  PROVE  /\ PeerLists(peers') /\ DOMAIN peers \subseteq DOMAIN peers'
         /\ \A m \in DOMAIN peers : peers[m] \subseteq peers'[m]
         /\ unasked' \in [Nodes -> SUBSET Nodes]
<1>1. PeerLists(peers) /\ unasked \in [Nodes -> SUBSET Nodes]
  BY DEF Shape, TypeOK, PeerLists
<1>2. CASE Start(n)
  <2>1. PICK list \in Added({}, Seeds[n]) :
          /\ n \notin DOMAIN peers
          /\ peers' = [m \in DOMAIN peers \cup {n} |-> IF m = n THEN list ELSE peers[m]]
          /\ unasked' = [unasked EXCEPT ![n] = list]
    BY <1>2 DEF Start, Started
  <2>2. list \in SUBSET Nodes /\ Cardinality(list) <= MaxPeers
    <3>1. {} \in SUBSET Nodes /\ Cardinality({}) <= MaxPeers /\ Seeds[n] \in SUBSET Nodes
      BY ParameterAssumption, FS_EmptySet
    <3> QED
      BY <3>1, AddedBounds
  <2> QED
    BY <1>1, <2>1, <2>2 DEF PeerLists
<1>3. CASE Bootstrap(n, other)
  <2>1. n \in DOMAIN peers /\ unasked' = [unasked EXCEPT ![n] = @ \ {other}]
    BY <1>3 DEF Bootstrap, Started
  <2>2. unasked' \in [Nodes -> SUBSET Nodes]
    BY <1>1, <2>1
  <2>3. CASE peers' = peers
    BY <1>1, <2>2, <2>3
  <2>4. CASE other \in DOMAIN peers /\ Meet(n, other)
    <3>1. PICK known \in Added(peers[other], {n}) :
            \E list \in Added(WithList(peers, other, known)[n], known) :
              peers' = WithList(WithList(peers, other, known), n, list)
      BY <2>4 DEF Meet, WithList
    <3>2. {n} \in SUBSET Nodes /\ other \in DOMAIN peers
      BY <2>4
    <3> DEFINE now == WithList(peers, other, known)
    <3>3. Grown(peers, now) /\ known \in SUBSET Nodes
      BY <1>1, <3>2, OneListGrows
    <3>4. PICK list \in Added(now[n], known) : peers' = WithList(now, n, list)
      BY <3>1
    <3> HIDE DEF now
    <3>5. n \in DOMAIN now /\ PeerLists(now)
      BY <2>1, <3>3 DEF Grown
    <3>6. Grown(now, peers')
      BY <3>3, <3>4, <3>5, OneListGrows
    <3> QED
      BY <2>2, <3>3, <3>6 DEF Grown
  <2> QED
    BY <1>3, <2>3, <2>4 DEF Bootstrap, Started
<1>4. CASE Connect(n, other)
  <2>1. PICK first \in Added(peers[n], {other}) :
          \E known \in Added(WithList(peers, n, first)[other], {n}) :
            \E all \in Added(WithList(WithList(peers, n, first), other, known)[n], known) :
              peers' = WithList(WithList(WithList(peers, n, first), other, known), n, all)
    BY <1>4 DEF Connect, WithList
  <2>2. n \in DOMAIN peers /\ other \in DOMAIN peers /\ unasked' = unasked
    BY <1>4 DEF Connect, Started
  <2> DEFINE joined == WithList(peers, n, first)
  <2>3. {n} \in SUBSET Nodes /\ {other} \in SUBSET Nodes
    OBVIOUS
  <2>4. Grown(peers, joined)
    BY <1>1, <2>2, <2>3, OneListGrows
  <2>5. PICK known \in Added(joined[other], {n}) :
          \E all \in Added(WithList(joined, other, known)[n], known) :
            peers' = WithList(WithList(joined, other, known), n, all)
    BY <2>1
  <2> HIDE DEF joined
  <2>6. n \in DOMAIN joined /\ other \in DOMAIN joined /\ PeerLists(joined)
    BY <2>2, <2>4 DEF Grown
  <2> DEFINE now == WithList(joined, other, known)
  <2>7. Grown(joined, now) /\ known \in SUBSET Nodes
    BY <2>3, <2>6, OneListGrows
  <2>8. PICK all \in Added(now[n], known) : peers' = WithList(now, n, all)
    BY <2>5
  <2> HIDE DEF now
  <2>9. n \in DOMAIN now /\ PeerLists(now)
    BY <2>6, <2>7 DEF Grown
  <2>10. Grown(now, peers')
    BY <2>7, <2>8, <2>9, OneListGrows
  <2> QED
    BY <1>1, <2>2, <2>4, <2>7, <2>10 DEF Grown
<1> QED
  BY <1>2, <1>3, <1>4

LEMMA ShapeInit == Init => Shape
<1> SUFFICES ASSUME Init PROVE Shape
  OBVIOUS
<1>1. <<>> \in Chains
  <2>1. 0 \in 0..MaxHeight /\ <<>> \in [1..0 -> Miners]
    BY ParameterAssumption
  <2> QED
    BY <2>1 DEF Chains
<1>2. IsFiniteSet({}) /\ Cardinality({}) = 0
  BY FS_EmptySet
<1>3. {MaxSeen, MaxLost} \subseteq Nat
  BY ParameterAssumption
<1>4. TypeOK
  BY <1>1, <1>2, <1>3 DEF TypeOK, Init
<1> QED
  BY <1>1, <1>2, <1>4 DEF Init, Shape

\* Learning peers changes nothing else.
LEMMA ShapePeers ==
  ASSUME Shape, NEW n \in Nodes, NEW other \in Nodes,
         Start(n) \/ Bootstrap(n, other) \/ Connect(n, other)
  PROVE  Shape'
<1>1. UNCHANGED <<seen, tip, pending, net, posted, promised>>
  BY DEF Start, Bootstrap, Connect
<1>2. losses' \in 0..MaxLost
  BY ParameterAssumption DEF Start, Bootstrap, Connect, Shape, TypeOK
<1>3. /\ PeerLists(peers') /\ DOMAIN peers \subseteq DOMAIN peers'
      /\ unasked' \in [Nodes -> SUBSET Nodes]
  BY PeersOnlyGrow
<1>4. TypeOK'
  BY <1>1, <1>2, <1>3 DEF Shape, TypeOK, PeerLists, posted
<1> QED
  BY <1>1, <1>4 DEF Shape

\* What a node posts is well formed.
Packet == [to : Nodes, ttl : 1..Ttl, id : Id]

LEMMA PostsTyped ==
  ASSUME Shape, NEW n \in DOMAIN peers, NEW id \in Id, NEW ttl \in 1..Ttl
  PROVE  Posts(n, id, ttl) \subseteq Packet
BY DEF Posts, Message, Packet, Shape, TypeOK

LEMMA RecordTyped ==
  ASSUME Shape, NEW n \in DOMAIN peers, NEW c \in Claims,
         RecordPost(n, c) \/ UNCHANGED posted
  PROVE  again' \subseteq sent' /\ sent' \subseteq (DOMAIN peers) \X Claims
<1>1. again \subseteq sent /\ sent \subseteq (DOMAIN peers) \X Claims
  BY DEF Shape, TypeOK
<1>2. <<n, c>> \in (DOMAIN peers) \X Claims
  OBVIOUS
<1>3. CASE RecordPost(n, c)
  BY <1>1, <1>2, <1>3 DEF RecordPost
<1>4. CASE UNCHANGED posted
  BY <1>1, <1>4 DEF posted
<1> QED
  BY <1>3, <1>4

\* A claim that becomes a candidate and is posted, or not, by a node that marks it.
LEMMA ShapeAdmit ==
  ASSUME Shape, NEW n \in DOMAIN peers, NEW c \in Claims, NEW id \in Id,
         c.prev = tip[n], Len(tip[n]) < MaxHeight,
         NEW marked \in Marked(n, id), seen' = [seen EXCEPT ![n] = marked],
         pending' = [pending EXCEPT ![n] = @ \cup {c}],
         net' \subseteq Packet,
         RecordPost(n, c) \/ UNCHANGED posted,
         promised' \subseteq Claims,
         UNCHANGED <<peers, unasked, tip, losses>>
  PROVE  Shape'
<1>1. n \in Nodes
  BY DEF Shape, TypeOK
<1>2. marked \in SUBSET Id /\ IsFiniteSet(marked) /\ Cardinality(marked) <= MaxSeen
  BY <1>1, MarkedBounds
<1>3. pending' \in [Nodes -> SUBSET Claims]
      /\ \A m \in Nodes : \A d \in pending'[m] : d.prev = tip[m] /\ Len(d.prev) < MaxHeight
  BY <1>1 DEF Shape
<1>4. /\ seen' \in [Nodes -> SUBSET Id]
      /\ \A m \in Nodes : IsFiniteSet(seen'[m])
      /\ \A m \in Nodes : Cardinality(seen'[m]) <= MaxSeen
  BY <1>1, <1>2 DEF Shape, TypeOK
<1>5. again' \subseteq sent' /\ sent' \subseteq (DOMAIN peers) \X Claims
  BY RecordTyped
<1>6. TypeOK'
  <2>1. /\ DOMAIN peers \subseteq Nodes
        /\ \A k \in DOMAIN peers : peers[k] \subseteq Nodes /\ Cardinality(peers[k]) <= MaxPeers
        /\ unasked \in [Nodes -> SUBSET Nodes] /\ losses \in 0..MaxLost
        /\ \A k \in Nodes : tip[k] \in Chains
    BY DEF Shape, TypeOK
  <2> QED
    BY <1>3, <1>4, <1>5, <2>1 DEF TypeOK, Packet, Id
<1> QED
  BY <1>3, <1>4, <1>6 DEF Shape

LEMMA PromiseTyped ==
  ASSUME Shape, NEW n \in Nodes, NEW c \in Claims PROVE Promise(n, c) \subseteq Claims
BY DEF Promise, Shape, TypeOK

\* broadcast_claim of a claim of the node's own or of a miner behind it.
LEMMA ShapeBroadcast ==
  ASSUME Shape, NEW n \in DOMAIN peers, NEW miner \in Miners, Len(tip[n]) < MaxHeight,
         NEW c, c = [miner |-> miner, prev |-> tip[n]],
         pending' = [pending EXCEPT ![n] = @ \cup {c}],
         Broadcast(n, c), UNCHANGED <<peers, unasked, tip, losses>>
  PROVE  Shape'
<1> DEFINE id == [maker |-> n, claim |-> c]
<1>1. n \in Nodes /\ c \in Claims /\ c.prev = tip[n]
  BY DEF Shape, TypeOK, Claims
<1>2. id \in Id
  BY <1>1 DEF Id
<1>3. /\ \E marked \in Marked(n, id) : seen' = [seen EXCEPT ![n] = marked]
      /\ net' = net \cup Posts(n, id, Ttl)
      /\ RecordPost(n, c)
      /\ promised' = Promise(n, c)
  BY DEF Broadcast
<1>4. Ttl \in 1..Ttl
  BY ParameterAssumption
<1> HIDE DEF id
<1>5. net' \subseteq Packet
  BY <1>2, <1>3, <1>4, PostsTyped DEF Shape, TypeOK, Packet, Id
<1>6. promised' \subseteq Claims
  BY <1>1, <1>3, PromiseTyped
<1> QED
  BY <1>1, <1>2, <1>3, <1>5, <1>6, ShapeAdmit

LEMMA ShapeElect == ASSUME Shape, NEW n \in Nodes, Elect(n) PROVE Shape'
<1>1. PICK w \in pending[n] : tip' = [tip EXCEPT ![n] = Append(@, w.miner)]
  BY DEF Elect
<1>2. /\ pending' = [pending EXCEPT ![n] = {}]
      /\ promised' \subseteq promised
      /\ UNCHANGED <<peers, unasked, seen, net, posted, losses>>
  BY DEF Elect
<1>3. tip[n] \in Chains /\ w.miner \in Miners /\ Len(tip[n]) < MaxHeight
  BY DEF Shape, Claims
<1>4. Append(tip[n], w.miner) \in Chains
  BY <1>3, ChainGrowsByOne
<1>5. tip' \in [Nodes -> Chains] /\ pending' \in [Nodes -> SUBSET Claims]
  BY <1>1, <1>2, <1>4 DEF Shape
<1>6. \A m \in Nodes : \A c \in pending'[m] : c.prev = tip'[m] /\ Len(c.prev) < MaxHeight
  BY <1>1, <1>2 DEF Shape
<1>7. TypeOK'
  BY <1>2, <1>5 DEF Shape, TypeOK, posted
<1> QED
  BY <1>2, <1>5, <1>6, <1>7 DEF Shape

LEMMA ShapeDeliver == ASSUME Shape, NEW m \in net, Deliver(m) PROVE Shape'
<1> DEFINE n == m.to
           c == m.id.claim
<1>1. m \in Packet /\ n \in DOMAIN peers /\ n \in Nodes /\ c \in Claims /\ m.id \in Id
      /\ m.ttl \in 1..Ttl
  BY DEF Deliver, Started, Shape, TypeOK, Packet, Id
<1>2. UNCHANGED <<peers, unasked, tip, promised, losses>>
  BY DEF Deliver
<1>3. CASE net' = net \ {m} /\ UNCHANGED <<seen, pending, posted>>
  <2>1. TypeOK'
    BY <1>2, <1>3 DEF Shape, TypeOK, posted
  <2> QED
    BY <1>2, <1>3, <2>1 DEF Shape
<1>4. ASSUME NEW marked \in Marked(n, m.id), seen' = [seen EXCEPT ![n] = marked],
             net' = net \ {m}, UNCHANGED <<pending, posted>>
      PROVE  Shape'
  <2>1. marked \in SUBSET Id /\ IsFiniteSet(marked) /\ Cardinality(marked) <= MaxSeen
    BY <1>1, MarkedBounds
  <2>2. /\ seen' \in [Nodes -> SUBSET Id]
        /\ \A k \in Nodes : IsFiniteSet(seen'[k])
        /\ \A k \in Nodes : Cardinality(seen'[k]) <= MaxSeen
    BY <1>1, <1>4, <2>1 DEF Shape, TypeOK
  <2>3. TypeOK'
    BY <1>2, <1>4, <2>2 DEF Shape, TypeOK, posted, Id
  <2> QED
    BY <1>2, <1>4, <2>2, <2>3 DEF Shape
<1>5. ASSUME NEW marked \in Marked(n, m.id), seen' = [seen EXCEPT ![n] = marked],
             Admits(n, c), pending' = [pending EXCEPT ![n] = @ \cup {c}], Relay(m)
      PROVE  Shape'
  <2>1. c.prev = tip[n] /\ Len(tip[n]) < MaxHeight
    BY <1>5 DEF Admits
  <2>2. net \subseteq Packet
    BY DEF Shape, TypeOK, Packet, Id
  <2>3. net' \subseteq Packet
    <3>1. CASE HopsLeft(m) > 0
      <4>1. HopsLeft(m) \in 1..Ttl
        BY <1>1, <3>1, ParameterAssumption DEF HopsLeft
      <4>2. Posts(n, m.id, HopsLeft(m)) \subseteq Packet
        BY <1>1, <4>1, PostsTyped
      <4> QED
        BY <1>5, <2>2, <3>1, <4>2 DEF Relay
    <3> QED
      BY <1>5, <2>2, <3>1 DEF Relay
  <2>4. RecordPost(n, c) \/ UNCHANGED posted
    BY <1>5 DEF Relay
  <2>5. promised' \subseteq Claims
    BY <1>2 DEF Shape, TypeOK
  <2> QED
    BY <1>1, <1>2, <1>5, <2>1, <2>3, <2>4, <2>5, ShapeAdmit
<1> QED
  BY <1>3, <1>4, <1>5 DEF Deliver

LEMMA ShapeStep == Shape /\ [Next]_vars => Shape'
<1> SUFFICES ASSUME Shape, [Next]_vars PROVE Shape'
  OBVIOUS
<1>1. CASE UNCHANGED vars
  <2>1. TypeOK'
    BY <1>1 DEF vars, Shape, TypeOK
  <2> QED
    BY <1>1, <2>1 DEF vars, Shape
<1>2. ASSUME NEW n \in Nodes, Start(n) \/ Mine(n) \/ Elect(n) PROVE Shape'
  <2>1. CASE Mine(n)
    <3>1. n \in DOMAIN peers /\ n \in Miners /\ Len(tip[n]) < MaxHeight
          /\ UNCHANGED <<peers, unasked, tip, losses>>
      BY <2>1 DEF Mine, Started, Miners
    <3>2. PICK c : /\ c = [miner |-> n, prev |-> tip[n]]
                   /\ pending' = [pending EXCEPT ![n] = @ \cup {c}]
                   /\ Broadcast(n, c)
      BY <2>1 DEF Mine
    <3> QED
      BY <3>1, <3>2, ShapeBroadcast
  <2> QED
    BY <1>2, <2>1, ShapePeers, ShapeElect
<1>3. CASE \E n, other \in Nodes : Bootstrap(n, other) \/ Connect(n, other)
  BY <1>3, ShapePeers
<1>4. ASSUME NEW n \in Nodes, NEW miner \in Outside, Submit(n, miner) PROVE Shape'
  <2>1. n \in DOMAIN peers /\ miner \in Miners /\ Len(tip[n]) < MaxHeight
        /\ UNCHANGED <<peers, unasked, tip, losses>>
    BY <1>4 DEF Submit, Admits, Started, Miners
  <2>2. PICK c : /\ c = [miner |-> miner, prev |-> tip[n]]
                 /\ pending' = [pending EXCEPT ![n] = @ \cup {c}]
                 /\ Broadcast(n, c)
    BY <1>4 DEF Submit
  <2> QED
    BY <2>1, <2>2, ShapeBroadcast
<1>5. ASSUME NEW m \in net, Lose(m) PROVE Shape'
  <2>1. /\ losses' \in 0..MaxLost /\ net' \subseteq net /\ promised' \subseteq promised
        /\ UNCHANGED <<peers, unasked, seen, tip, pending, posted>>
    BY <1>5, ParameterAssumption DEF Lose, Shape, TypeOK
  <2>2. TypeOK'
    BY <2>1 DEF Shape, TypeOK, posted
  <2> QED
    BY <2>1, <2>2 DEF Shape
<1> QED
  BY <1>1, <1>2, <1>3, <1>4, <1>5, ShapeDeliver DEF Next, AtBound

\* PeerList.add and mark_seen keep both sets within their caps, whatever the
\* seeds, the order of requests and what is lost; a request names a node, a hop
\* count that is left and a claim (broadcast_message, relay_message).
THEOREM CapsAlwaysHold == Spec => []TypeOK
<1>1. Shape => TypeOK
  BY DEF Shape
<1> QED
  BY <1>1, ShapeInit, ShapeStep, PTL DEF Spec

----------------------------------------------------------------------------
(* The flood                                                                 *)

\* Candidates, requests and identifiers are of claims some node has posted.
Known ==
  /\ \A n \in Nodes : pending[n] \subseteq Made /\ \A id \in seen[n] : id.claim \in Made
  /\ \A m \in net : m.id.claim \in Made

Holders(claim) == {n \in Nodes : claim \in pending[n]}
UnderWay(to, claim) == \E m \in net : m.to = to /\ m.id.claim = claim

\* Along the posts of g everything is reached from n.
Covers(g, n) ==
  \A group \in SUBSET Nodes : n \in group /\ (\A x \in group : g[x] \subseteq group) => group = Nodes

\* The flood of a promised claim: g are the peer lists of when it was promised,
\* which have only grown.  All a node that has the claim posts to have it too, or a
\* request is under way to them: it posted the claim when it took it, unless no hop
\* was left, and then as many nodes had taken it as there are.
Flows(claim, g) ==
  /\ \A x \in Nodes : g[x] \subseteq peers[x]
  /\ \E n \in Holders(claim) : Covers(g, n)
  /\ \A x \in Holders(claim) : \A p \in g[x] : p \in Holders(claim) \/ UnderWay(p, claim)

Flood(claim) ==
  /\ DOMAIN peers = Nodes
  /\ \A n \in Nodes : tip[n] = claim.prev
  /\ \A n \in Nodes : \A id \in seen[n] : id.claim = claim => n \in Holders(claim)
  /\ \A m \in net : m.id.claim = claim => m.ttl + Cardinality(Holders(claim)) > Ttl
  /\ \E g \in [Nodes -> SUBSET Nodes] : Flows(claim, g)

EnoughHops == Cardinality(Nodes) <= Ttl + 1

Hears ==
  /\ Shape
  /\ Known
  /\ \A claim \in promised : Flood(claim)

\* When the flood is over every node has the claim.
LEMMA FloodReaches ==
  ASSUME NEW c, Flood(c), \A m \in net : m.id.claim # c
  PROVE  \A n \in Nodes : c \in pending[n]
<1>1. PICK g \in [Nodes -> SUBSET Nodes] : Flows(c, g)
  BY DEF Flood
<1>2. \A x \in Holders(c) : g[x] \subseteq Holders(c)
  BY <1>1 DEF Flows, UnderWay
<1>3. Holders(c) \in SUBSET Nodes
  BY DEF Holders
<1>4. Holders(c) = Nodes
  BY <1>1, <1>2, <1>3 DEF Flows, Covers
<1> QED
  BY <1>4 DEF Holders

LEMMA HoldersAreFinite ==
  ASSUME NEW c PROVE IsFiniteSet(Holders(c)) /\ Cardinality(Holders(c)) \in Nat
BY ParameterAssumption, FS_Subset, FS_CardinalityType DEF Holders

\* Nodes that learn peers keep every list the flood uses.
LEMMA FloodMeets ==
  ASSUME NEW c, Flood(c), PeerLists(peers'), DOMAIN peers \subseteq DOMAIN peers',
         \A m \in DOMAIN peers : peers[m] \subseteq peers'[m],
         UNCHANGED <<seen, tip, pending, net>>
  PROVE  Flood(c)'
<1>1. PICK g \in [Nodes -> SUBSET Nodes] : Flows(c, g)
  BY DEF Flood
<1>2. Holders(c)' = Holders(c) /\ \A p : UnderWay(p, c)' <=> UnderWay(p, c)
  BY DEF Holders, UnderWay
<1>3. DOMAIN peers = Nodes /\ DOMAIN peers' = Nodes
  BY DEF Flood, PeerLists
<1>4. Flows(c, g)'
  <2>1. \A x \in Nodes : g[x] \subseteq peers'[x]
    BY <1>1, <1>3 DEF Flows
  <2>2. \E n \in Holders(c)' : Covers(g, n)
    BY <1>1, <1>2 DEF Flows
  <2> QED
    BY <1>1, <1>2, <2>1, <2>2 DEF Flows
<1> QED
  BY <1>2, <1>3, <1>4 DEF Flood

\* A request that is dropped by a node that has its claim, or is of another claim.
LEMMA FloodDrops ==
  ASSUME Shape, NEW c, Flood(c), NEW m \in net, m.id.claim = c => m.to \in Holders(c),
         net' = net \ {m},
         \A n \in Nodes : \A id \in seen'[n] :
           id \in seen[n] \/ (n = m.to /\ id = m.id),
         UNCHANGED <<peers, tip, pending>>
  PROVE  Flood(c)'
<1>1. PICK g \in [Nodes -> SUBSET Nodes] : Flows(c, g)
  BY DEF Flood
<1>2. Holders(c)' = Holders(c)
  BY DEF Holders
<1>3. \A p : UnderWay(p, c) => UnderWay(p, c)' \/ p \in Holders(c)
  BY DEF UnderWay
<1>4. Flows(c, g)'
  <2>1. \A x \in Nodes : g[x] \subseteq peers'[x]
    BY <1>1 DEF Flows
  <2>2. \E n \in Holders(c)' : Covers(g, n)
    BY <1>1, <1>2 DEF Flows
  <2> QED
    BY <1>1, <1>2, <1>3, <2>1, <2>2 DEF Flows
<1>5. \A n \in Nodes : \A id \in seen'[n] : id.claim = c => n \in Holders(c)'
  BY <1>2 DEF Flood
<1>6. \A k \in net' : k.id.claim = c => k.ttl + Cardinality(Holders(c)') > Ttl
  BY <1>2 DEF Flood
<1> QED
  BY <1>4, <1>5, <1>6 DEF Flood

\* A step in which node n takes claim d and posts it, as the flood of c sees it.
Taking(c, n, d) ==
  /\ pending' = [pending EXCEPT ![n] = @ \cup {d}]
  /\ UNCHANGED <<peers, tip>>
  /\ \A x \in Nodes : \A id \in seen'[x] : id \in seen[x] \/ (x = n /\ id.claim = d)
  /\ net' \subseteq Packet
  /\ \A k \in net' : k.id.claim = c =>
       k \in net \/ (c = d /\ k.ttl + Cardinality(Holders(c)) >= Ttl)
  /\ \A k \in net : k.id.claim = c => k \in net' \/ (k.to = n /\ c = d)
  /\ c = d => /\ n \notin Holders(c)
              /\ \/ Holders(c)' = Nodes
                 \/ \A p \in peers[n] : UnderWay(p, c)'

\* A node takes a claim and posts it: the flood of that claim goes on from it, or
\* has reached everyone; the flood of another is left alone.
LEMMA FloodTakes ==
  ASSUME Shape, NEW c, Flood(c), NEW n \in Nodes, NEW d, Taking(c, n, d)
  PROVE  Flood(c)'
<1> USE DEF Taking
<1>1. PICK g \in [Nodes -> SUBSET Nodes] : Flows(c, g)
  BY DEF Flood
<1>2. Holders(c)' = IF c = d THEN Holders(c) \cup {n} ELSE Holders(c)
  BY DEF Holders, Shape
<1>3. \A p : UnderWay(p, c) => UnderWay(p, c)' \/ p \in Holders(c)'
  BY <1>2 DEF UnderWay
<1>4. \A x \in Nodes : g[x] \subseteq peers[x] /\ g[x] \subseteq Nodes
  BY <1>1 DEF Flows
<1>5. \A x \in Holders(c)' : \A p \in g[x] : p \in Holders(c)' \/ UnderWay(p, c)'
  <2> SUFFICES ASSUME NEW x \in Holders(c)', NEW p \in g[x]
               PROVE  p \in Holders(c)' \/ UnderWay(p, c)'
    OBVIOUS
  <2>1. CASE x \in Holders(c)
    <3>1. p \in Holders(c) \/ UnderWay(p, c)
      BY <1>1, <2>1 DEF Flows
    <3> QED
      BY <1>2, <1>3, <3>1
  <2>2. CASE x = n /\ c = d
    BY <1>4, <2>2
  <2> QED
    BY <1>2, <2>1, <2>2
<1>6. Flows(c, g)'
  <2>1. \E x \in Holders(c)' : Covers(g, x)
    BY <1>1, <1>2 DEF Flows
  <2>2. \A x \in Nodes : g[x] \subseteq peers'[x]
    BY <1>4
  <2> QED
    BY <1>5, <2>1, <2>2 DEF Flows
<1>7. \A k \in net' : k.id.claim = c => k.ttl + Cardinality(Holders(c)') > Ttl
  <2> SUFFICES ASSUME NEW k \in net', k.id.claim = c
               PROVE  k.ttl + Cardinality(Holders(c)') > Ttl
    OBVIOUS
  <2>1. Ttl \in Nat /\ Cardinality(Holders(c)) \in Nat
    BY ParameterAssumption, HoldersAreFinite
  <2>2. CASE c # d
    BY <1>2, <2>2 DEF Flood
  <2>3. CASE c = d
    <3>1. Cardinality(Holders(c)') = Cardinality(Holders(c)) + 1
      BY <1>2, <2>3, HoldersAreFinite, FS_AddElement
    <3>2. k.ttl + Cardinality(Holders(c)) >= Ttl /\ k.ttl \in Int
      <4>1. k.ttl \in Int
        BY <2>1 DEF Packet
      <4> QED
        BY <2>1, <4>1 DEF Flood
    <3> QED
      BY <2>1, <3>1, <3>2
  <2> QED
    BY <2>2, <2>3
<1>8. \A x \in Nodes : \A id \in seen'[x] : id.claim = c => x \in Holders(c)'
  BY <1>2 DEF Flood
<1> QED
  BY <1>6, <1>7, <1>8 DEF Flood

\* All can be reached from a node only if all have started: those that have post
\* to no started node but each other.
LEMMA AllHaveStarted ==
  ASSUME Shape, NEW n \in DOMAIN peers, ReachesAll(n) PROVE DOMAIN peers = Nodes
<1>1. DOMAIN peers \in SUBSET Nodes
  BY DEF Shape, TypeOK
<1>2. Closed(DOMAIN peers)
  BY DEF Closed
<1> QED
  BY <1>1, <1>2 DEF ReachesAll

LEMMA PostsAreUnderWay ==
  ASSUME NEW n, NEW id, NEW ttl, Posts(n, id, ttl) \subseteq net', NEW p \in peers[n]
  PROVE  UnderWay(p, id.claim)'
<1>1. Message(p, id, ttl) \in net'
  BY DEF Posts
<1>2. Message(p, id, ttl).to = p /\ Message(p, id, ttl).id = id
  BY DEF Message
<1> QED
  BY <1>1, <1>2 DEF UnderWay

\* The first post of a claim that all stand ready for and can be reached with.
LEMMA FloodStarts ==
  ASSUME Shape, Known, NEW n \in DOMAIN peers, NEW c \in Claims, c \notin Made,
         ReachesAll(n), \A x \in Nodes : tip[x] = c.prev,
         pending' = [pending EXCEPT ![n] = @ \cup {c}],
         UNCHANGED <<peers, tip>>,
         \A x \in Nodes : \A id \in seen'[x] : id \in seen[x] \/ (x = n /\ id.claim = c),
         NEW id \in Id, id.claim = c, net' = net \cup Posts(n, id, Ttl)
  PROVE  Flood(c)'
<1>1. DOMAIN peers = Nodes
  BY AllHaveStarted
<1>2. Holders(c)' = {n}
  BY <1>1 DEF Holders, Known, Shape
<1> PICK g : g = [x \in Nodes |-> peers[x]]
  OBVIOUS
<1>3. g \in [Nodes -> SUBSET Nodes]
  BY <1>1 DEF Shape, TypeOK
<1>4. Covers(g, n)
  <2> SUFFICES ASSUME NEW group \in SUBSET Nodes, n \in group,
                      \A x \in group : g[x] \subseteq group
               PROVE  group = Nodes
    BY DEF Covers
  <2>1. Closed(group)
    BY <1>1 DEF Closed
  <2> QED
    BY <2>1 DEF ReachesAll
<1>5. \A p \in peers[n] : UnderWay(p, c)'
  BY PostsAreUnderWay
<1>6. Flows(c, g)'
  <2>1. \A x \in Nodes : g[x] \subseteq peers'[x]
    OBVIOUS
  <2>2. \E x \in Holders(c)' : Covers(g, x)
    BY <1>2, <1>4
  <2>3. \A x \in Holders(c)' : \A p \in g[x] : p \in Holders(c)' \/ UnderWay(p, c)'
    BY <1>1, <1>2, <1>5
  <2> QED
    BY <2>1, <2>2, <2>3 DEF Flows
<1>7. \A k \in net' : k.id.claim = c => k.ttl + Cardinality(Holders(c)') > Ttl
  <2>1. Cardinality(Holders(c)') = 1
    BY <1>2, FS_Singleton
  <2>2. \A k \in net' : k.id.claim = c => k.ttl = Ttl
    BY DEF Known, Posts, Message
  <2> QED
    BY <2>1, <2>2, ParameterAssumption
<1>8. \A x \in Nodes : \A i \in seen'[x] : i.claim = c => x \in Holders(c)'
  BY <1>2 DEF Known
<1> QED
  BY <1>1, <1>3, <1>6, <1>7, <1>8 DEF Flood

\* Claims that become known in a step are posted in it.
LEMMA KnownGrows ==
  ASSUME Known, Shape, NEW new, new \subseteq Made', sent \subseteq sent',
         \A n \in Nodes : /\ pending'[n] \subseteq pending[n] \cup new
                          /\ \A id \in seen'[n] : id \in seen[n] \/ id.claim \in new,
         \A m \in net' : m \in net \/ m.id.claim \in new
  PROVE  Known'
<1>1. Made \subseteq Made'
  BY DEF Made
<1> HIDE DEF Made
<1> QED
  BY <1>1 DEF Known

\* What mark_seen adds is the identifier.
LEMMA MarksOne ==
  ASSUME Shape, NEW n \in Nodes, NEW id,
         \E marked \in Marked(n, id) : seen' = [seen EXCEPT ![n] = marked]
  PROVE  \A x \in Nodes : \A i \in seen'[x] : i \in seen[x] \/ (x = n /\ i = id)
<1>1. PICK marked \in Marked(n, id) : seen' = [seen EXCEPT ![n] = marked]
  OBVIOUS
<1>2. marked \subseteq seen[n] \cup {id}
  BY DEF Marked
<1> QED
  BY <1>1, <1>2 DEF Shape

\* broadcast_claim: the claim may be promised, and every flood goes on.
LEMMA HearsBroadcast ==
  ASSUME Hears, NEW n \in DOMAIN peers, NEW miner \in Miners,
         NEW c, c = [miner |-> miner, prev |-> tip[n]], c \notin pending[n],
         pending' = [pending EXCEPT ![n] = @ \cup {c}],
         Broadcast(n, c), UNCHANGED <<peers, tip>>, Shape'
  PROVE  Hears'
<1> DEFINE id == [maker |-> n, claim |-> c]
<1>1. Shape /\ Known /\ n \in Nodes /\ c \in Claims
  BY DEF Hears, Shape, TypeOK, Claims
<1>2. id \in Id /\ id.claim = c
  BY <1>1 DEF Id
<1>3. /\ \E marked \in Marked(n, id) : seen' = [seen EXCEPT ![n] = marked]
      /\ net' = net \cup Posts(n, id, Ttl)
      /\ sent' = sent \cup {<<n, c>>}
      /\ promised' = Promise(n, c)
  BY DEF Broadcast, RecordPost
<1> HIDE DEF id
<1>4. \A x \in Nodes : \A i \in seen'[x] : i \in seen[x] \/ (x = n /\ i.claim = c)
  <2>1. \A x \in Nodes : \A i \in seen'[x] : i \in seen[x] \/ (x = n /\ i = id)
    BY <1>1, <1>3, MarksOne
  <2> QED
    BY <1>2, <2>1
<1>5. Known'
  <2>1. {c} \subseteq Made'
    <3>1. <<n, c>> \in sent' /\ <<n, c>>[2] = c
      BY <1>3
    <3> QED
      BY <3>1 DEF Made
  <2>2. \A m \in net' : m \in net \/ m.id.claim = c
    BY <1>2, <1>3 DEF Posts, Message
  <2>3. \A x \in Nodes : pending'[x] \subseteq pending[x] \cup {c}
    BY <1>1 DEF Shape
  <2> QED
    BY <1>1, <1>3, <1>4, <2>1, <2>2, <2>3, KnownGrows
<1>6. ASSUME NEW e \in promised PROVE Flood(e)'
  <2>1. Flood(e) /\ net' \subseteq Packet
    BY DEF Hears, Shape, TypeOK, Packet, Id
  <2>2. \A k \in net' : k.id.claim = e =>
          k \in net \/ (e = c /\ k.ttl + Cardinality(Holders(e)) >= Ttl)
    BY <1>2, <1>3, HoldersAreFinite, ParameterAssumption DEF Posts, Message
  <2>3. e = c => n \notin Holders(e) /\ \A p \in peers[n] : UnderWay(p, e)'
    <3>1. \A p \in peers[n] : UnderWay(p, c)'
      BY <1>2, <1>3, PostsAreUnderWay
    <3> QED
      BY <3>1 DEF Holders
  <2>4. net \subseteq net'
    BY <1>3
  <2>5. Taking(e, n, c)
    BY <1>4, <2>1, <2>2, <2>3, <2>4 DEF Taking
  <2> QED
    BY <1>1, <2>1, <2>5, FloodTakes
<1>7. ASSUME c \notin Made, ReachesAll(n), \A x \in Nodes : tip[x] = c.prev
      PROVE  Flood(c)'
  BY <1>1, <1>2, <1>3, <1>4, <1>7, FloodStarts
<1>8. \A e \in promised' : Flood(e)'
  BY <1>3, <1>6, <1>7 DEF Promise
<1> QED
  BY <1>5, <1>8 DEF Hears

\* When a node takes a claim with the last hop, all the others have taken it.
LEMMA LastHop ==
  ASSUME EnoughHops, Shape, NEW c, Flood(c), NEW m \in net, m.id.claim = c,
         m.to \in Nodes, m.to \notin Holders(c), ~(HopsLeft(m) > 0)
  PROVE  Holders(c) \cup {m.to} = Nodes
<1>1. m.ttl + Cardinality(Holders(c)) > Ttl /\ m.ttl \in 1..Ttl
  BY DEF Flood, Shape, TypeOK
<1>2. Ttl \in Nat /\ IsFiniteSet(Nodes) /\ Cardinality(Nodes) \in Nat
  BY ParameterAssumption, FS_CardinalityType
<1>3. Cardinality(Holders(c)) >= Ttl /\ Cardinality(Holders(c)) \in Nat /\ IsFiniteSet(Holders(c))
  BY <1>1, <1>2, HoldersAreFinite DEF HopsLeft
<1> DEFINE all == Holders(c) \cup {m.to}
<1>4. IsFiniteSet(all) /\ Cardinality(all) = Cardinality(Holders(c)) + 1
  BY <1>3, FS_AddElement
<1>5. all \subseteq Nodes
  BY DEF Holders
<1> HIDE DEF all
<1>6. Cardinality(all) >= Cardinality(Nodes)
  BY <1>2, <1>3, <1>4 DEF EnoughHops
<1>7. Cardinality(all) <= Cardinality(Nodes) /\ (Cardinality(all) = Cardinality(Nodes) => all = Nodes)
  BY <1>2, <1>5, FS_Subset
<1> QED
  BY <1>2, <1>3, <1>4, <1>6, <1>7 DEF all

\* handle_incoming: a claim that is not taken is one the node has, or is not of
\* the chain a promised claim extends.
LEMMA HearsDeliver ==
  ASSUME EnoughHops, Hears, NEW m \in net, Deliver(m), Shape' PROVE Hears'
<1> DEFINE n == m.to
           c == m.id.claim
<1>1. Shape /\ Known /\ m \in Packet /\ n \in DOMAIN peers /\ n \in Nodes /\ c \in Claims
  BY DEF Hears, Deliver, Started, Shape, TypeOK, Packet, Id
<1>2. /\ UNCHANGED <<peers, tip, promised>>
      /\ \A e \in promised : Flood(e)
      /\ c \in Made
  BY <1>1 DEF Deliver, Hears, Known
<1>3. net' \subseteq Packet
  BY DEF Shape, TypeOK, Packet, Id
<1>4. \A x \in Nodes : \A i \in seen'[x] : i \in seen[x] \/ (x = n /\ i = m.id)
  <2>1. CASE UNCHANGED seen
    BY <2>1
  <2>2. CASE \E marked \in Marked(n, m.id) : seen' = [seen EXCEPT ![n] = marked]
    BY <1>1, <2>2, MarksOne
  <2> QED
    BY <2>1, <2>2 DEF Deliver
<1>5. CASE net' = net \ {m} /\ UNCHANGED <<pending, posted>>
           /\ (m.id \in seen[n] \/ ~Admits(n, c))
  <2>1. ASSUME NEW e \in promised PROVE Flood(e)'
    <3>1. c = e => n \in Holders(e)
      <4> SUFFICES ASSUME c = e PROVE n \in Holders(e)
        OBVIOUS
      <4>1. CASE m.id \in seen[n]
        BY <1>1, <1>2, <4>1 DEF Flood
      <4>2. CASE ~Admits(n, c)
        <5>1. tip[n] = c.prev
          BY <1>1, <1>2 DEF Flood
        <5>2. Len(c.prev) < MaxHeight
          BY <1>1, <1>2 DEF Flood, Flows, Holders, Shape
        <5>3. PICK d \in pending[n] : d.miner = c.miner
          BY <4>2, <5>1, <5>2 DEF Admits
        <5>4. d \in Claims /\ d.prev = tip[n]
          BY <1>1 DEF Shape
        <5>5. d = c
          BY <1>1, <5>1, <5>3, <5>4 DEF Claims
        <5> QED
          BY <1>1, <5>3, <5>5 DEF Holders
      <4> QED
        BY <1>5, <4>1, <4>2
    <3> QED
      BY <1>1, <1>2, <1>4, <1>5, <3>1, FloodDrops
  <2>2. Known'
    <3>1. {c} \subseteq Made'
      BY <1>2, <1>5 DEF Made, posted
    <3>2. \A x \in Nodes : \A i \in seen'[x] : i \in seen[x] \/ i.claim \in {c}
      BY <1>4
    <3> QED
      BY <1>1, <1>5, <3>1, <3>2, KnownGrows DEF posted
  <2> QED
    BY <1>2, <2>1, <2>2 DEF Hears
<1>6. CASE Admits(n, c) /\ pending' = [pending EXCEPT ![n] = @ \cup {c}] /\ Relay(m)
  <2>1. /\ net \ {m} \subseteq net' /\ sent \subseteq sent'
        /\ \A k \in net' : k \in net \/ (k.id = m.id /\ k.ttl = HopsLeft(m))
    BY <1>6 DEF Relay, RecordPost, posted, Posts, Message
  <2>2. \A x \in Nodes : \A i \in seen'[x] : i \in seen[x] \/ (x = n /\ i.claim = c)
    BY <1>4
  <2>3. ASSUME NEW e \in promised PROVE Flood(e)'
    <3>1. \A k \in net' : k.id.claim = e =>
            k \in net \/ (e = c /\ k.ttl + Cardinality(Holders(e)) >= Ttl)
      <4> SUFFICES ASSUME NEW k \in net', k.id.claim = e, k \notin net
                   PROVE  e = c /\ k.ttl + Cardinality(Holders(e)) >= Ttl
        OBVIOUS
      <4>1. e = c /\ k.ttl = m.ttl - 1
        BY <2>1 DEF HopsLeft
      <4>2. m.ttl + Cardinality(Holders(e)) > Ttl
        BY <1>2, <4>1 DEF Flood
      <4>3. m.ttl \in Int /\ Ttl \in Nat /\ Cardinality(Holders(e)) \in Nat
        BY <1>1, ParameterAssumption, HoldersAreFinite DEF Packet
      <4> QED
        BY <4>1, <4>2, <4>3
    <3>2. \A k \in net : k.id.claim = e => k \in net' \/ (k.to = n /\ e = c)
      BY <2>1
    <3>3. e = c => /\ n \notin Holders(e)
                   /\ \/ Holders(e)' = Nodes
                      \/ \A p \in peers[n] : UnderWay(p, e)'
      <4> SUFFICES ASSUME e = c
                   PROVE  /\ n \notin Holders(c)
                          /\ \/ Holders(c)' = Nodes
                             \/ \A p \in peers[n] : UnderWay(p, c)'
        OBVIOUS
      <4>1. n \notin Holders(c)
        BY <1>6 DEF Admits, Holders
      <4>2. CASE HopsLeft(m) > 0
        <5>1. Posts(n, m.id, HopsLeft(m)) \subseteq net'
          BY <1>6, <4>2 DEF Relay
        <5> QED
          BY <4>1, <5>1, PostsAreUnderWay
      <4>3. CASE ~(HopsLeft(m) > 0)
        <5>1. Holders(c) \cup {n} = Nodes
          BY <1>1, <1>2, <4>1, <4>3, LastHop
        <5>2. Holders(c)' = Holders(c) \cup {n}
          BY <1>1, <1>6 DEF Holders, Shape
        <5> QED
          BY <4>1, <5>1, <5>2
      <4> QED
        BY <4>2, <4>3
    <3>4. Taking(e, n, c)
      BY <1>1, <1>2, <1>3, <1>6, <2>2, <3>1, <3>2, <3>3 DEF Taking
    <3>5. Shape /\ Flood(e) /\ n \in Nodes
      BY <1>1, <1>2, <2>3
    <3> QED
      BY <3>4, <3>5, FloodTakes
  <2>4. Known'
    <3>1. {c} \subseteq Made'
      BY <1>2, <2>1 DEF Made
    <3>2. \A x \in Nodes : pending'[x] \subseteq pending[x] \cup {c}
      BY <1>1, <1>6 DEF Shape
    <3> QED
      BY <1>1, <2>1, <2>2, <3>1, <3>2, KnownGrows
  <2> QED
    BY <1>2, <2>3, <2>4 DEF Hears
<1> QED
  BY <1>5, <1>6 DEF Deliver

\* A node that elects ends every promise: all are of the chain it stood on.
LEMMA HearsElect == ASSUME Hears, NEW n \in Nodes, Elect(n), Shape' PROVE Hears'
<1>1. /\ pending' = [pending EXCEPT ![n] = {}]
      /\ promised' = {c \in promised : c.prev # tip[n]}
      /\ UNCHANGED <<peers, seen, net, sent>>
  BY DEF Elect, posted
<1>2. promised' = {}
  BY <1>1 DEF Hears, Flood
<1>3. \A x \in Nodes : pending'[x] \subseteq pending[x]
  BY <1>1 DEF Hears, Shape
<1>4. Known'
  BY <1>1, <1>3 DEF Hears, Known, Made
<1> QED
  BY <1>2, <1>4 DEF Hears

\* A lost request takes only the promise of its own claim with it.
LEMMA HearsLose == ASSUME Hears, NEW m \in net, Lose(m), Shape' PROVE Hears'
<1>1. /\ net' = net \ {m} /\ promised' = promised \ {m.id.claim}
      /\ UNCHANGED <<peers, seen, tip, pending, sent>>
  BY DEF Lose, posted
<1>2. ASSUME NEW e \in promised' PROVE Flood(e)'
  BY <1>1, <1>2, FloodDrops DEF Hears
<1>3. Known'
  BY <1>1 DEF Hears, Known, Made
<1> QED
  BY <1>2, <1>3 DEF Hears

LEMMA HearsPeers ==
  ASSUME Hears, NEW n \in Nodes, NEW other \in Nodes,
         Start(n) \/ Bootstrap(n, other) \/ Connect(n, other), Shape'
  PROVE  Hears'
<1>1. UNCHANGED <<seen, tip, pending, net, sent, promised>>
  BY DEF Start, Bootstrap, Connect, posted
<1>2. /\ PeerLists(peers') /\ DOMAIN peers \subseteq DOMAIN peers'
      /\ \A m \in DOMAIN peers : peers[m] \subseteq peers'[m]
  BY PeersOnlyGrow DEF Hears
<1>3. ASSUME NEW e \in promised' PROVE Flood(e)'
  BY <1>1, <1>2, <1>3, FloodMeets DEF Hears
<1>4. Known'
  BY <1>1 DEF Hears, Known, Made
<1> QED
  BY <1>3, <1>4 DEF Hears

LEMMA HearsStep == EnoughHops /\ Hears /\ [Next]_vars => Hears'
<1> SUFFICES ASSUME EnoughHops, Hears, [Next]_vars PROVE Hears'
  OBVIOUS
<1>1. Shape'
  BY ShapeStep DEF Hears
<1>2. CASE UNCHANGED vars
  <2>1. Known'
    BY <1>2 DEF vars, Hears, Known, Made
  <2>2. \A e \in promised' : Flood(e)'
    BY <1>2 DEF vars, Hears, Flood, Flows, Holders, UnderWay
  <2> QED
    BY <1>1, <2>1, <2>2 DEF Hears
<1>3. ASSUME NEW n \in Nodes, Start(n) \/ Mine(n) \/ Elect(n) PROVE Hears'
  <2>1. CASE Mine(n)
    <3>1. n \in DOMAIN peers /\ n \in Miners /\ UNCHANGED <<peers, tip>>
      BY <2>1 DEF Mine, Started, Miners
    <3>2. PICK c : /\ c = [miner |-> n, prev |-> tip[n]] /\ c \notin pending[n]
                   /\ pending' = [pending EXCEPT ![n] = @ \cup {c}]
                   /\ Broadcast(n, c)
      BY <2>1 DEF Mine
    <3> QED
      BY <1>1, <3>1, <3>2, HearsBroadcast
  <2> QED
    BY <1>1, <1>3, <2>1, HearsPeers, HearsElect
<1>4. CASE \E n, other \in Nodes : Bootstrap(n, other) \/ Connect(n, other)
  BY <1>1, <1>4, HearsPeers
<1>5. ASSUME NEW n \in Nodes, NEW miner \in Outside, Submit(n, miner) PROVE Hears'
  <2>1. n \in DOMAIN peers /\ miner \in Miners /\ UNCHANGED <<peers, tip>>
    BY <1>5 DEF Submit, Started, Miners
  <2>2. PICK c : /\ c = [miner |-> miner, prev |-> tip[n]] /\ c \notin pending[n]
                 /\ pending' = [pending EXCEPT ![n] = @ \cup {c}]
                 /\ Broadcast(n, c)
    BY <1>5 DEF Submit, Admits
  <2> QED
    BY <1>1, <2>1, <2>2, HearsBroadcast
<1> QED
  BY <1>1, <1>2, <1>3, <1>4, <1>5, HearsDeliver, HearsLose DEF Next, AtBound

\* handle_incoming and relay_message: where the time-to-live is no less than the
\* nodes but one, a claim that all stand ready for and can be reached with is with
\* every node, or on its way, whatever path its copies take and whatever is
\* forgotten; until one is lost or a node elects the height.
THEOREM FloodNeverDriesUp == ASSUME EnoughHops PROVE Spec => []EveryoneHears
<1>1. Init => Hears
  BY ShapeInit DEF Init, Hears, Known
<1>2. Hears => EveryoneHears
  BY FloodReaches DEF Hears, EveryoneHears
<1>3. Hears /\ [Next]_vars => Hears'
  BY HearsStep
<1> QED
  BY <1>1, <1>2, <1>3, PTL DEF Spec

=============================================================================
