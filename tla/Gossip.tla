------------------------------- MODULE Gossip -------------------------------
(***************************************************************************)
(* How block claims travel between nodes: peers are learnt from seeds once, *)
(* at startup; a claim is posted to every peer, and a node that admits it   *)
(* posts it to its own peers, until the time-to-live runs out               *)
(* (src/l1-chain/node/src/gossip.rs, peers.rs, envelope.rs and the handlers *)
(* of main.rs).                                                             *)
(*                                                                         *)
(* A claim is its miner and the chain it extends.  Claims are well formed   *)
(* and pass re-execution; Checkpoints, Mempool and ChainNode have what      *)
(* makes one refused otherwise.  A node's own address may reach its peer    *)
(* list, and a claim comes back to the peer it came from: the address it    *)
(* excepts is that of the connection, never one a peer listens on.          *)
(***************************************************************************)
EXTENDS Integers, Sequences, FiniteSets, FiniteSetsExt

CONSTANTS
  Nodes,      \* each mines and listens on its own address
  Outside,    \* miners without a node, who post to /chain/submit
  Entries,    \* the nodes they post to
  Seeds,      \* [Nodes -> SUBSET Nodes]: BINA_SEEDS
  Contacts,   \* pairs of nodes an operator may connect
  Ttl,        \* DEFAULT_P2P_TTL
  MaxPeers,   \* MAX_PEERS
  MaxSeen,    \* SeenMessages.max_size
  MaxHeight,  \* bound: no chain is longer
  MaxClaims,  \* bound: how many claims are ever made
  MaxLost     \* bound: how many requests are lost

ASSUME ParameterAssumption ==
  /\ IsFiniteSet(Nodes)
  /\ Seeds \in [Nodes -> SUBSET Nodes]
  /\ Nodes \cap Outside = {}
  /\ Entries \subseteq Nodes
  /\ {Ttl, MaxPeers} \subseteq Nat \ {0}
  /\ MaxSeen \in Nat \ {0, 1}    \* so that half of it makes room
  /\ Contacts \subseteq Nodes \X Nodes
  /\ {MaxHeight, MaxClaims, MaxLost} \subseteq Nat

VARIABLES
  \* of each node
  peers,     \* PeerList: addresses it posts to, once it has started
  unasked,   \* seeds its startup has still to ask
  seen,      \* SeenMessages: identifiers it will not handle again
  tip,       \* the chain it stands on
  pending,   \* the candidates for the next height
  \* the network
  net,       \* requests under way
  \* history
  sent,      \* <<node, claim>>: who has posted a claim to its peers
  again,     \* <<node, claim>>: who has posted one a second time
  promised,  \* claims that nothing has kept from reaching every node
  losses     \* how many requests were lost

vars == <<peers, unasked, seen, tip, pending, net, sent, again, promised, losses>>
posted == <<sent, again>>

Miners == Nodes \cup Outside
Chains == UNION {[1..h -> Miners] : h \in 0..MaxHeight}
Claims == [miner : Miners, prev : Chains]
Started(n) == n \in DOMAIN peers

----------------------------------------------------------------------------
(* Peers *)

\* PeerList.add of several; a full list takes no new address, and which of
\* several finds room depends on their order; a variant has no bound.
AddedAll(list, addresses) == {list \cup addresses}
Added(list, addresses) ==
  {l \in SUBSET (list \cup addresses) :
     /\ list \subseteq l
     /\ Cardinality(l) = Max({Cardinality(list),
                              Min({MaxPeers, Cardinality(list \cup addresses)})})}

\* main: the seeds are peers before anything is sent.
Start(n) ==
  /\ ~Started(n)
  /\ \E list \in Added({}, Seeds[n]) :
       /\ peers' = [m \in DOMAIN peers \cup {n} |-> IF m = n THEN list ELSE peers[m]]
       /\ unasked' = [unasked EXCEPT ![n] = list]
  /\ UNCHANGED <<seen, tip, pending, net, posted, promised, losses>>

\* A hello to another node, which then gives its own list.
Meet(n, other) ==
  \E known \in Added(peers[other], {n}) :
    LET now == [peers EXCEPT ![other] = known]
    IN \E list \in Added(now[n], known) : peers' = [now EXCEPT ![n] = list]

\* bootstrap: each seed is asked once; one that does not answer is not asked
\* again, and what a seed tells is not asked at all.
Bootstrap(n, seed) ==
  /\ Started(n)
  /\ seed \in unasked[n]
  /\ unasked' = [unasked EXCEPT ![n] = @ \ {seed}]
  /\ \/ /\ Started(seed)
        /\ Meet(n, seed)
        /\ UNCHANGED losses
     \/ /\ ~Started(seed)
        /\ UNCHANGED <<peers, losses>>
     \/ /\ losses < MaxLost
        /\ losses' = losses + 1
        /\ UNCHANGED peers
  /\ UNCHANGED <<seen, tip, pending, net, posted, promised>>

\* handle_peer_connect: an operator names a peer, which must answer.
Connect(n, other) ==
  /\ Started(n) /\ Started(other)
  /\ <<n, other>> \in Contacts
  /\ \E list \in Added(peers[n], {other}) :
       LET joined == [peers EXCEPT ![n] = list]
       IN \E known \in Added(joined[other], {n}) :
            LET now == [joined EXCEPT ![other] = known]
            IN \E all \in Added(now[n], known) : peers' = [now EXCEPT ![n] = all]
  /\ peers' # peers
  /\ UNCHANGED <<unasked, seen, tip, pending, net, posted, promised, losses>>

----------------------------------------------------------------------------
(* Messages *)

\* message_id: who made the envelope, when, and its claim.
Message(to, id, ttl) == [to |-> to, id |-> id, ttl |-> ttl]

\* broadcast_message
Posts(n, id, ttl) == {Message(to, id, ttl) : to \in peers[n]}
RecordPost(n, claim) ==
  /\ sent' = sent \cup {<<n, claim>>}
  /\ again' = again \cup ({<<n, claim>>} \cap sent)

\* mark_seen of a new identifier: a full set first forgets half of itself, in
\* no particular order.
Marked(n, id) ==
  {(seen[n] \ forgotten) \cup {id} :
     forgotten \in IF Cardinality(seen[n]) < MaxSeen THEN {{}}
                   ELSE kSubset(MaxSeen \div 2, seen[n])}

Made == {s[2] : s \in sent}
MayClaim(claim) == claim \in Made \/ Cardinality(Made) < MaxClaims

\* Nodes that post to no started node but each other.
Closed(group) == \A n \in group \cap DOMAIN peers : peers[n] \cap DOMAIN peers \subseteq group
ReachesAll(n) == \A group \in SUBSET Nodes : n \in group /\ Closed(group) => group = Nodes

\* A claim is promised to every node when it is new, all stand ready for it, and
\* all can be reached from the first that posts it.
Promise(n, claim) ==
  IF /\ claim \notin Made
     /\ ReachesAll(n)
     /\ \A m \in Nodes : tip[m] = claim.prev
    THEN promised \cup {claim} ELSE promised

\* broadcast_claim marks its own envelope too.
Broadcast(n, claim) ==
  LET id == [maker |-> n, claim |-> claim]
  IN /\ \E marked \in Marked(n, id) : seen' = [seen EXCEPT ![n] = marked]
     /\ net' = net \cup Posts(n, id, Ttl)
     /\ RecordPost(n, claim)
     /\ promised' = Promise(n, claim)

\* What accept_signed_claim admits: the next height on the own tip, one claim of
\* each miner; the variant keeps the last one.
ExtendsTip(n, claim) == claim.prev = tip[n] /\ Len(tip[n]) < MaxHeight
Admits(n, claim) ==
  /\ claim.prev = tip[n]
  /\ Len(tip[n]) < MaxHeight
  /\ \A c \in pending[n] : c.miner # claim.miner

\* The mining task: its claim is a candidate before it is broadcast.
Mine(n) ==
  LET claim == [miner |-> n, prev |-> tip[n]]
  IN /\ Started(n)
     /\ Len(tip[n]) < MaxHeight
     /\ claim \notin pending[n]
     /\ MayClaim(claim)
     /\ pending' = [pending EXCEPT ![n] = @ \cup {claim}]
     /\ Broadcast(n, claim)
     /\ UNCHANGED <<peers, unasked, tip, losses>>

\* handle_submit_claim: what is admitted is put in an envelope of the node's own.
Submit(n, miner) ==
  LET claim == [miner |-> miner, prev |-> tip[n]]
  IN /\ Started(n)
     /\ n \in Entries
     /\ MayClaim(claim)
     /\ Admits(n, claim)
     /\ pending' = [pending EXCEPT ![n] = @ \cup {claim}]
     /\ Broadcast(n, claim)
     /\ UNCHANGED <<peers, unasked, tip, losses>>

\* After the grace period a miner's candidates give the next block.
Elect(n) ==
  /\ Started(n)
  /\ [miner |-> n, prev |-> tip[n]] \in pending[n]
  /\ \E c \in pending[n] : tip' = [tip EXCEPT ![n] = Append(@, c.miner)]
  /\ pending' = [pending EXCEPT ![n] = {}]
  /\ promised' = {c \in promised : c.prev # tip[n]}
  /\ UNCHANGED <<peers, unasked, seen, net, posted, losses>>

\* The hops left after this one; the variant counts one too many.
HopsLeftShort(m) == IF m.ttl > 1 THEN m.ttl - 2 ELSE 0
HopsLeft(m) == m.ttl - 1

\* handle_incoming marks the identifier before anything is checked;
\* handle_p2p_message relays what the node admits, if a hop is left.
Relay(m) ==
  IF HopsLeft(m) > 0
    THEN /\ net' = (net \ {m}) \cup Posts(m.to, m.id, HopsLeft(m))
         /\ RecordPost(m.to, m.id.claim)
    ELSE /\ net' = net \ {m}
         /\ UNCHANGED posted

Deliver(m) ==
  /\ Started(m.to)
  /\ IF m.id \in seen[m.to]
       THEN /\ net' = net \ {m}
            /\ UNCHANGED <<seen, pending, posted>>
       ELSE /\ \E marked \in Marked(m.to, m.id) : seen' = [seen EXCEPT ![m.to] = marked]
            /\ IF Admits(m.to, m.id.claim)
                 THEN /\ pending' = [pending EXCEPT ![m.to] = @ \cup {m.id.claim}]
                      /\ Relay(m)
                 ELSE /\ net' = net \ {m}
                      /\ UNCHANGED <<pending, posted>>
  /\ UNCHANGED <<peers, unasked, tip, promised, losses>>

\* The peer is down, the post times out, or the message is too old on arrival.
Lose(m) ==
  /\ losses < MaxLost
  /\ losses' = losses + 1
  /\ net' = net \ {m}
  /\ promised' = promised \ {m.id.claim}
  /\ UNCHANGED <<peers, unasked, seen, tip, pending, posted>>

----------------------------------------------------------------------------
(* The specification *)

Init ==
  /\ peers = [n \in {} |-> {}]
  /\ unasked = [n \in Nodes |-> {}]
  /\ seen = [n \in Nodes |-> {}]
  /\ tip = [n \in Nodes |-> <<>>]
  /\ pending = [n \in Nodes |-> {}]
  /\ net = {}
  /\ sent = {}
  /\ again = {}
  /\ promised = {}
  /\ losses = 0

\* Where the bounds end a behaviour.
AtBound ==
  /\ net = {}
  /\ DOMAIN peers = Nodes
  /\ UNCHANGED vars

Next ==
  \/ \E n \in Nodes : Start(n) \/ Mine(n) \/ Elect(n)
  \/ \E n, other \in Nodes : Bootstrap(n, other) \/ Connect(n, other)
  \/ \E n \in Nodes, miner \in Outside : Submit(n, miner)
  \/ \E m \in net : Deliver(m) \/ Lose(m)
  \/ AtBound

Spec == Init /\ [][Next]_vars

----------------------------------------------------------------------------
(* Properties *)

\* Every variable has its type, and neither set outgrows its cap.
TypeOK ==
  /\ DOMAIN peers \subseteq Nodes
  /\ \A n \in DOMAIN peers : /\ peers[n] \subseteq Nodes
                             /\ Cardinality(peers[n]) <= MaxPeers
  /\ unasked \in [Nodes -> SUBSET Nodes]
  /\ \A n \in Nodes : /\ seen[n] \subseteq [maker : Nodes, claim : Claims]
                      /\ Cardinality(seen[n]) <= MaxSeen
                      /\ tip[n] \in Chains
                      /\ pending[n] \subseteq Claims
  /\ net \subseteq [to : Nodes, ttl : 1..Ttl, id : [maker : Nodes, claim : Claims]]
  /\ again \subseteq sent
  /\ sent \subseteq (DOMAIN peers) \X Claims
  /\ losses \in 0..MaxLost
  /\ promised \subseteq Claims

\* A node posts a claim to its peers once, its own included: not again when the
\* claim comes back after its identifier was forgotten (mark_seen evicts half of
\* the set), in an envelope another node made, or after the height was elected.
PostsOnce == again = {}

\* The flood reaches everyone: a claim made while every node stood on its chain
\* and could be reached through the peer lists becomes a candidate at every node,
\* over whichever path its first copy takes, unless a copy is lost or some node
\* elects the height before.  While a node lacks it a copy is still under way
\* (handle_incoming, relay_message).
EveryoneHears ==
  \A claim \in promised :
    \/ \A n \in Nodes : claim \in pending[n]
    \/ \E m \in net : m.id.claim = claim
=============================================================================
