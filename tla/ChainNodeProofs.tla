--------------------------- MODULE ChainNodeProofs ---------------------------
(***************************************************************************)
(* Theorems about one node, for every set of hashes, every number of        *)
(* handlers and crashes and every height bound, whatever peers and other    *)
(* miners send: its values keep their types, its height, tip and work       *)
(* agree, the election never lacks the node's own claim, and no row of its  *)
(* chain has an unspent nullifier.  All four follow from the inductive      *)
(* invariant Coherent.                                                     *)
(*                                                                         *)
(* What the chain promises, that the store holds the history of the tip,    *)
(* the resume pointer's chain is in the store, the ledger is that of the    *)
(* tip and the node implements DurableChain, follows from the inductive     *)
(* invariant Grounded.  It needs a condition the runs NodeStaleClaim and    *)
(* NodeLostPointer show to be necessary: either no peer's chain leaves ours *)
(* below our tip, with any claims and any crashes, or peers diverge but no  *)
(* claim of another miner arrives and the process does not die.             *)
(***************************************************************************)
EXTENDS ChainNode, FiniteSetTheorems, WellFoundedInduction, TLAPS

----------------------------------------------------------------------------
(* The inductive invariant *)

\* insert_block and rollback_above leave a block only in the row of its height.
RowsAtHeights == \A h \in Heights : store[h] # NoBlock => Height(store[h]) = h

\* pending_claims files a claim under the height of its header.
ClaimsAtHeights == \A h \in Heights : \A c \in pending[h] : Height(c) = h

\* A claim is mined only where a further block fits.
RoomToElect == pc = "grace" => cur.height < MaxHeight

\* The winner is a claim for the height after the tip.
WinnerIsNext ==
  pc \in {"elected", "applied", "stored", "recorded"}
    => winner \in Block /\ Height(winner) = cur.height + 1

\* While it synchronises the node has a peer, and a next block of it.
PeerIsAhead ==
  /\ pc \in {"rolled", "sync", "synced"} => peer \in Hash
  /\ pc = "synced" => cur.height < Height(peer)

HandlersHoldClaims == \A h \in Handlers : handler[h].phase # "idle" => handler[h].claim \in Block

\* Every row is spent but the one between insert_block and consume.
RowsAreSpent ==
  pc # "down" =>
    \A h \in Heights : \/ store[h] \in spent \cup {NoBlock}
                       \/ /\ pc \in {"stored", "recorded"}
                          /\ h = cur.height + 1
                          /\ store[h] = winner

Coherent ==
  /\ TypeOK
  /\ WorkIsOfTip
  /\ OwnClaimPresent
  /\ RowsAtHeights
  /\ ClaimsAtHeights
  /\ RoomToElect
  /\ WinnerIsNext
  /\ PeerIsAhead
  /\ HandlersHoldClaims
  /\ RowsAreSpent

----------------------------------------------------------------------------
(* Headers *)

\* Heights are natural numbers, bounded, and a block is one above its parent.
LEMMA HeaderHeights ==
  /\ \A b \in Hash : Height(b) \in 0..MaxHeight
  /\ \A b \in Block : /\ b \in Hash /\ b # NoBlock /\ Prev(b) \in Hash
                      /\ Height(b) \in Heights /\ Height(b) = Height(Prev(b)) + 1
                      /\ Miner(b) \in Miners
BY HashAssumption, BoundAssumption DEF Block, Heights

\* A history consists of blocks and has one at every height up to its tip's.
HasHistory(b) ==
  /\ Path(b) \subseteq Block
  /\ \A h \in 1..Height(b) : \E a \in Path(b) : Height(a) = h

LEMMA Histories == \A b \in Hash : HasHistory(b)
<1> DEFINE Bad == {n \in Nat : \E b \in Hash : Height(b) = n /\ ~HasHistory(b)}
<1>1. Bad = {}
  <2> SUFFICES ASSUME Bad # {} PROVE FALSE
    OBVIOUS
  <2>1. PICK n \in Bad : \A m \in Bad : ~(<<m, n>> \in OpToRel(<, Nat))
    <3> HIDE DEF Bad
    <3>1. Bad \subseteq Nat
      BY DEF Bad
    <3> QED
      BY <3>1, NatLessThanWellFounded, WFMin
  <2>2. PICK b \in Hash : Height(b) = n /\ ~HasHistory(b)
    OBVIOUS
  <2>3. b # Genesis
    BY <2>2, HashAssumption DEF HasHistory
  <2>4. b \in Block
    BY <2>3 DEF Block
  <2>5. /\ Prev(b) \in Hash /\ Height(Prev(b)) \in Nat /\ Height(Prev(b)) < n
        /\ n = Height(Prev(b)) + 1
    BY <2>2, <2>4, HeaderHeights, BoundAssumption
  <2>6. HasHistory(Prev(b))
    <3>1. Height(Prev(b)) \notin Bad
      BY <2>1, <2>5 DEF OpToRel
    <3> QED
      BY <3>1, <2>5
  <2>7. Path(b) = {b} \cup Path(Prev(b))
    BY <2>4, HashAssumption
  <2>8. HasHistory(b)
    BY <2>2, <2>4, <2>5, <2>6, <2>7 DEF HasHistory
  <2> QED
    BY <2>2, <2>8
<1> QED
  BY <1>1, HeaderHeights, BoundAssumption

\* What the peer serves for a height up to its tip's is a block of that height.
LEMMA AncestorHeight ==
  ASSUME NEW b \in Hash, NEW h \in 1..Height(b)
  PROVE  AncestorAt(b, h) \in Block /\ Height(AncestorAt(b, h)) = h
BY Histories DEF HasHistory, AncestorAt

----------------------------------------------------------------------------
(* What the operators of the actions return *)

\* A credit keeps the balances natural numbers.
LEMMA CreditType ==
  ASSUME NEW l \in [Miners -> Nat], NEW m \in Miners
  PROVE  Credit(l, m) \in [Miners -> Nat]
BY DEF Credit

\* The reopened ledger counts rows, whatever the file holds.
LEMMA OpenScopedType ==
  ASSUME NEW h \in Nat
  PROVE  OpenScoped(h) \in [Miners -> Nat]
<1> SUFFICES ASSUME NEW m \in Miners
             PROVE  Cardinality({i \in 1..h : csv[i] = m}) \in Nat
  BY DEF OpenScoped
<1>1. {i \in 1..h : csv[i] = m} \in SUBSET (1..h)
  OBVIOUS
<1>2. IsFiniteSet(1..h)
  BY FS_Interval
<1>3. IsFiniteSet({i \in 1..h : csv[i] = m})
  BY <1>1, <1>2, FS_Subset
<1> QED
  BY <1>3, FS_CardinalityType

Agrees(p) == p.height = Height(p.tip) /\ p.work = Height(p.tip)

\* The next block extends a point to a point that agrees with its tip.
LEMMA ExtendAgrees ==
  ASSUME NEW p \in Points, Agrees(p), NEW b \in Block, Height(b) = p.height + 1
  PROVE  Extend(p, b) \in Points /\ Agrees(Extend(p, b)) /\ Extend(p, b).height = p.height + 1
BY HeaderHeights, BoundAssumption DEF Agrees, Extend, Point, Points, Heights

\* The genesis point is such a point.
LEMMA GenesisAgrees == GenesisPoint \in Points /\ Agrees(GenesisPoint)
BY HashAssumption, BoundAssumption DEF GenesisPoint, Point, Points, Agrees

Filed(claims) ==
  /\ claims \in [Heights -> SUBSET Block]
  /\ \A h \in Heights : \A c \in claims[h] : Height(c) = h

\* Dropping claims of low heights leaves the others as they are.
LEMMA RetainAboveFiled ==
  ASSUME NEW claims, Filed(claims), NEW h
  PROVE  Filed(RetainAbove(claims, h))
BY DEF Filed, RetainAbove

\* Admitting a claim loses none, and its miner then has one at its height.
LEMMA KeepFirstFiled ==
  ASSUME NEW claims, Filed(claims), NEW c \in Block
  PROVE  /\ Filed(KeepFirst(claims, c))
         /\ \A h \in Heights : claims[h] \subseteq KeepFirst(claims, c)[h]
         /\ ByMiner(KeepFirst(claims, c)[Height(c)], Miner(c)) # {}
BY HeaderHeights DEF Filed, KeepFirst, ByMiner

\* The work of the rows a rollback removes is their number, as none is missing.
LEMMA WorkAboveCounts ==
  ASSUME cur.height \in Nat, NEW f \in 0..cur.height,
         \A h \in f+1 .. cur.height : store[h] # NoBlock
  PROVE  WorkAbove(f) = cur.height - f
<1>1. {h \in f+1 .. cur.height : store[h] # NoBlock} = f+1 .. cur.height
  OBVIOUS
<1>2. Cardinality(f+1 .. cur.height) = cur.height - f
  BY FS_Interval
<1> QED
  BY <1>1, <1>2 DEF WorkAbove

----------------------------------------------------------------------------
(* The initial state and each action *)

LEMMA CoherentInit == Init => Coherent
<1> SUFFICES ASSUME Init PROVE Coherent
  OBVIOUS
<1> USE DEF Init
<1>1. TypeOK
  BY GenesisAgrees, BoundAssumption DEF TypeOK, Phases, Idle
<1>2. WorkIsOfTip
  BY GenesisAgrees DEF WorkIsOfTip, Agrees
<1>3. /\ OwnClaimPresent /\ RowsAtHeights /\ ClaimsAtHeights /\ RoomToElect
      /\ WinnerIsNext /\ PeerIsAhead /\ HandlersHoldClaims /\ RowsAreSpent
  BY DEF OwnClaimPresent, RowsAtHeights, ClaimsAtHeights, RoomToElect,
         WinnerIsNext, PeerIsAhead, HandlersHoldClaims, RowsAreSpent, Idle
<1> QED
  BY <1>1, <1>2, <1>3 DEF Coherent


\* The steps that only move the mining task.
LEMMA TaskMoveKeeps ==
  Coherent /\ (CatchUp \/ ReconcileForward \/ SkipSync \/ SyncEnd \/ Panic) => Coherent'
<1> SUFFICES ASSUME Coherent, CatchUp \/ ReconcileForward \/ SkipSync \/ SyncEnd \/ Panic
             PROVE  Coherent'
  OBVIOUS
<1> USE DEF Coherent, CatchUp, ReconcileForward, SyncFrom, HeavierPeers, SkipSync, SyncEnd, Panic
<1>1. TypeOK'
  BY DEF TypeOK, Phases, disk
<1>2. WorkIsOfTip' /\ OwnClaimPresent' /\ RowsAtHeights' /\ ClaimsAtHeights'
  BY DEF disk, WorkIsOfTip, OwnClaimPresent, RowsAtHeights, ClaimsAtHeights
<1>3. RoomToElect' /\ WinnerIsNext' /\ PeerIsAhead' /\ HandlersHoldClaims' /\ RowsAreSpent'
  BY DEF disk, RoomToElect, WinnerIsNext, PeerIsAhead, HandlersHoldClaims, RowsAreSpent
<1> QED
  BY <1>1, <1>2, <1>3

\* A rollback: the tip becomes the block of row f, the work that of f blocks.
LEMMA RollBackKeeps == Coherent /\ RollBack => Coherent'
<1> SUFFICES ASSUME Coherent, RollBack PROVE Coherent'
  OBVIOUS
<1> USE DEF Coherent, RollBack
<1>1. PICK p \in HeavierPeers, f \in 1 .. cur.height - 1 :
        /\ cur.height <= Height(p)
        /\ CommonAncestor(p, f)
        /\ store' = RowsUpTo(f)
        /\ ledger' = OpenScoped(f)
        /\ cur' = Point(f, store[f], cur.work - WorkAbove(f))
        /\ peer' = p
  OBVIOUS
<1>2. p \in Hash /\ cur.height \in Nat /\ f \in Heights /\ cur \in Points
  BY <1>1, BoundAssumption DEF HeavierPeers, TypeOK, Points, Heights
<1>3. store[f] \in Block /\ Height(store[f]) = f
  <2>1. f \in 1..Height(p)
    BY <1>1, <1>2, HeaderHeights, BoundAssumption
  <2>2. store[f] = AncestorAt(p, f)
    BY <1>1 DEF CommonAncestor
  <2> QED
    BY <1>2, <2>1, <2>2, AncestorHeight
<1>4. WorkAbove(f) = cur.height - f
  BY <1>1, <1>2, WorkAboveCounts DEF CommonAncestor
<1>5. cur.work - WorkAbove(f) = f
  BY <1>2, <1>4 DEF WorkIsOfTip
<1>6. cur' \in Points /\ Agrees(cur')
  BY <1>1, <1>2, <1>3, <1>5 DEF Point, Points, Agrees, Block, Heights
<1>7. TypeOK'
  BY <1>1, <1>2, <1>6, OpenScopedType DEF TypeOK, Phases, RowsUpTo
<1>8. WorkIsOfTip'
  BY <1>6 DEF WorkIsOfTip, Agrees
<1>9. RowsAtHeights' /\ RowsAreSpent'
  BY <1>1 DEF RowsAtHeights, RowsAreSpent, RowsUpTo
<1>10. PeerIsAhead'
  BY <1>1, <1>2 DEF PeerIsAhead
<1>11. /\ OwnClaimPresent' /\ ClaimsAtHeights' /\ RoomToElect' /\ WinnerIsNext'
       /\ HandlersHoldClaims'
  BY DEF OwnClaimPresent, ClaimsAtHeights, RoomToElect, WinnerIsNext, HandlersHoldClaims
<1> QED
  BY <1>7, <1>8, <1>9, <1>10, <1>11

LEMMA PublishRollBackKeeps == Coherent /\ PublishRollBack => Coherent'
<1> SUFFICES ASSUME Coherent, PublishRollBack PROVE Coherent'
  OBVIOUS
<1> USE DEF Coherent, PublishRollBack
<1>1. Filed(pending')
  BY RetainAboveFiled DEF Filed, TypeOK, ClaimsAtHeights
<1>2. TypeOK' /\ ClaimsAtHeights'
  BY <1>1 DEF Filed, TypeOK, ClaimsAtHeights, Phases, disk
<1>3. WorkIsOfTip' /\ OwnClaimPresent' /\ RowsAtHeights' /\ RoomToElect'
  BY DEF WorkIsOfTip, OwnClaimPresent, RowsAtHeights, RoomToElect, disk
<1>4. WinnerIsNext' /\ PeerIsAhead' /\ HandlersHoldClaims' /\ RowsAreSpent'
  BY DEF WinnerIsNext, PeerIsAhead, HandlersHoldClaims, RowsAreSpent, disk
<1> QED
  BY <1>2, <1>3, <1>4

\* The next block of the peer, when there is one.
LEMMA NextOfPeerIsNext ==
  ASSUME Coherent, pc \in {"sync", "synced"}, cur.height < Height(peer)
  PROVE  NextOfPeer \in Block /\ Height(NextOfPeer) = cur.height + 1
<1>1. peer \in Hash /\ cur.height + 1 \in 1..Height(peer)
  BY HeaderHeights, BoundAssumption DEF Coherent, PeerIsAhead, TypeOK, Points
<1> QED
  BY <1>1, AncestorHeight DEF NextOfPeer

LEMMA SyncApplyKeeps == Coherent /\ SyncApply => Coherent'
<1> SUFFICES ASSUME Coherent, SyncApply PROVE Coherent'
  OBVIOUS
<1> USE DEF Coherent, SyncApply
<1>1. Miner(NextOfPeer) \in Miners
  BY NextOfPeerIsNext, HeaderHeights
<1>2. TypeOK'
  BY <1>1, CreditType DEF TypeOK, Phases
<1>3. WorkIsOfTip' /\ OwnClaimPresent' /\ RowsAtHeights' /\ ClaimsAtHeights' /\ RoomToElect'
  BY DEF WorkIsOfTip, OwnClaimPresent, RowsAtHeights, ClaimsAtHeights, RoomToElect
<1>4. WinnerIsNext' /\ PeerIsAhead' /\ HandlersHoldClaims' /\ RowsAreSpent'
  BY DEF WinnerIsNext, PeerIsAhead, HandlersHoldClaims, RowsAreSpent
<1> QED
  BY <1>2, <1>3, <1>4

\* A synced block is stored, published and spent in one step.
LEMMA SyncStoreKeeps == Coherent /\ SyncStore => Coherent'
<1> SUFFICES ASSUME Coherent, SyncStore PROVE Coherent'
  OBVIOUS
<1> DEFINE b == NextOfPeer
<1>1. b \in Block /\ Height(b) = cur.height + 1
  BY NextOfPeerIsNext DEF Coherent, SyncStore, PeerIsAhead
<1>2. b \in Hash /\ Height(b) \in Heights
  BY <1>1, HeaderHeights
<1>3. Agrees(cur) /\ cur \in Points
  BY DEF Coherent, WorkIsOfTip, TypeOK, Agrees
<1>4. cur' \in Points /\ Agrees(cur') /\ cur'.height = Height(b) /\ st' = cur'
  <2>1. cur' = Point(cur.height + 1, b, cur.work + 1) /\ st' = cur'
    BY DEF SyncStore, Extend, Point
  <2> QED
    BY <1>1, <1>3, <2>1, ExtendAgrees DEF Extend
<1>5. store' = [store EXCEPT ![Height(b)] = b] /\ spent' = spent \cup {b}
  BY <1>1 DEF SyncStore, Extend, Point
<1>6. Filed(pending')
  BY RetainAboveFiled DEF Coherent, SyncStore, Filed, TypeOK, ClaimsAtHeights
<1> HIDE DEF b
<1>7. TypeOK'
  BY <1>2, <1>4, <1>5, <1>6, ZenonT(60) DEF Coherent, SyncStore, TypeOK, Phases, Filed
<1>8. WorkIsOfTip'
  BY <1>4 DEF Coherent, SyncStore, WorkIsOfTip, Agrees
<1>9. RowsAtHeights' /\ ClaimsAtHeights'
  BY <1>2, <1>5, <1>6 DEF Coherent, RowsAtHeights, ClaimsAtHeights, Filed, TypeOK
<1>10. RowsAreSpent'
  BY <1>2, <1>5 DEF Coherent, SyncStore, RowsAreSpent, TypeOK
<1>11. /\ OwnClaimPresent' /\ RoomToElect' /\ WinnerIsNext' /\ PeerIsAhead'
       /\ HandlersHoldClaims'
  BY DEF Coherent, SyncStore, OwnClaimPresent, RoomToElect, WinnerIsNext, PeerIsAhead,
         HandlersHoldClaims
<1> QED
  BY <1>7, <1>8, <1>9, <1>10, <1>11 DEF Coherent

\* The mined block sits on the tip, so its claim is one of the next height.
LEMMA MineKeeps == ASSUME NEW b \in Block PROVE Coherent /\ Mine(b) => Coherent'
<1> SUFFICES ASSUME Coherent, Mine(b) PROVE Coherent'
  OBVIOUS
<1> USE DEF Coherent, Mine
<1>1. Height(b) = cur.height + 1 /\ Height(b) \in Heights
  BY HeaderHeights DEF WorkIsOfTip
<1>2. Filed(pending') /\ ByMiner(pending'[Height(b)], Self) # {}
  BY KeepFirstFiled DEF Filed, TypeOK, ClaimsAtHeights
<1>3. TypeOK' /\ ClaimsAtHeights'
  BY <1>2 DEF TypeOK, Filed, ClaimsAtHeights, Phases, disk
<1>4. OwnClaimPresent' /\ RoomToElect'
  BY <1>1, <1>2, BoundAssumption DEF OwnClaimPresent, RoomToElect, Heights, TypeOK, Points
<1>5. WorkIsOfTip' /\ RowsAtHeights' /\ WinnerIsNext' /\ PeerIsAhead'
  BY DEF WorkIsOfTip, RowsAtHeights, WinnerIsNext, PeerIsAhead, disk
<1>6. HandlersHoldClaims' /\ RowsAreSpent'
  BY DEF HandlersHoldClaims, RowsAreSpent, disk
<1> QED
  BY <1>3, <1>4, <1>5, <1>6

LEMMA ElectKeeps == Coherent /\ Elect => Coherent'
<1> SUFFICES ASSUME Coherent, Elect PROVE Coherent'
  OBVIOUS
<1> USE DEF Coherent, Elect
<1>1. cur.height + 1 \in Heights
  BY BoundAssumption DEF RoomToElect, TypeOK, Points, Heights
<1>2. winner' \in Block /\ Height(winner') = cur.height + 1
  BY <1>1 DEF Winners, TypeOK, ClaimsAtHeights
<1>3. Filed(pending')
  BY RetainAboveFiled DEF Filed, TypeOK, ClaimsAtHeights
<1>4. TypeOK' /\ ClaimsAtHeights'
  BY <1>2, <1>3 DEF TypeOK, Filed, ClaimsAtHeights, Phases, disk
<1>5. WinnerIsNext'
  BY <1>2 DEF WinnerIsNext
<1>6. WorkIsOfTip' /\ OwnClaimPresent' /\ RowsAtHeights' /\ RoomToElect' /\ PeerIsAhead'
  BY DEF WorkIsOfTip, OwnClaimPresent, RowsAtHeights, RoomToElect, PeerIsAhead, disk
<1>7. HandlersHoldClaims' /\ RowsAreSpent'
  BY DEF HandlersHoldClaims, RowsAreSpent, disk
<1> QED
  BY <1>4, <1>5, <1>6, <1>7

LEMMA ApplyWinnerKeeps == Coherent /\ ApplyWinner => Coherent'
<1> SUFFICES ASSUME Coherent, ApplyWinner PROVE Coherent'
  OBVIOUS
<1> USE DEF Coherent, ApplyWinner
<1>1. Miner(winner) \in Miners
  BY HeaderHeights DEF WinnerIsNext
<1>2. TypeOK'
  BY <1>1, CreditType DEF TypeOK, Phases
<1>3. WorkIsOfTip' /\ OwnClaimPresent' /\ RowsAtHeights' /\ ClaimsAtHeights' /\ RoomToElect'
  BY DEF WorkIsOfTip, OwnClaimPresent, RowsAtHeights, ClaimsAtHeights, RoomToElect
<1>4. WinnerIsNext' /\ PeerIsAhead' /\ HandlersHoldClaims' /\ RowsAreSpent'
  BY DEF WinnerIsNext, PeerIsAhead, HandlersHoldClaims, RowsAreSpent
<1> QED
  BY <1>2, <1>3, <1>4

\* The row that is not spent yet is the winner's.
LEMMA StoreWinnerKeeps == Coherent /\ StoreWinner => Coherent'
<1> SUFFICES ASSUME Coherent, StoreWinner PROVE Coherent'
  OBVIOUS
<1> USE DEF Coherent, StoreWinner
<1>1. winner \in Hash /\ Height(winner) = cur.height + 1 /\ cur.height + 1 \in Heights
  BY HeaderHeights DEF WinnerIsNext
<1>2. TypeOK'
  BY <1>1 DEF TypeOK, Phases
<1>3. RowsAtHeights'
  BY <1>1 DEF RowsAtHeights, TypeOK
<1>4. RowsAreSpent'
  BY <1>1 DEF RowsAreSpent, TypeOK
<1>5. WorkIsOfTip' /\ OwnClaimPresent' /\ ClaimsAtHeights' /\ RoomToElect'
  BY DEF WorkIsOfTip, OwnClaimPresent, ClaimsAtHeights, RoomToElect
<1>6. WinnerIsNext' /\ PeerIsAhead' /\ HandlersHoldClaims'
  BY DEF WinnerIsNext, PeerIsAhead, HandlersHoldClaims
<1> QED
  BY <1>2, <1>3, <1>4, <1>5, <1>6

\* The point the winner makes of the tip is what is saved, then published.
LEMMA WinnerAgrees ==
  ASSUME Coherent, pc \in {"stored", "recorded"}
  PROVE  /\ Extend(cur, winner) \in Points /\ Agrees(Extend(cur, winner))
         /\ Extend(cur, winner).height = cur.height + 1
<1>1. winner \in Block /\ Height(winner) = cur.height + 1
  BY DEF Coherent, WinnerIsNext
<1>2. cur \in Points /\ Agrees(cur)
  BY DEF Coherent, TypeOK, WorkIsOfTip, Agrees
<1> QED
  BY <1>1, <1>2, ExtendAgrees

LEMMA SaveChainStateKeeps == Coherent /\ SaveChainState => Coherent'
<1> SUFFICES ASSUME Coherent, SaveChainState PROVE Coherent'
  OBVIOUS
<1> USE DEF Coherent, SaveChainState
<1>1. saved' \in Points /\ Agrees(saved')
  BY WinnerAgrees
<1>2. TypeOK' /\ WorkIsOfTip'
  BY <1>1 DEF TypeOK, WorkIsOfTip, Agrees, Phases
<1>3. OwnClaimPresent' /\ RowsAtHeights' /\ ClaimsAtHeights' /\ RoomToElect'
  BY DEF OwnClaimPresent, RowsAtHeights, ClaimsAtHeights, RoomToElect
<1>4. WinnerIsNext' /\ PeerIsAhead' /\ HandlersHoldClaims' /\ RowsAreSpent'
  BY DEF WinnerIsNext, PeerIsAhead, HandlersHoldClaims, RowsAreSpent
<1> QED
  BY <1>2, <1>3, <1>4

\* Consuming the winner's nullifier spends the last unspent row.
LEMMA PublishKeeps == Coherent /\ Publish => Coherent'
<1> SUFFICES ASSUME Coherent, Publish PROVE Coherent'
  OBVIOUS
<1> USE DEF Coherent, Publish
<1>1. cur' \in Points /\ Agrees(cur') /\ st' = cur'
  BY WinnerAgrees
<1>2. winner \in Hash
  BY HeaderHeights DEF WinnerIsNext
<1>3. TypeOK' /\ WorkIsOfTip'
  BY <1>1, <1>2 DEF TypeOK, WorkIsOfTip, Agrees, Phases, disk
<1>4. RowsAreSpent'
  BY DEF RowsAreSpent, disk
<1>5. OwnClaimPresent' /\ RowsAtHeights' /\ ClaimsAtHeights' /\ RoomToElect'
  BY DEF OwnClaimPresent, RowsAtHeights, ClaimsAtHeights, RoomToElect, disk
<1>6. WinnerIsNext' /\ PeerIsAhead' /\ HandlersHoldClaims'
  BY DEF WinnerIsNext, PeerIsAhead, HandlersHoldClaims, disk
<1> QED
  BY <1>3, <1>4, <1>5, <1>6

\* A handler changes its own state, and adds a claim of the right height.
LEMMA ClaimHandlerKeeps == Coherent /\ ClaimHandler => Coherent'
<1> SUFFICES ASSUME Coherent, NEW h \in Handlers,
                    (\E c \in Block : CheckTip(h, c)) \/ CheckRoot(h) \/ Admit(h)
             PROVE  Coherent'
  BY DEF ClaimHandler
<1> USE DEF Coherent
<1>1. /\ UNCHANGED <<store, saved, csv, st, spent, ledger, pc, cur, winner, peer, sent, crashes>>
      /\ handler' \in [Handlers -> [phase : {"idle", "linked", "executed"},
                                    claim : Block \cup {NoBlock}]]
      /\ HandlersHoldClaims'
  BY DEF CheckTip, CheckRoot, Admit, TypeOK, HandlersHoldClaims, Idle, disk, task
<1>2. /\ Filed(pending')
      /\ \A i \in Heights : pending[i] \subseteq pending'[i]
  <2>1. CASE Admit(h)
    <3>1. handler[h].claim \in Block
      BY <2>1 DEF Admit, HandlersHoldClaims
    <3> QED
      BY <2>1, <3>1, KeepFirstFiled DEF Admit, Filed, TypeOK, ClaimsAtHeights
  <2>2. CASE ~Admit(h)
    BY <2>2 DEF CheckTip, CheckRoot, Filed, TypeOK, ClaimsAtHeights
  <2> QED
    BY <2>1, <2>2
<1>3. TypeOK' /\ ClaimsAtHeights'
  BY <1>1, <1>2 DEF TypeOK, Filed, ClaimsAtHeights
<1>4. OwnClaimPresent'
  BY <1>1, <1>2, BoundAssumption
     DEF OwnClaimPresent, RoomToElect, ByMiner, TypeOK, Points, Heights
<1>5. WorkIsOfTip' /\ RowsAtHeights' /\ RoomToElect' /\ WinnerIsNext'
  BY <1>1 DEF WorkIsOfTip, RowsAtHeights, RoomToElect, WinnerIsNext
<1>6. PeerIsAhead' /\ RowsAreSpent'
  BY <1>1 DEF PeerIsAhead, RowsAreSpent
<1> QED
  BY <1>1, <1>3, <1>4, <1>5, <1>6

LEMMA CrashKeeps == Coherent /\ Crash => Coherent'
<1> SUFFICES ASSUME Coherent, Crash PROVE Coherent'
  OBVIOUS
<1> USE DEF Coherent, Crash
<1>1. TypeOK'
  BY BoundAssumption DEF TypeOK, Phases, disk
<1>2. WorkIsOfTip' /\ OwnClaimPresent' /\ RowsAtHeights' /\ ClaimsAtHeights' /\ RoomToElect'
  BY DEF WorkIsOfTip, OwnClaimPresent, RowsAtHeights, ClaimsAtHeights, RoomToElect, disk
<1>3. WinnerIsNext' /\ PeerIsAhead' /\ HandlersHoldClaims' /\ RowsAreSpent'
  BY DEF WinnerIsNext, PeerIsAhead, HandlersHoldClaims, RowsAreSpent, disk
<1> QED
  BY <1>1, <1>2, <1>3

\* A restart takes the saved point and every nullifier of the store.
LEMMA RestartKeeps == Coherent /\ Restart => Coherent'
<1> SUFFICES ASSUME Coherent, Restart PROVE Coherent'
  OBVIOUS
<1> USE DEF Coherent, Restart, ResumeFrom
<1>1. saved.height \in Nat
  BY BoundAssumption DEF TypeOK, Points
<1>2. TypeOK'
  BY <1>1, OpenScopedType DEF TypeOK, Phases, Idle, AllNullifiers, disk
<1>3. WorkIsOfTip' /\ OwnClaimPresent' /\ RowsAtHeights' /\ ClaimsAtHeights' /\ RoomToElect'
  BY DEF WorkIsOfTip, OwnClaimPresent, RowsAtHeights, ClaimsAtHeights, RoomToElect, disk
<1>4. WinnerIsNext' /\ PeerIsAhead' /\ HandlersHoldClaims'
  BY DEF WinnerIsNext, PeerIsAhead, HandlersHoldClaims, Idle
<1>5. RowsAreSpent'
  BY DEF RowsAreSpent, AllNullifiers, disk
<1> QED
  BY <1>2, <1>3, <1>4, <1>5

----------------------------------------------------------------------------
(* The theorems *)

LEMMA CoherentStep == Coherent /\ [Next]_vars => Coherent'
<1> SUFFICES ASSUME Coherent, [Next]_vars PROVE Coherent'
  OBVIOUS
<1>1. CASE MiningTask
  BY <1>1, TaskMoveKeeps, RollBackKeeps, PublishRollBackKeeps, SyncApplyKeeps, SyncStoreKeeps,
     MineKeeps, ElectKeeps, ApplyWinnerKeeps, StoreWinnerKeeps, SaveChainStateKeeps, PublishKeeps
     DEF MiningTask
<1>2. CASE ClaimHandler
  BY <1>2, ClaimHandlerKeeps
<1>3. CASE Crash \/ Restart
  BY <1>3, CrashKeeps, RestartKeeps
<1>4. CASE UNCHANGED vars
  <2>1. TypeOK' /\ WorkIsOfTip' /\ OwnClaimPresent' /\ RowsAtHeights' /\ ClaimsAtHeights'
    BY <1>4 DEF Coherent, vars, TypeOK, WorkIsOfTip, OwnClaimPresent, RowsAtHeights,
                ClaimsAtHeights
  <2>2. RoomToElect' /\ WinnerIsNext' /\ PeerIsAhead' /\ HandlersHoldClaims' /\ RowsAreSpent'
    BY <1>4 DEF Coherent, vars, RoomToElect, WinnerIsNext, PeerIsAhead, HandlersHoldClaims,
                RowsAreSpent
  <2> QED
    BY <2>1, <2>2 DEF Coherent
<1> QED
  BY <1>1, <1>2, <1>3, <1>4 DEF Next, AtBound

\* The invariant holds in every reachable state.
THEOREM AlwaysCoherent == Spec => []Coherent
BY CoherentInit, CoherentStep, PTL DEF Spec

\* The variables keep their types: heights within the chain, claims and rows
\* blocks, balances natural numbers.
THEOREM TypeCorrect == Spec => []TypeOK
<1>1. Coherent => TypeOK
  BY DEF Coherent
<1> QED
  BY <1>1, AlwaysCoherent, PTL

\* Height, tip and cumulative work agree in NodeState, in the mining task and in
\* chain-state.json, through every rollback, sync and restart.
THEOREM WorkAlwaysOfTip == Spec => []WorkIsOfTip
<1>1. Coherent => WorkIsOfTip
  BY DEF Coherent
<1> QED
  BY <1>1, AlwaysCoherent, PTL

\* The expect("local signed claim missing from candidate pool") cannot fire.
THEOREM OwnClaimAlwaysPresent == Spec => []OwnClaimPresent
<1>1. Coherent => OwnClaimPresent
  BY DEF Coherent
<1> QED
  BY <1>1, AlwaysCoherent, PTL

\* No row of the current chain ever has an unspent nullifier.
THEOREM ChainAlwaysSpent == Spec => []ChainIsSpent
<1>1. Coherent => ChainIsSpent
  <2> SUFFICES ASSUME Coherent, pc # "down", NEW h \in 1..cur.height
               PROVE  store[h] \in spent \cup {NoBlock}
    BY DEF ChainIsSpent
  <2>1. h \in Heights /\ h # cur.height + 1
    BY BoundAssumption DEF Coherent, TypeOK, Points, Heights
  <2> QED
    BY <2>1 DEF Coherent, RowsAreSpent
<1> QED
  BY <1>1, AlwaysCoherent, PTL


----------------------------------------------------------------------------
(* The promise of a chain *)

\* No peer makes reconcile_fork roll blocks back.
OneHistory == ~DivergentPeers

\* Nothing but peers happens beside the mining task.
Undisturbed == ~ExternalClaims /\ MaxCrashes = 0

Settled == OneHistory \/ Undisturbed

----------------------------------------------------------------------------
(* Histories *)

\* A history is finite, ends at its tip, and has one block a height.
IsChain(b) ==
  /\ IsFiniteSet(Path(b))
  /\ \A a \in Path(b) : Height(a) <= Height(b)
  /\ \A a, c \in Path(b) : Height(a) = Height(c) => a = c

LEMMA Chains == \A b \in Hash : IsChain(b)
<1> DEFINE Bad == {n \in Nat : \E b \in Hash : Height(b) = n /\ ~IsChain(b)}
<1>1. Bad = {}
  <2> SUFFICES ASSUME Bad # {} PROVE FALSE
    OBVIOUS
  <2>1. PICK n \in Bad : \A m \in Bad : ~(<<m, n>> \in OpToRel(<, Nat))
    <3> HIDE DEF Bad
    <3>1. Bad \subseteq Nat
      BY DEF Bad
    <3> QED
      BY <3>1, NatLessThanWellFounded, WFMin
  <2>2. PICK b \in Hash : Height(b) = n /\ ~IsChain(b)
    OBVIOUS
  <2>3. b # Genesis
    BY <2>2, HashAssumption, FS_EmptySet DEF IsChain
  <2>4. b \in Block
    BY <2>3 DEF Block
  <2>5. /\ Prev(b) \in Hash /\ Height(Prev(b)) \in Nat /\ Height(Prev(b)) < n
        /\ n = Height(Prev(b)) + 1
    BY <2>2, <2>4, HeaderHeights, BoundAssumption
  <2>6. IsChain(Prev(b))
    <3>1. Height(Prev(b)) \notin Bad
      BY <2>1, <2>5 DEF OpToRel
    <3> QED
      BY <3>1, <2>5
  <2>7. Path(b) = {b} \cup Path(Prev(b))
    BY <2>4, HashAssumption
  <2>8. IsFiniteSet(Path(b))
    <3>1. IsFiniteSet(Path(Prev(b)) \cup {b})
      BY <2>6, FS_AddElement DEF IsChain
    <3>2. Path(Prev(b)) \cup {b} = Path(b)
      BY <2>7
    <3> QED
      BY <3>1, <3>2
  <2>9. \A a \in Path(Prev(b)) : Height(a) \in Int /\ Height(a) < Height(b)
    <3>1. \A a \in Path(Prev(b)) : Height(a) \in Int
      BY <2>5, Histories, HeaderHeights, BoundAssumption DEF HasHistory, Heights
    <3> QED
      BY <3>1, <2>2, <2>5, <2>6 DEF IsChain
  <2>10. IsChain(b)
    BY <2>2, <2>5, <2>6, <2>7, <2>8, <2>9 DEF IsChain
  <2> QED
    BY <2>2, <2>10
<1> QED
  BY <1>1, HeaderHeights, BoundAssumption

\* The block of a history at its own height is itself: what a peer serves for a
\* height is the one block its chain has there.
LEMMA AncestorIsOnly ==
  ASSUME NEW b \in Hash, NEW a \in Path(b)
  PROVE  /\ Height(a) \in 1..Height(b)
         /\ AncestorAt(b, Height(a)) = a
<1>1. a \in Block /\ Height(a) \in Heights /\ Height(a) <= Height(b)
  BY Histories, Chains, HeaderHeights DEF HasHistory, IsChain
<1>2. Height(a) \in 1..Height(b)
  BY <1>1, HeaderHeights, BoundAssumption DEF Heights
<1>3. \A c \in Path(b) : Height(c) = Height(a) => c = a
  BY Chains DEF IsChain
<1> QED
  BY <1>2, <1>3 DEF AncestorAt

\* What a peer serves for a height is a block of its own history.
LEMMA AncestorOnPath ==
  ASSUME NEW b \in Hash, NEW h \in 1..Height(b)
  PROVE  AncestorAt(b, h) \in Path(b)
BY Histories DEF HasHistory, AncestorAt

\* The history of the genesis block pays nobody; that of a block pays one more
\* unit, to its miner, than that of its parent.
LEMMA StateRootGenesis == StateRoot(Genesis) = [m \in Miners |-> 0]
<1>1. \A m \in Miners : ByMiner(Path(Genesis), m) = {}
  BY HashAssumption DEF ByMiner
<1> QED
  BY <1>1, FS_EmptySet DEF StateRoot

LEMMA StateRootGrows ==
  ASSUME NEW b \in Block
  PROVE  StateRoot(b) = Credit(StateRoot(Prev(b)), Miner(b))
<1>1. Prev(b) \in Hash /\ Path(b) = {b} \cup Path(Prev(b)) /\ Miner(b) \in Miners
  BY HeaderHeights, HashAssumption
<1>2. b \notin Path(Prev(b))
  <2>1. \A a \in Path(Prev(b)) : Height(a) <= Height(Prev(b))
    BY <1>1, Chains DEF IsChain
  <2> QED
    BY <2>1, <1>1, HeaderHeights, BoundAssumption
<1>3. ASSUME NEW m \in Miners
      PROVE  Cardinality(ByMiner(Path(b), m)) =
             IF m = Miner(b) THEN Cardinality(ByMiner(Path(Prev(b)), m)) + 1
                             ELSE Cardinality(ByMiner(Path(Prev(b)), m))
  <2>1. IsFiniteSet(ByMiner(Path(Prev(b)), m)) /\ b \notin ByMiner(Path(Prev(b)), m)
    <3>1. ByMiner(Path(Prev(b)), m) \in SUBSET Path(Prev(b))
      BY DEF ByMiner
    <3> QED
      BY <3>1, <1>1, <1>2, Chains, FS_Subset DEF IsChain
  <2>2. CASE m = Miner(b)
    <3>1. ByMiner(Path(b), m) = ByMiner(Path(Prev(b)), m) \cup {b}
      BY <1>1, <2>2 DEF ByMiner
    <3> QED
      BY <2>1, <2>2, <3>1, FS_AddElement
  <2>3. CASE m # Miner(b)
    <3>1. ByMiner(Path(b), m) = ByMiner(Path(Prev(b)), m)
      BY <1>1, <2>3 DEF ByMiner
    <3> QED
      BY <2>3, <3>1
  <2> QED
    BY <2>2, <2>3
<1> QED
  BY <1>1, <1>3 DEF StateRoot, Credit

----------------------------------------------------------------------------
(* What the rows of the store and of ledger.csv hold *)

\* The rows up to a point's height were credited to the miners of its blocks.
CreditedUpTo(point) == \A h \in 1..point.height : csv[h] = Miner(store[h])

\* The block at a height of the store, the genesis block below its first row.
BlockAt(h) == IF h = 0 THEN Genesis ELSE store[h]

\* The least height a set of heights contains, when it contains one.
LEMMA LeastHeight ==
  ASSUME NEW S \in SUBSET Nat, S # {}
  PROVE  \E n \in S : \A m \in S : m >= n
<1>1. PICK n \in S : \A m \in S : ~(<<m, n>> \in OpToRel(<, Nat))
  BY NatLessThanWellFounded, WFMin
<1>2. ASSUME NEW m \in S PROVE m >= n
  <2>1. m \in Nat /\ n \in Nat
    OBVIOUS
  <2>2. ~(m < n)
    BY <1>1, <2>1 DEF OpToRel
  <2> QED
    BY <2>1, <2>2
<1> QED
  BY <1>2

StoredPoint(p) == p \in Points /\ Agrees(p) /\ StoredUpTo(p)

\* The rows up to a stored point are the history of its tip, each at its height.
LEMMA StoredRows ==
  ASSUME TypeOK, RowsAtHeights, NEW p, StoredPoint(p)
  PROVE  /\ BlockAt(p.height) = p.tip
         /\ \A h \in 1..p.height : /\ store[h] \in Block /\ Height(store[h]) = h
                                   /\ Prev(store[h]) = BlockAt(h - 1)
<1>1. p.height \in Nat /\ p.height <= MaxHeight /\ p.tip \in Hash /\ p.height = Height(p.tip)
  BY BoundAssumption DEF StoredPoint, Points, Agrees
<1>2. p.height = 0 => p.tip = Genesis
  <2>1. p.tip \in Block => Height(p.tip) \in 1..MaxHeight
    BY HeaderHeights DEF Heights
  <2> QED
    BY <1>1, <2>1 DEF Block
<1>3. BlockAt(p.height) = p.tip
  BY <1>1, <1>2 DEF BlockAt, StoredPoint, StoredUpTo
<1>4. ASSUME NEW h \in 1..p.height
      PROVE  /\ store[h] \in Block /\ Height(store[h]) = h
             /\ Prev(store[h]) = BlockAt(h - 1)
  <2>1. h \in Heights /\ h # 0 /\ (h = 1 <=> h - 1 = 0)
    BY <1>1, BoundAssumption DEF Heights
  <2>2. store[h] # NoBlock /\ Prev(store[h]) = Parent(h)
    BY DEF StoredPoint, StoredUpTo
  <2>3. store[h] \in Hash /\ Height(store[h]) = h
    BY <2>1, <2>2 DEF TypeOK, RowsAtHeights
  <2> QED
    BY <2>1, <2>2, <2>3, HashAssumption DEF Parent, BlockAt, Block
<1> QED
  BY <1>3, <1>4

LEMMA StoredHistory ==
  ASSUME TypeOK, RowsAtHeights, NEW p, StoredPoint(p)
  PROVE  \A h \in 0..p.height : Path(BlockAt(h)) = {store[i] : i \in 1..h}
<1> DEFINE Bad == {h \in 0..p.height : Path(BlockAt(h)) # {store[i] : i \in 1..h}}
<1> SUFFICES ASSUME Bad # {} PROVE FALSE
  OBVIOUS
<1>1. p.height \in Nat
  BY BoundAssumption DEF StoredPoint, Points
<1>2. PICK n \in Bad : \A m \in Bad : m >= n
  <2>1. Bad \subseteq Nat
    BY <1>1
  <2> HIDE DEF Bad
  <2> QED
    BY <2>1, LeastHeight
<1>3. n \in 0..p.height /\ Path(BlockAt(n)) # {store[i] : i \in 1..n}
  OBVIOUS
<1>4. n # 0
  <2>1. {store[i] : i \in 1..0} = {}
    OBVIOUS
  <2> QED
    BY <1>3, <2>1, HashAssumption DEF BlockAt
<1>5. n \in 1..p.height /\ n - 1 \in 0..p.height /\ ~(n - 1 >= n)
  BY <1>1, <1>3, <1>4
<1>6. Path(BlockAt(n - 1)) = {store[i] : i \in 1..n-1}
  BY <1>2, <1>5
<1>7. BlockAt(n) = store[n] /\ store[n] \in Block /\ Prev(store[n]) = BlockAt(n - 1)
  BY <1>5, StoredRows DEF BlockAt
<1>8. Path(store[n]) = {store[n]} \cup {store[i] : i \in 1..n-1}
  BY <1>6, <1>7, HashAssumption
<1>9. 1..n = (1..n-1) \cup {n}
  BY <1>5
<1>10. {store[n]} \cup {store[i] : i \in 1..n-1} = {store[i] : i \in 1..n}
  BY <1>9
<1> QED
  BY <1>3, <1>7, <1>8, <1>10

\* RewardLedger::open_scoped at a height of the stored chain gives the balances
\* an execution of that history gives.
LEMMA ReopenedLedger ==
  ASSUME TypeOK, RowsAtHeights, NEW p, StoredPoint(p), CreditedUpTo(p)
  PROVE  \A h \in 0..p.height : OpenScoped(h) = StateRoot(BlockAt(h))
<1> DEFINE Bad == {h \in 0..p.height : OpenScoped(h) # StateRoot(BlockAt(h))}
<1> SUFFICES ASSUME Bad # {} PROVE FALSE
  OBVIOUS
<1>1. p.height \in Nat
  BY BoundAssumption DEF StoredPoint, Points
<1>2. PICK n \in Bad : \A m \in Bad : m >= n
  <2>1. Bad \subseteq Nat
    BY <1>1
  <2> HIDE DEF Bad
  <2> QED
    BY <2>1, LeastHeight
<1>3. n \in 0..p.height /\ OpenScoped(n) # StateRoot(BlockAt(n))
  OBVIOUS
<1>4. n # 0
  <2>1. \A m \in Miners : {i \in 1..0 : csv[i] = m} = {}
    OBVIOUS
  <2>2. OpenScoped(0) = [m \in Miners |-> 0]
    BY <2>1, FS_EmptySet DEF OpenScoped
  <2> QED
    BY <1>3, <2>2, StateRootGenesis DEF BlockAt
<1>5. n \in 1..p.height /\ n - 1 \in 0..p.height /\ ~(n - 1 >= n)
  BY <1>1, <1>3, <1>4
<1>6. OpenScoped(n - 1) = StateRoot(BlockAt(n - 1))
  BY <1>2, <1>5
<1>7. BlockAt(n) = store[n] /\ store[n] \in Block /\ Prev(store[n]) = BlockAt(n - 1)
  BY <1>5, StoredRows DEF BlockAt
<1>8. StateRoot(store[n]) = Credit(StateRoot(BlockAt(n - 1)), Miner(store[n]))
  BY <1>7, StateRootGrows
<1>9. OpenScoped(n) = Credit(OpenScoped(n - 1), csv[n])
  <2>1. ASSUME NEW m \in Miners
        PROVE  Cardinality({i \in 1..n : csv[i] = m}) =
               IF m = csv[n] THEN Cardinality({i \in 1..n-1 : csv[i] = m}) + 1
                             ELSE Cardinality({i \in 1..n-1 : csv[i] = m})
    <3>1. IsFiniteSet({i \in 1..n-1 : csv[i] = m}) /\ n \notin {i \in 1..n-1 : csv[i] = m}
      <4>1. {i \in 1..n-1 : csv[i] = m} \in SUBSET (1..n-1) /\ IsFiniteSet(1..n-1)
        BY <1>5, FS_Interval
      <4> QED
        BY <4>1, <1>5, FS_Subset
    <3>2. CASE m = csv[n]
      <4>1. {i \in 1..n : csv[i] = m} = {i \in 1..n-1 : csv[i] = m} \cup {n}
        BY <1>5, <3>2
      <4> QED
        BY <3>1, <3>2, <4>1, FS_AddElement
    <3>3. CASE m # csv[n]
      <4>1. {i \in 1..n : csv[i] = m} = {i \in 1..n-1 : csv[i] = m}
        BY <1>5, <3>3
      <4> QED
        BY <3>3, <4>1
    <3> QED
      BY <3>2, <3>3
  <2> QED
    BY <2>1 DEF OpenScoped, Credit
<1>10. csv[n] = Miner(store[n])
  BY <1>5 DEF CreditedUpTo
<1> QED
  BY <1>3, <1>6, <1>7, <1>8, <1>9, <1>10

\* A height between an epoch's start and another height is of the same epoch.
LEMMA SameEpoch ==
  ASSUME NEW h \in Nat, NEW f \in 0..h, NEW k \in Nat, k > 0, f >= (h \div k) * k
  PROVE  h \div k = f \div k
OBVIOUS

----------------------------------------------------------------------------
(* The inductive invariant *)

\* The store and ledger.csv hold the history of the task's own tip.
OwnChain == StoredUpTo(cur) /\ CreditedUpTo(cur)

\* Handlers see the task's own tip, but between a rollback and its publication.
TipPublished == pc \notin {"rolled", "down"} => st = cur

\* Without divergent peers nothing is ever rolled back, and the resume pointer
\* names a block of the stored chain: the tip or one below it, but while the
\* next block is recorded and not yet published.
PointerBehind ==
  OneHistory =>
    /\ pc # "rolled"
    /\ StoredUpTo(saved) /\ CreditedUpTo(saved)
    /\ pc \notin {"down", "recorded", "panicked"} => saved.height <= cur.height

\* Without claims and crashes only the task's own candidate is ever pending.
Quiet ==
  Undisturbed =>
    /\ pc # "down"
    /\ \A h \in Handlers : handler[h] = Idle
    /\ pc # "grace" => \A h \in Heights : pending[h] = {}

\* A claim is not for a height beyond the tip unless it extends the tip.
OnTip(c) == Height(c) > cur.height => Prev(c) = cur.tip

ClaimsOnTip ==
  /\ \A h \in Heights : \A c \in pending[h] : OnTip(c)
  /\ \A h \in Handlers : handler[h].phase # "idle" => OnTip(handler[h].claim)

\* The winner extends the tip; it is credited, then stored, then recorded.
WinnerOnTip ==
  /\ pc \in {"elected", "applied", "stored", "recorded"} => Prev(winner) = cur.tip
  /\ pc \in {"applied", "stored", "recorded"} =>
       /\ csv[cur.height + 1] = Miner(winner)
       /\ ledger = StateRoot(winner)
  /\ pc \in {"stored", "recorded"} => store[cur.height + 1] = winner
  /\ pc = "recorded" => saved = Extend(cur, winner)

\* The peer's record that was credited and is not stored yet extends the tip.
RecordOnTip ==
  pc = "synced" => /\ Prev(NextOfPeer) = cur.tip
                   /\ csv[cur.height + 1] = Miner(NextOfPeer)
                   /\ ledger = StateRoot(NextOfPeer)

\* A point to which the published tip may fall back from where it is.
FallBackPoint ==
  /\ peer # NoBlock
  /\ Height(peer) > Height(st.tip)
  /\ cur.tip \in Promise!Common
  /\ \A b \in Promise!Common : Height(b) <= Height(cur.tip)
  /\ Height(st.tip) - Height(cur.tip) < ReorgDepth
  /\ Height(st.tip) \div (ReorgDepth + 1) = Height(cur.tip) \div (ReorgDepth + 1)

RolledToFork == pc = "rolled" => FallBackPoint

Grounded ==
  /\ Coherent
  /\ OwnChain
  /\ TipPublished
  /\ PointerBehind
  /\ Quiet
  /\ ClaimsOnTip
  /\ WinnerOnTip
  /\ RecordOnTip
  /\ RolledToFork
  /\ LedgerFollowsTip

----------------------------------------------------------------------------
(* The initial state and each action *)

\* At genesis nothing is stored, credited or claimed.
LEMMA GroundedInit == Init => Grounded
<1> SUFFICES ASSUME Init PROVE Grounded
  OBVIOUS
<1>1. Coherent
  BY CoherentInit
<1> USE DEF Init, GenesisPoint, Point, Idle
<1>2. \A p : p = GenesisPoint => StoredUpTo(p) /\ CreditedUpTo(p)
  BY DEF StoredUpTo, CreditedUpTo
<1>3. OwnChain /\ TipPublished /\ PointerBehind
  BY <1>2 DEF OwnChain, TipPublished, PointerBehind
<1>4. Quiet /\ ClaimsOnTip
  BY DEF Quiet, ClaimsOnTip
<1>5. WinnerOnTip /\ RecordOnTip /\ RolledToFork
  BY DEF WinnerOnTip, RecordOnTip, RolledToFork
<1>6. LedgerFollowsTip
  BY StateRootGenesis DEF LedgerFollowsTip
<1> QED
  BY <1>1, <1>3, <1>4, <1>5, <1>6 DEF Grounded

\* The steps that only move the mining task.
LEMMA TaskMoveGrounded ==
  Grounded /\ (CatchUp \/ ReconcileForward \/ SkipSync \/ SyncEnd \/ Panic) => Grounded'
<1> SUFFICES ASSUME Grounded, CatchUp \/ ReconcileForward \/ SkipSync \/ SyncEnd \/ Panic
             PROVE  Grounded'
  OBVIOUS
<1>1. Coherent'
  BY TaskMoveKeeps DEF Grounded
<1>2. /\ UNCHANGED <<store, saved, csv, st, pending, spent, ledger, cur, winner, handler,
                     sent, crashes>>
      /\ pc' \in {"sync", "mine", "panicked"}
      /\ pc \in {"catchup", "top", "sync", "recorded"} /\ (pc' = "panicked" <=> pc = "recorded")
  BY DEF CatchUp, ReconcileForward, SyncFrom, SkipSync, SyncEnd, Panic, disk
<1>3. OwnChain' /\ TipPublished' /\ PointerBehind'
  BY <1>2 DEF Grounded, OwnChain, StoredUpTo, Parent, CreditedUpTo, TipPublished, PointerBehind
<1>4. Quiet' /\ ClaimsOnTip'
  BY <1>2 DEF Grounded, Quiet, ClaimsOnTip, OnTip
<1>5. WinnerOnTip' /\ RecordOnTip' /\ RolledToFork'
  BY <1>2 DEF WinnerOnTip, RecordOnTip, RolledToFork
<1>6. LedgerFollowsTip'
  BY <1>2 DEF Grounded, LedgerFollowsTip
<1> QED
  BY <1>1, <1>3, <1>4, <1>5, <1>6 DEF Grounded

\* The task's own point is one of the stored chain.
LEMMA CurIsStored == Grounded => StoredPoint(cur) /\ CreditedUpTo(cur)
BY DEF Grounded, Coherent, TypeOK, WorkIsOfTip, Agrees, OwnChain, StoredPoint

\* A peer whose chain contains our tip has our row at our height.
LEMMA NoForkAbove ==
  ASSUME Grounded, OneHistory, cur.height > 0, NEW p \in HeavierPeers
  PROVE  AncestorAt(p, cur.height) = store[cur.height]
<1>1. cur.tip = store[cur.height] /\ cur.height = Height(cur.tip)
  BY CurIsStored DEF StoredPoint, StoredUpTo, Agrees
<1>2. cur.tip # Genesis /\ p \in Hash
  BY <1>1, HashAssumption DEF HeavierPeers
<1>3. cur.tip \in Path(p)
  BY <1>2 DEF HeavierPeers, OneHistory
<1> QED
  BY <1>1, <1>2, <1>3, AncestorIsOnly

\* A rollback lands on the highest block the chain shares with the peer's.
LEMMA ForkPoint ==
  ASSUME Grounded, NEW p \in Hash, cur.height <= Height(p),
         NEW f \in 1 .. cur.height - 1, CommonAncestor(p, f)
  PROVE  /\ store[f] \in Path(cur.tip) \cap Path(p)
         /\ \A b \in Path(cur.tip) \cap Path(p) : Height(b) <= f
         /\ cur.height - f < ReorgDepth
         /\ cur.height \div (ReorgDepth + 1) = f \div (ReorgDepth + 1)
<1>1. /\ StoredPoint(cur) /\ TypeOK /\ RowsAtHeights
      /\ cur.height \in Nat /\ Height(p) \in Nat /\ f \in 1..cur.height /\ f \in 0..cur.height
      /\ f \in 1..Height(p)
  BY CurIsStored, HeaderHeights, BoundAssumption DEF Grounded, Coherent, TypeOK, Points
<1>2. Path(cur.tip) = {store[i] : i \in 1..cur.height}
  BY <1>1, StoredRows, StoredHistory
<1>3. store[f] \in Path(p)
  BY <1>1, AncestorOnPath DEF CommonAncestor
<1>4. ASSUME NEW b \in Path(cur.tip) \cap Path(p) PROVE Height(b) <= f
  <2>1. PICK i \in 1..cur.height : b = store[i]
    BY <1>2
  <2>2. Height(b) = i
    BY <1>1, <2>1, StoredRows
  <2>3. AncestorAt(p, i) = store[i]
    BY <2>1, <2>2, AncestorIsOnly
  <2>4. i \notin f+1 .. cur.height
    BY <2>3 DEF CommonAncestor
  <2> QED
    BY <1>1, <2>2, <2>4
<1>5. cur.height - f < ReorgDepth
  BY <1>1, BoundAssumption DEF CommonAncestor, ProbeFloor
<1>6. cur.height \div (ReorgDepth + 1) = f \div (ReorgDepth + 1)
  BY <1>1, BoundAssumption, SameEpoch DEF CommonAncestor, EpochStart
<1> QED
  BY <1>1, <1>2, <1>3, <1>4, <1>5, <1>6

LEMMA RollBackGrounded == Settled /\ Grounded /\ RollBack => Grounded'
<1> SUFFICES ASSUME Settled, Grounded, RollBack PROVE Grounded'
  OBVIOUS
<1>1. PICK p \in HeavierPeers, f \in 1 .. cur.height - 1 :
        /\ cur.height <= Height(p)
        /\ CommonAncestor(p, f)
        /\ store' = RowsUpTo(f)
        /\ ledger' = OpenScoped(f)
        /\ cur' = Point(f, store[f], cur.work - WorkAbove(f))
        /\ peer' = p
  BY DEF RollBack
<1>2. /\ StoredPoint(cur) /\ CreditedUpTo(cur) /\ TypeOK /\ RowsAtHeights /\ p \in Hash
      /\ cur.height \in Nat /\ cur.height <= MaxHeight /\ f \in 1..cur.height
      /\ f \in 0..cur.height /\ cur.height > 0 /\ f \in Heights
      /\ cur.height \in f+1 .. cur.height
  BY CurIsStored, BoundAssumption
     DEF Grounded, Coherent, TypeOK, Points, HeavierPeers, Heights
<1>3. /\ pc = "top" /\ pc' = "rolled" /\ st = cur
      /\ UNCHANGED <<saved, csv, st, pending, spent, winner, handler, sent, crashes>>
  BY DEF RollBack, Grounded, TipPublished
<1>4. ~OneHistory
  <2>1. store[cur.height] # AncestorAt(p, cur.height)
    BY <1>1, <1>2 DEF CommonAncestor
  <2> QED
    BY <1>2, <2>1, NoForkAbove
<1>5. store[f] \in Block /\ Height(store[f]) = f /\ BlockAt(f) = store[f]
  BY <1>2, StoredRows DEF BlockAt
<1>6. Coherent'
  BY RollBackKeeps DEF Grounded
<1>7. cur'.height = f /\ cur'.tip = store[f]
  BY <1>1 DEF Point
<1>8. \A h \in 1..f : h \in 1..cur.height /\ h \in Heights /\ store'[h] = store[h]
  <2>1. \A h \in 1..f : h \in 1..cur.height /\ h \in Heights /\ h <= f
    BY <1>2, BoundAssumption DEF Heights
  <2> QED
    BY <1>1, <2>1 DEF RowsUpTo
<1>9. OwnChain'
  <2>1. \A h \in 1..f : store[h] # NoBlock /\ Prev(store[h]) = Parent(h)
    BY <1>2, <1>8 DEF StoredPoint, StoredUpTo
  <2>2. \A h \in 1..f : Parent(h)' = Parent(h)
    BY <1>2, <1>8 DEF Parent
  <2>3. StoredUpTo(cur)'
    BY <1>2, <1>7, <1>8, <2>1, <2>2 DEF StoredUpTo
  <2>4. CreditedUpTo(cur)'
    BY <1>2, <1>3, <1>7, <1>8 DEF CreditedUpTo
  <2> QED
    BY <2>3, <2>4 DEF OwnChain
<1>10. TipPublished' /\ PointerBehind' /\ WinnerOnTip' /\ RecordOnTip'
  BY <1>3, <1>4 DEF TipPublished, PointerBehind, OneHistory, WinnerOnTip, RecordOnTip
<1>11. Undisturbed /\ Quiet' /\ ClaimsOnTip'
  BY <1>3, <1>4 DEF Settled, Grounded, Quiet, Undisturbed, ClaimsOnTip, Idle
<1>12. FallBackPoint'
  <2>1. /\ store[f] \in Path(cur.tip) \cap Path(p)
        /\ \A b \in Path(cur.tip) \cap Path(p) : Height(b) <= f
        /\ cur.height - f < ReorgDepth
        /\ cur.height \div (ReorgDepth + 1) = f \div (ReorgDepth + 1)
    BY <1>1, <1>2, ForkPoint
  <2>2. Height(cur.tip) = cur.height /\ cur.work = cur.height
    BY <1>2 DEF StoredPoint, Agrees
  <2>3. Height(p) > cur.height /\ p # NoBlock
    BY <1>1, <1>2, <2>2, HashAssumption DEF HeavierPeers
  <2> QED
    BY <1>1, <1>3, <1>5, <1>7, <2>1, <2>2, <2>3 DEF FallBackPoint, Promise!Common
<1>13. RolledToFork'
  BY <1>12 DEF RolledToFork
<1>14. LedgerFollowsTip'
  BY <1>1, <1>2, <1>5, <1>7, ReopenedLedger DEF LedgerFollowsTip
<1> QED
  BY <1>6, <1>9, <1>10, <1>11, <1>13, <1>14 DEF Grounded

\* The claims above the fork point are none, as the task is undisturbed.
LEMMA PublishRollBackGrounded == Settled /\ Grounded /\ PublishRollBack => Grounded'
<1> SUFFICES ASSUME Settled, Grounded, PublishRollBack PROVE Grounded'
  OBVIOUS
<1>1. /\ pc = "rolled" /\ pc' = "sync" /\ st' = cur
      /\ pending' = RetainAbove(pending, cur.height)
      /\ UNCHANGED <<store, saved, csv, spent, ledger, cur, winner, peer, handler, sent, crashes>>
  BY DEF PublishRollBack, disk
<1>2. Coherent'
  BY PublishRollBackKeeps DEF Grounded
<1>3. OwnChain' /\ TipPublished' /\ PointerBehind'
  BY <1>1 DEF Grounded, OwnChain, StoredUpTo, Parent, CreditedUpTo, TipPublished, PointerBehind
<1>4. Quiet' /\ ClaimsOnTip'
  BY <1>1 DEF Grounded, Quiet, ClaimsOnTip, OnTip, RetainAbove
<1>5. WinnerOnTip' /\ RecordOnTip' /\ RolledToFork'
  BY <1>1 DEF WinnerOnTip, RecordOnTip, RolledToFork
<1>6. LedgerFollowsTip'
  BY <1>1 DEF Grounded, LedgerFollowsTip
<1> QED
  BY <1>2, <1>3, <1>4, <1>5, <1>6 DEF Grounded

\* The next record of the peer is a block for the height after the tip.
LEMMA NextIsBlock ==
  ASSUME Grounded, pc \in {"sync", "synced"}, cur.height < Height(peer)
  PROVE  /\ NextOfPeer \in Block /\ Height(NextOfPeer) = cur.height + 1
         /\ cur.height + 1 \in Heights
BY NextOfPeerIsNext, HeaderHeights DEF Grounded

\* Crediting the record leaves the rows up to the tip and the pointer as they are.
LEMMA SyncApplyGrounded == Grounded /\ SyncApply => Grounded'
<1> SUFFICES ASSUME Grounded, SyncApply PROVE Grounded'
  OBVIOUS
<1>1. /\ pc = "sync" /\ pc' = "synced" /\ Accepts(NextOfPeer)
      /\ ledger' = Credit(ledger, Miner(NextOfPeer))
      /\ csv' = [csv EXCEPT ![cur.height + 1] = Miner(NextOfPeer)]
      /\ UNCHANGED <<store, saved, st, pending, spent, cur, winner, peer, handler, sent, crashes>>
  BY DEF SyncApply
<1>2. /\ NextOfPeer \in Block /\ cur.height + 1 \in Heights
      /\ NextOfPeer' = NextOfPeer
  BY <1>1, NextIsBlock DEF SyncApply, NextOfPeer
<1>3. Coherent' /\ TypeOK
  BY SyncApplyKeeps DEF Grounded, Coherent
<1>4. /\ cur.height \in Nat /\ saved.height \in Nat
      /\ csv'[cur.height + 1] = Miner(NextOfPeer)
      /\ \A h \in Heights : h <= cur.height => csv'[h] = csv[h]
  BY <1>1, <1>2, <1>3, BoundAssumption DEF TypeOK, Points
<1>5. \A h \in 1..cur.height : h \in Heights /\ h <= cur.height
  BY <1>2, <1>4, BoundAssumption DEF Heights
<1>6. OwnChain'
  BY <1>1, <1>4, <1>5 DEF Grounded, OwnChain, StoredUpTo, Parent, CreditedUpTo
<1>7. PointerBehind'
  <2>1. OneHistory => \A h \in 1..saved.height : h \in 1..cur.height
    BY <1>1, <1>4 DEF Grounded, PointerBehind
  <2> QED
    BY <1>1, <1>4, <1>5, <2>1 DEF Grounded, PointerBehind, StoredUpTo, Parent, CreditedUpTo
<1>8. TipPublished' /\ Quiet' /\ ClaimsOnTip'
  BY <1>1 DEF Grounded, TipPublished, Quiet, ClaimsOnTip, OnTip
<1>9. RecordOnTip'
  BY <1>1, <1>2, <1>4 DEF RecordOnTip, Accepts, Executes
<1>10. WinnerOnTip' /\ RolledToFork' /\ LedgerFollowsTip'
  BY <1>1 DEF WinnerOnTip, RolledToFork, LedgerFollowsTip
<1> QED
  BY <1>3, <1>6, <1>7, <1>8, <1>9, <1>10 DEF Grounded

\* One row of the store is written.
Writes(h, b) == store' = [store EXCEPT ![h] = b] /\ UNCHANGED csv

\* What StoredUpTo and CreditedUpTo say, of a point that does not move.
StaysStored(p) ==
  /\ p.height > 0 => store'[p.height] = p.tip
  /\ \A i \in 1..p.height : store'[i] # NoBlock /\ Prev(store'[i]) = Parent(i)'
  /\ \A i \in 1..p.height : csv'[i] = Miner(store'[i])

\* A stored point stays stored when a row above it is written.
LEMMA RowAbove ==
  ASSUME TypeOK, NEW b, NEW h \in Heights, NEW p, p.height \in Nat, p.height < h,
         StoredUpTo(p), CreditedUpTo(p), Writes(h, b)
  PROVE  StaysStored(p)
<1> USE DEF Writes, StaysStored
<1>1. \A i \in 1..p.height : i \in Heights /\ i # h /\ (i # 1 => i - 1 \in 1..p.height)
  BY BoundAssumption DEF Heights
<1>2. \A i \in 1..p.height : store'[i] = store[i]
  BY <1>1 DEF TypeOK
<1>3. \A i \in 1..p.height : Parent(i)' = Parent(i)
  BY <1>1, <1>2 DEF Parent
<1>4. p.height > 0 => p.height \in 1..p.height
  OBVIOUS
<1> QED
  BY <1>2, <1>3, <1>4 DEF StoredUpTo, CreditedUpTo

\* The tip moves to a credited row that extends it: the rows are its history.
LEMMA ChainGrows ==
  ASSUME Grounded, NEW b \in Block, cur.height + 1 \in Heights, Prev(b) = cur.tip,
         cur' = Extend(cur, b), store' = [store EXCEPT ![cur.height + 1] = b],
         csv[cur.height + 1] = Miner(b), UNCHANGED csv
  PROVE  OwnChain'
<1>1. /\ TypeOK /\ StoredUpTo(cur) /\ CreditedUpTo(cur) /\ BlockAt(cur.height) = cur.tip
      /\ cur.height \in Nat /\ cur.height < cur.height + 1
      /\ cur.height <= MaxHeight /\ b # NoBlock
  BY CurIsStored, StoredRows, HeaderHeights, BoundAssumption
     DEF Grounded, Coherent, OwnChain, TypeOK, Points
<1>2. cur'.height = cur.height + 1 /\ cur'.tip = b
  BY DEF Extend, Point
<1>3. /\ store'[cur.height + 1] = b
      /\ \A i \in Heights : i = cur.height + 1 => Parent(i)' = cur.tip
  <2>1. cur.height # 0 => cur.height \in Heights /\ store'[cur.height] = store[cur.height]
    BY <1>1, BoundAssumption DEF TypeOK, Heights
  <2>2. store'[cur.height + 1] = b
    BY <1>1 DEF TypeOK
  <2>3. ASSUME NEW i \in Heights, i = cur.height + 1 PROVE Parent(i)' = cur.tip
    <3>1. i - 1 = cur.height /\ (i = 1 <=> cur.height = 0)
      BY <1>1, <2>3
    <3> QED
      BY <1>1, <2>1, <3>1 DEF Parent, BlockAt
  <2> QED
    BY <2>2, <2>3
<1>4. /\ \A i \in 1..cur.height : store'[i] # NoBlock /\ Prev(store'[i]) = Parent(i)'
      /\ \A i \in 1..cur.height : csv'[i] = Miner(store'[i])
  <2>1. Writes(cur.height + 1, b)
    BY DEF Writes
  <2>2. StaysStored(cur)
    BY <1>1, <2>1, RowAbove
  <2> QED
    BY <2>2 DEF StaysStored
<1>5. \A i \in 1..cur.height+1 : i \in 1..cur.height \/ (i \in Heights /\ i = cur.height + 1)
  BY <1>1
<1>6. StoredUpTo(cur)'
  BY <1>1, <1>2, <1>3, <1>4, <1>5 DEF StoredUpTo
<1>7. CreditedUpTo(cur)'
  BY <1>2, <1>3, <1>4, <1>5 DEF CreditedUpTo
<1> QED
  BY <1>6, <1>7 DEF OwnChain

\* No claim is beyond the tip any more when the tip moves a block up.
LEMMA ClaimsPassed ==
  ASSUME Grounded, NEW b, cur' = Extend(cur, b), UNCHANGED handler,
         \A h \in Heights : pending'[h] \subseteq pending[h]
  PROVE  ClaimsOnTip'
<1>1. /\ cur'.height = cur.height + 1 /\ cur.height \in Nat /\ cur.height = Height(cur.tip)
      /\ \A h \in Heights : pending[h] \subseteq Block
  BY BoundAssumption DEF Grounded, Coherent, WorkIsOfTip, TypeOK, Points, Extend, Point
<1>2. ASSUME NEW c \in Block, OnTip(c) PROVE OnTip(c)'
  <2>1. Height(c) \in Nat /\ (Height(c) > cur.height => Height(c) = cur.height + 1)
    BY <1>1, <1>2, HeaderHeights, BoundAssumption DEF OnTip, Heights
  <2> QED
    BY <1>1, <2>1 DEF OnTip
<1> QED
  BY <1>1, <1>2 DEF Grounded, Coherent, ClaimsOnTip, HandlersHoldClaims

\* The stored record becomes the tip: the rows up to it are its history.
LEMMA SyncStoreGrounded == Grounded /\ SyncStore => Grounded'
<1> SUFFICES ASSUME Grounded, SyncStore PROVE Grounded'
  OBVIOUS
<1> DEFINE b == NextOfPeer
<1>1. /\ pc = "synced" /\ pc' = "sync" /\ store' = [store EXCEPT ![cur.height + 1] = b]
      /\ cur' = Extend(cur, b) /\ st' = Extend(cur, b)
      /\ pending' = RetainAbove(pending, cur.height + 1)
      /\ UNCHANGED <<saved, csv, ledger, winner, peer, handler, sent, crashes>>
  BY DEF SyncStore, Extend, Point
<1>2. b \in Block /\ cur.height + 1 \in Heights
  BY <1>1, NextIsBlock DEF Grounded, Coherent, PeerIsAhead
<1>3. Coherent' /\ TypeOK
  BY SyncStoreKeeps DEF Grounded, Coherent
<1>4. /\ cur.height \in Nat /\ saved.height \in Nat
      /\ OneHistory => saved.height <= cur.height
  BY <1>1, <1>3, BoundAssumption DEF Grounded, PointerBehind, TypeOK, Points
<1>5. cur'.height = cur.height + 1 /\ cur'.tip = b
  BY <1>1 DEF Extend, Point
<1>6. Prev(b) = cur.tip /\ csv[cur.height + 1] = Miner(b) /\ ledger = StateRoot(b)
  BY <1>1 DEF Grounded, RecordOnTip
<1> HIDE DEF b
<1>7. OwnChain'
  BY <1>1, <1>2, <1>6, ChainGrows
<1>8. PointerBehind'
  <2>1. SUFFICES ASSUME OneHistory PROVE PointerBehind'
    BY DEF PointerBehind
  <2>2. saved.height < cur.height + 1 /\ StoredUpTo(saved) /\ CreditedUpTo(saved)
    BY <1>4, <2>1 DEF Grounded, PointerBehind
  <2>3. StoredUpTo(saved)' /\ CreditedUpTo(saved)'
    <3>1. Writes(cur.height + 1, b)
      BY <1>1 DEF Writes
    <3>2. StaysStored(saved)
      BY <1>2, <1>3, <1>4, <2>2, <3>1, RowAbove
    <3> QED
      BY <1>1, <3>2 DEF StaysStored, StoredUpTo, CreditedUpTo
  <2> QED
    BY <1>1, <1>4, <1>5, <2>2, <2>3 DEF PointerBehind
<1>9. TipPublished' /\ Quiet'
  BY <1>1 DEF Grounded, TipPublished, Quiet, RetainAbove
<1>10. ClaimsOnTip'
  <2>1. \A h \in Heights : pending'[h] \subseteq pending[h]
    BY <1>1 DEF RetainAbove
  <2> QED
    BY <1>1, <2>1, ClaimsPassed
<1>11. WinnerOnTip' /\ RecordOnTip' /\ RolledToFork'
  BY <1>1 DEF WinnerOnTip, RecordOnTip, RolledToFork
<1>12. LedgerFollowsTip'
  BY <1>1, <1>5, <1>6 DEF LedgerFollowsTip
<1> QED
  BY <1>3, <1>7, <1>8, <1>9, <1>10, <1>11, <1>12 DEF Grounded

\* The mined claim extends the tip.
LEMMA MineGrounded == ASSUME NEW b \in Block PROVE Grounded /\ Mine(b) => Grounded'
<1> SUFFICES ASSUME Grounded, Mine(b) PROVE Grounded'
  OBVIOUS
<1>1. /\ pc = "mine" /\ pc' = "grace" /\ Prev(b) = cur.tip
      /\ pending' = KeepFirst(pending, b)
      /\ UNCHANGED <<store, saved, csv, st, spent, ledger, cur, winner, peer, handler, crashes>>
  BY DEF Mine, disk
<1>2. Coherent'
  BY MineKeeps DEF Grounded
<1>3. OwnChain' /\ TipPublished' /\ PointerBehind' /\ Quiet'
  BY <1>1 DEF Grounded, OwnChain, StoredUpTo, Parent, CreditedUpTo, TipPublished, PointerBehind,
              Quiet
<1>4. ClaimsOnTip'
  <2>1. \A h \in Heights : \A c \in pending'[h] : c \in pending[h] \/ c = b
    BY <1>1 DEF KeepFirst, Grounded, Coherent, TypeOK
  <2> QED
    BY <1>1, <2>1 DEF Grounded, ClaimsOnTip, OnTip
<1>5. WinnerOnTip' /\ RecordOnTip' /\ RolledToFork'
  BY <1>1 DEF WinnerOnTip, RecordOnTip, RolledToFork
<1>6. LedgerFollowsTip'
  BY <1>1 DEF Grounded, LedgerFollowsTip
<1> QED
  BY <1>2, <1>3, <1>4, <1>5, <1>6 DEF Grounded

\* Every candidate of the height extends the tip, so the winner does.
LEMMA ElectGrounded == Grounded /\ Elect => Grounded'
<1> SUFFICES ASSUME Grounded, Elect PROVE Grounded'
  OBVIOUS
<1>1. /\ pc = "grace" /\ pc' = "elected" /\ winner' \in Winners(pending[cur.height + 1])
      /\ pending' = RetainAbove(pending, cur.height + 1)
      /\ UNCHANGED <<store, saved, csv, st, spent, ledger, cur, peer, handler, sent, crashes>>
  BY DEF Elect, disk
<1>2. Coherent'
  BY ElectKeeps DEF Grounded
<1>3. OwnChain' /\ TipPublished' /\ PointerBehind'
  BY <1>1 DEF Grounded, OwnChain, StoredUpTo, Parent, CreditedUpTo, TipPublished, PointerBehind
<1>4. cur.height \in Nat /\ cur.height + 1 \in Heights
  BY <1>1, BoundAssumption DEF Grounded, Coherent, RoomToElect, TypeOK, Points, Heights
<1>5. Quiet'
  <2>1. SUFFICES ASSUME Undisturbed PROVE \A h \in Heights : pending'[h] = {}
    BY <1>1 DEF Grounded, Quiet
  <2>2. ASSUME NEW h \in Heights, h > cur.height + 1, NEW c \in pending[h] PROVE FALSE
    <3>1. /\ c \in Block /\ Height(c) = h /\ h > cur.height /\ cur.tip \in Hash
          /\ Height(cur.tip) = cur.height
      BY <1>4, <2>2, BoundAssumption
         DEF Grounded, Coherent, TypeOK, ClaimsAtHeights, WorkIsOfTip, Points, Heights
    <3>2. Prev(c) = cur.tip
      BY <3>1 DEF Grounded, ClaimsOnTip, OnTip
    <3> QED
      BY <1>4, <2>2, <3>1, <3>2, HeaderHeights, BoundAssumption
  <2> QED
    BY <1>1, <2>2 DEF RetainAbove
<1>6. ClaimsOnTip'
  BY <1>1 DEF Grounded, ClaimsOnTip, OnTip, RetainAbove
<1>7. WinnerOnTip'
  <2>1. winner' \in pending[cur.height + 1] /\ Height(winner') = cur.height + 1
    BY <1>1, <1>4 DEF Winners, Grounded, Coherent, ClaimsAtHeights
  <2>2. Prev(winner') = cur.tip
    BY <1>4, <2>1 DEF Grounded, ClaimsOnTip, OnTip
  <2> QED
    BY <1>1, <2>2 DEF WinnerOnTip
<1>8. RecordOnTip' /\ RolledToFork'
  BY <1>1 DEF RecordOnTip, RolledToFork
<1>9. LedgerFollowsTip'
  BY <1>1 DEF Grounded, LedgerFollowsTip
<1> QED
  BY <1>2, <1>3, <1>5, <1>6, <1>7, <1>8, <1>9 DEF Grounded

\* The winner's reward gives the state root of its header.
LEMMA ApplyWinnerGrounded == Grounded /\ ApplyWinner => Grounded'
<1> SUFFICES ASSUME Grounded, ApplyWinner PROVE Grounded'
  OBVIOUS
<1>1. /\ pc = "elected" /\ pc' = "applied" /\ ledger' = Credit(ledger, Miner(winner))
      /\ csv' = [csv EXCEPT ![cur.height + 1] = Miner(winner)]
      /\ UNCHANGED <<store, saved, st, pending, spent, cur, winner, peer, handler, sent, crashes>>
  BY DEF ApplyWinner
<1>2. Coherent' /\ TypeOK
  BY ApplyWinnerKeeps DEF Grounded, Coherent
<1>3. /\ winner \in Block /\ cur.height + 1 \in Heights /\ Prev(winner) = cur.tip
      /\ ledger = StateRoot(cur.tip)
  BY <1>1, HeaderHeights
     DEF Grounded, Coherent, WinnerIsNext, WinnerOnTip, LedgerFollowsTip
<1>4. /\ cur.height \in Nat /\ saved.height \in Nat
      /\ csv'[cur.height + 1] = Miner(winner)
      /\ \A h \in Heights : h <= cur.height => csv'[h] = csv[h]
  BY <1>1, <1>2, <1>3, BoundAssumption DEF TypeOK, Points
<1>5. \A h \in 1..cur.height : h \in Heights /\ h <= cur.height
  BY <1>3, <1>4, BoundAssumption DEF Heights
<1>6. OwnChain'
  BY <1>1, <1>4, <1>5 DEF Grounded, OwnChain, StoredUpTo, Parent, CreditedUpTo
<1>7. PointerBehind'
  <2>1. OneHistory => \A h \in 1..saved.height : h \in 1..cur.height
    BY <1>1, <1>4 DEF Grounded, PointerBehind
  <2> QED
    BY <1>1, <1>4, <1>5, <2>1 DEF Grounded, PointerBehind, StoredUpTo, Parent, CreditedUpTo
<1>8. TipPublished' /\ Quiet' /\ ClaimsOnTip'
  BY <1>1 DEF Grounded, TipPublished, Quiet, ClaimsOnTip, OnTip
<1>9. WinnerOnTip'
  <2>1. ledger' = StateRoot(winner)
    BY <1>1, <1>3, StateRootGrows
  <2> QED
    BY <1>1, <1>3, <1>4, <2>1 DEF WinnerOnTip
<1>10. RecordOnTip' /\ RolledToFork' /\ LedgerFollowsTip'
  BY <1>1 DEF RecordOnTip, RolledToFork, LedgerFollowsTip
<1> QED
  BY <1>2, <1>6, <1>7, <1>8, <1>9, <1>10 DEF Grounded

\* The row of the winner is written above the tip and above the pointer.
LEMMA StoreWinnerGrounded == Grounded /\ StoreWinner => Grounded'
<1> SUFFICES ASSUME Grounded, StoreWinner PROVE Grounded'
  OBVIOUS
<1>1. /\ pc = "applied" /\ pc' = "stored"
      /\ store' = [store EXCEPT ![cur.height + 1] = winner]
      /\ UNCHANGED <<saved, csv, st, pending, spent, ledger, cur, winner, peer, handler, sent,
                     crashes>>
  BY DEF StoreWinner
<1>2. Coherent' /\ TypeOK
  BY StoreWinnerKeeps DEF Grounded, Coherent
<1>3. cur.height + 1 \in Heights
  BY <1>1, HeaderHeights DEF Grounded, Coherent, WinnerIsNext
<1>4. /\ cur.height \in Nat /\ saved.height \in Nat /\ cur.height < cur.height + 1
      /\ StoredUpTo(cur) /\ CreditedUpTo(cur)
  BY <1>2, BoundAssumption DEF TypeOK, Points, Grounded, OwnChain
<1>11. Writes(cur.height + 1, winner)
  BY <1>1 DEF Writes
<1>5. OwnChain'
  <2>1. StaysStored(cur)
    BY <1>2, <1>3, <1>4, <1>11, RowAbove
  <2>2. StoredUpTo(cur)' /\ CreditedUpTo(cur)'
    BY <1>1, <2>1 DEF StaysStored, StoredUpTo, CreditedUpTo
  <2> QED
    BY <2>2 DEF OwnChain
<1>6. PointerBehind'
  <2>1. SUFFICES ASSUME OneHistory PROVE PointerBehind'
    BY DEF PointerBehind
  <2>2. saved.height <= cur.height /\ StoredUpTo(saved) /\ CreditedUpTo(saved)
    BY <1>1, <2>1 DEF Grounded, PointerBehind
  <2>3. saved.height < cur.height + 1
    BY <1>4, <2>2
  <2>4. StaysStored(saved)
    BY <1>2, <1>3, <1>4, <1>11, <2>2, <2>3, RowAbove
  <2>5. StoredUpTo(saved)' /\ CreditedUpTo(saved)'
    BY <1>1, <2>4 DEF StaysStored, StoredUpTo, CreditedUpTo
  <2> QED
    BY <1>1, <2>2, <2>5 DEF PointerBehind
<1>7. TipPublished' /\ Quiet' /\ ClaimsOnTip'
  BY <1>1 DEF Grounded, TipPublished, Quiet, ClaimsOnTip, OnTip
<1>8. WinnerOnTip'
  BY <1>1, <1>2, <1>3 DEF Grounded, WinnerOnTip, TypeOK
<1>9. RecordOnTip' /\ RolledToFork' /\ LedgerFollowsTip'
  BY <1>1 DEF RecordOnTip, RolledToFork, LedgerFollowsTip
<1> QED
  BY <1>2, <1>5, <1>6, <1>7, <1>8, <1>9 DEF Grounded

\* Once its row is stored, the winner ends a stored and credited chain.
LEMMA WinnerStored ==
  ASSUME Grounded, pc \in {"stored", "recorded"}
  PROVE  /\ StoredUpTo(Extend(cur, winner)) /\ CreditedUpTo(Extend(cur, winner))
         /\ Extend(cur, winner).height = cur.height + 1
         /\ Extend(cur, winner).tip = winner
         /\ cur.height \in Nat
<1> DEFINE next == Extend(cur, winner)
<1>1. next.height = cur.height + 1 /\ next.tip = winner
  BY DEF Extend, Point
<1>2. /\ winner \in Block /\ winner # NoBlock /\ Prev(winner) = cur.tip
      /\ store[cur.height + 1] = winner /\ csv[cur.height + 1] = Miner(winner)
  BY HeaderHeights DEF Grounded, Coherent, WinnerIsNext, WinnerOnTip
<1>3. /\ BlockAt(cur.height) = cur.tip /\ cur.height \in Nat
      /\ StoredUpTo(cur) /\ CreditedUpTo(cur)
  BY CurIsStored, StoredRows, BoundAssumption
     DEF Grounded, Coherent, OwnChain, TypeOK, Points
<1>4. Parent(cur.height + 1) = cur.tip
  BY <1>3 DEF Parent, BlockAt
<1>5. \A i \in 1..cur.height+1 : i \in 1..cur.height \/ i = cur.height + 1
  BY <1>3
<1> HIDE DEF next
<1>6. StoredUpTo(next)
  BY <1>1, <1>2, <1>3, <1>4, <1>5 DEF StoredUpTo
<1>7. CreditedUpTo(next)
  BY <1>1, <1>2, <1>3, <1>5 DEF CreditedUpTo
<1> QED
  BY <1>1, <1>3, <1>6, <1>7 DEF next

\* The pointer moves to a block whose chain is stored.
LEMMA SaveChainStateGrounded == Grounded /\ SaveChainState => Grounded'
<1> SUFFICES ASSUME Grounded, SaveChainState PROVE Grounded'
  OBVIOUS
<1>1. /\ pc = "stored" /\ pc' = "recorded" /\ saved' = Extend(cur, winner)
      /\ UNCHANGED <<store, csv, st, pending, spent, ledger, cur, winner, peer, handler, sent,
                     crashes>>
  BY DEF SaveChainState
<1>2. Coherent'
  BY SaveChainStateKeeps DEF Grounded
<1>3. OwnChain' /\ TipPublished' /\ Quiet' /\ ClaimsOnTip'
  BY <1>1 DEF Grounded, OwnChain, StoredUpTo, Parent, CreditedUpTo, TipPublished, Quiet,
              ClaimsOnTip, OnTip
<1>4. PointerBehind'
  <2>1. StoredUpTo(saved') /\ CreditedUpTo(saved')
    BY <1>1, WinnerStored
  <2> QED
    BY <1>1, <2>1 DEF PointerBehind, StoredUpTo, Parent, CreditedUpTo
<1>5. WinnerOnTip'
  BY <1>1 DEF Grounded, WinnerOnTip
<1>6. RecordOnTip' /\ RolledToFork' /\ LedgerFollowsTip'
  BY <1>1 DEF RecordOnTip, RolledToFork, LedgerFollowsTip
<1> QED
  BY <1>2, <1>3, <1>4, <1>5, <1>6 DEF Grounded

\* The published tip is the recorded block.
LEMMA PublishGrounded == Grounded /\ Publish => Grounded'
<1> SUFFICES ASSUME Grounded, Publish PROVE Grounded'
  OBVIOUS
<1>1. /\ pc = "recorded" /\ pc' = "top"
      /\ cur' = Extend(cur, winner) /\ st' = Extend(cur, winner)
      /\ UNCHANGED <<store, saved, csv, pending, ledger, peer, handler, sent, crashes>>
  BY DEF Publish, disk
<1>2. Coherent'
  BY PublishKeeps DEF Grounded
<1>3. StoredUpTo(cur') /\ CreditedUpTo(cur') /\ cur'.tip = winner /\ saved = cur'
  BY <1>1, WinnerStored DEF Grounded, WinnerOnTip
<1>4. OwnChain'
  BY <1>1, <1>3 DEF OwnChain, StoredUpTo, Parent, CreditedUpTo
<1>5. PointerBehind'
  <2>1. cur'.height \in Nat
    BY <1>1, WinnerStored
  <2> QED
    BY <1>1, <1>3, <2>1 DEF PointerBehind, StoredUpTo, Parent, CreditedUpTo
<1>6. TipPublished' /\ Quiet'
  BY <1>1 DEF Grounded, TipPublished, Quiet
<1>7. ClaimsOnTip'
  BY <1>1, ClaimsPassed
<1>8. WinnerOnTip' /\ RecordOnTip' /\ RolledToFork'
  BY <1>1 DEF WinnerOnTip, RecordOnTip, RolledToFork
<1>9. LedgerFollowsTip'
  BY <1>1, <1>3 DEF Grounded, WinnerOnTip, LedgerFollowsTip
<1> QED
  BY <1>2, <1>4, <1>5, <1>6, <1>7, <1>8, <1>9 DEF Grounded

\* A handler takes a claim only when it extends the published tip, which is the
\* task's own whenever claims arrive.
LEMMA ClaimHandlerGrounded == Settled /\ Grounded /\ ClaimHandler => Grounded'
<1> SUFFICES ASSUME Settled, Grounded, NEW h \in Handlers,
                    (\E c \in Block : CheckTip(h, c)) \/ CheckRoot(h) \/ Admit(h)
             PROVE  Grounded'
  BY DEF ClaimHandler
<1>1. /\ UNCHANGED <<store, saved, csv, st, spent, ledger, pc, cur, winner, peer, sent, crashes>>
      /\ pc \notin {"down", "panicked"}
  BY DEF CheckTip, CheckRoot, Admit, Serving, disk, task
<1>2. ~Undisturbed
  BY DEF Grounded, Quiet, Undisturbed, CheckTip, CheckRoot, Admit, Idle
<1>3. Coherent' /\ TypeOK /\ st = cur
  <2>1. Coherent'
    BY ClaimHandlerKeeps DEF Grounded, ClaimHandler
  <2> QED
    BY <1>1, <1>2, <2>1 DEF Settled, Grounded, Coherent, PointerBehind, TipPublished
<1>4. OwnChain' /\ TipPublished' /\ PointerBehind' /\ Quiet'
  BY <1>1, <1>2 DEF Grounded, OwnChain, StoredUpTo, Parent, CreditedUpTo, TipPublished,
                    PointerBehind, Quiet, Undisturbed
<1>5. ClaimsOnTip'
  <2>1. CASE \E c \in Block : CheckTip(h, c)
    BY <1>1, <1>3, <2>1 DEF CheckTip, Grounded, ClaimsOnTip, OnTip, TypeOK, Idle
  <2>2. CASE CheckRoot(h)
    BY <1>1, <1>3, <2>2 DEF CheckRoot, Grounded, ClaimsOnTip, OnTip, TypeOK, Idle
  <2>3. CASE Admit(h)
    <3>1. \A i \in Heights : \A c \in pending'[i] : c \in pending[i] \/ c = handler[h].claim
      BY <1>3, <2>3 DEF Admit, KeepFirst, TypeOK
    <3>2. \A i \in Handlers : handler'[i].phase # "idle" => handler'[i] = handler[i]
      BY <1>3, <2>3 DEF Admit, TypeOK, Idle
    <3> QED
      BY <1>1, <2>3, <3>1, <3>2 DEF Admit, Grounded, ClaimsOnTip, OnTip
  <2> QED
    BY <2>1, <2>2, <2>3
<1>6. WinnerOnTip' /\ RecordOnTip' /\ RolledToFork'
  BY <1>1 DEF Grounded, WinnerOnTip, RecordOnTip, NextOfPeer, RolledToFork, FallBackPoint,
              Promise!Common
<1>7. LedgerFollowsTip'
  BY <1>1 DEF Grounded, LedgerFollowsTip
<1> QED
  BY <1>3, <1>4, <1>5, <1>6, <1>7 DEF Grounded

\* A dying process leaves the disk as it is.
LEMMA CrashGrounded == Grounded /\ Crash => Grounded'
<1> SUFFICES ASSUME Grounded, Crash PROVE Grounded'
  OBVIOUS
<1>1. /\ pc' = "down" /\ crashes < MaxCrashes
      /\ UNCHANGED <<store, saved, csv, st, pending, spent, ledger, cur, winner, peer, handler,
                     sent>>
  BY DEF Crash, disk
<1>2. ~Undisturbed
  BY <1>1, BoundAssumption DEF Undisturbed, Grounded, Coherent, TypeOK
<1>3. Coherent'
  BY CrashKeeps DEF Grounded
<1>4. OwnChain' /\ TipPublished' /\ PointerBehind' /\ Quiet' /\ ClaimsOnTip'
  BY <1>1, <1>2 DEF Grounded, OwnChain, StoredUpTo, Parent, CreditedUpTo, TipPublished,
                    PointerBehind, Quiet, Undisturbed, ClaimsOnTip, OnTip
<1>5. WinnerOnTip' /\ RecordOnTip' /\ RolledToFork' /\ LedgerFollowsTip'
  BY <1>1 DEF WinnerOnTip, RecordOnTip, RolledToFork, LedgerFollowsTip
<1> QED
  BY <1>3, <1>4, <1>5 DEF Grounded

\* The saved point becomes the tip, and the ledger is reopened at it.
LEMMA RestartGrounded == Settled /\ Grounded /\ Restart => Grounded'
<1> SUFFICES ASSUME Settled, Grounded, Restart PROVE Grounded'
  OBVIOUS
<1>1. /\ pc = "down" /\ pc' = "catchup" /\ st' = saved /\ cur' = saved
      /\ pending' = [h \in Heights |-> {}] /\ ledger' = OpenScoped(saved.height)
      /\ handler' = [h \in Handlers |-> Idle]
      /\ UNCHANGED <<store, saved, csv, sent, crashes>>
  BY DEF Restart, ResumeFrom, disk
<1>2. OneHistory
  BY <1>1 DEF Settled, Grounded, Quiet
<1>3. Coherent'
  BY RestartKeeps DEF Grounded
<1>4. /\ StoredPoint(saved) /\ CreditedUpTo(saved) /\ TypeOK /\ RowsAtHeights
      /\ saved.height \in Nat /\ saved.height \in 0..saved.height
  BY <1>2, BoundAssumption
     DEF Grounded, Coherent, TypeOK, Points, WorkIsOfTip, Agrees, PointerBehind, StoredPoint
<1>5. OwnChain' /\ TipPublished' /\ PointerBehind'
  BY <1>1, <1>4 DEF OwnChain, StoredPoint, StoredUpTo, Parent, CreditedUpTo, TipPublished,
                    PointerBehind
<1>6. Quiet' /\ ClaimsOnTip'
  BY <1>1 DEF Quiet, ClaimsOnTip, Idle
<1>7. LedgerFollowsTip'
  BY <1>1, <1>4, StoredRows, ReopenedLedger DEF LedgerFollowsTip
<1>8. WinnerOnTip' /\ RecordOnTip' /\ RolledToFork'
  BY <1>1 DEF WinnerOnTip, RecordOnTip, RolledToFork
<1> QED
  BY <1>3, <1>5, <1>6, <1>7, <1>8 DEF Grounded

LEMMA GroundedStep == Settled /\ Grounded /\ [Next]_vars => Grounded'
<1> SUFFICES ASSUME Settled, Grounded, [Next]_vars PROVE Grounded'
  OBVIOUS
<1>1. CASE MiningTask
  BY <1>1, TaskMoveGrounded, RollBackGrounded, PublishRollBackGrounded, SyncApplyGrounded,
     SyncStoreGrounded, MineGrounded, ElectGrounded, ApplyWinnerGrounded, StoreWinnerGrounded,
     SaveChainStateGrounded, PublishGrounded
     DEF MiningTask
<1>2. CASE ClaimHandler
  BY <1>2, ClaimHandlerGrounded
<1>3. CASE Crash \/ Restart
  BY <1>3, CrashGrounded, RestartGrounded
<1>4. CASE UNCHANGED vars
  <2>1. Coherent'
    BY CoherentStep DEF Grounded
  <2>2. OwnChain' /\ TipPublished' /\ PointerBehind' /\ Quiet' /\ ClaimsOnTip'
    BY <1>4 DEF vars, Grounded, OwnChain, StoredUpTo, Parent, CreditedUpTo, TipPublished,
                PointerBehind, Quiet, ClaimsOnTip, OnTip
  <2>3. WinnerOnTip' /\ RecordOnTip' /\ RolledToFork' /\ LedgerFollowsTip'
    BY <1>4 DEF vars, Grounded, WinnerOnTip, RecordOnTip, NextOfPeer, RolledToFork,
                FallBackPoint, Promise!Common, LedgerFollowsTip
  <2> QED
    BY <2>1, <2>2, <2>3 DEF Grounded
<1> QED
  BY <1>1, <1>2, <1>3, <1>4 DEF Next, AtBound

----------------------------------------------------------------------------
(* Every step is a step of DurableChain, or none of its variables move *)

LEMMA PromiseInit == Init => Promise!Init
BY DEF Init, GenesisPoint, Point, Promise!Init

\* A change of peer, and nothing else that others see, is a comparison.
LEMMA TaskMovePromise ==
  Grounded /\ (CatchUp \/ ReconcileForward \/ RollBack \/ SkipSync \/ SyncEnd)
    => Promise!Compare \/ UNCHANGED <<st.tip, saved.tip, peer>>
<1> SUFFICES ASSUME Grounded, CatchUp \/ ReconcileForward \/ RollBack \/ SkipSync \/ SyncEnd
             PROVE  Promise!Compare \/ UNCHANGED <<st.tip, saved.tip, peer>>
  OBVIOUS
<1>1. UNCHANGED <<st, saved>>
  BY DEF CatchUp, ReconcileForward, SyncFrom, RollBack, SkipSync, SyncEnd, disk
<1>2. peer' \in Hash \cup {NoBlock}
  BY DEF CatchUp, ReconcileForward, SyncFrom, RollBack, HeavierPeers, SkipSync, SyncEnd,
         Grounded, Coherent, TypeOK
<1> QED
  BY <1>1, <1>2 DEF Promise!Compare

\* Publishing a rollback is a fall back to where the chains part.
LEMMA PublishRollBackPromise == Grounded /\ PublishRollBack => Promise!FallBack
BY DEF Grounded, PublishRollBack, RolledToFork, FallBackPoint, disk, Promise!FallBack,
       Promise!Common

\* A synchronised record makes the tip grow.
LEMMA SyncStorePromise == Grounded /\ SyncStore => Promise!Grow
<1> SUFFICES ASSUME Grounded, SyncStore PROVE Promise!Grow
  OBVIOUS
<1>1. /\ pc = "synced" /\ st'.tip = NextOfPeer /\ UNCHANGED <<saved, peer>>
  BY DEF SyncStore, Extend, Point
<1>2. NextOfPeer \in Block /\ Prev(NextOfPeer) = cur.tip /\ st = cur
  BY <1>1, NextIsBlock DEF Grounded, Coherent, PeerIsAhead, RecordOnTip, TipPublished
<1> QED
  BY <1>1, <1>2 DEF Promise!Grow, Block

\* The winner becomes durable while its parent is the published tip.
LEMMA SaveChainStatePromise == Grounded /\ SaveChainState => Promise!Commit
<1> SUFFICES ASSUME Grounded, SaveChainState PROVE Promise!Commit
  OBVIOUS
<1>1. /\ pc = "stored" /\ saved'.tip = winner /\ UNCHANGED <<st, peer>>
  BY DEF SaveChainState, Extend, Point
<1>2. winner \in Block /\ Prev(winner) = cur.tip /\ st = cur
  BY <1>1 DEF Grounded, Coherent, WinnerIsNext, WinnerOnTip, TipPublished
<1> QED
  BY <1>1, <1>2 DEF Promise!Commit, Block

\* Then it becomes the tip.
LEMMA PublishPromise == Grounded /\ Publish => Promise!Grow
<1> SUFFICES ASSUME Grounded, Publish PROVE Promise!Grow
  OBVIOUS
<1>1. /\ pc = "recorded" /\ st'.tip = winner /\ UNCHANGED <<saved, peer>>
  BY DEF Publish, Extend, Point, disk
<1>2. winner \in Block /\ Prev(winner) = cur.tip /\ st = cur
  BY <1>1 DEF Grounded, Coherent, WinnerIsNext, WinnerOnTip, TipPublished
<1> QED
  BY <1>1, <1>2 DEF Promise!Grow, Block

\* A restart brings back the durable block.
LEMMA RestartPromise == Restart => Promise!Recover
BY DEF Restart, ResumeFrom, disk, Promise!Recover

LEMMA PromiseStep == Grounded /\ [Next]_vars => [Promise!Next]_<<st.tip, saved.tip, peer>>
<1> SUFFICES ASSUME Grounded, [Next]_vars
             PROVE  Promise!Next \/ UNCHANGED <<st.tip, saved.tip, peer>>
  OBVIOUS
<1>1. CASE CatchUp \/ ReconcileForward \/ RollBack \/ SkipSync \/ SyncEnd
  BY <1>1, TaskMovePromise DEF Promise!Next
<1>2. CASE PublishRollBack \/ SyncStore \/ SaveChainState \/ Publish \/ Restart
  BY <1>2, PublishRollBackPromise, SyncStorePromise, SaveChainStatePromise, PublishPromise,
     RestartPromise
     DEF Promise!Next
<1>3. CASE SyncApply \/ (\E b \in Block : Mine(b)) \/ Elect \/ ApplyWinner \/ StoreWinner \/ Panic
  BY <1>3 DEF SyncApply, Mine, Elect, ApplyWinner, StoreWinner, Panic, disk
<1>4. CASE ClaimHandler \/ Crash \/ UNCHANGED vars
  BY <1>4 DEF ClaimHandler, CheckTip, CheckRoot, Admit, Crash, disk, task, vars
<1> QED
  BY <1>1, <1>2, <1>3, <1>4 DEF Next, MiningTask, AtBound

----------------------------------------------------------------------------
(* The nullifier of a winner *)

\* An own block was broadcast before anything else was done with it.
SentIfOwn(b) == Miner(b) = Self => b \in sent

OwnBlocksSent ==
  /\ \A b \in spent : SentIfOwn(b)
  /\ \A h \in Heights : \A b \in pending[h] : SentIfOwn(b)
  /\ \A h \in Heights : store[h] # NoBlock => SentIfOwn(store[h])
  /\ winner # NoBlock => SentIfOwn(winner)
  /\ peer # NoBlock => Known(peer)

\* Without claims of others the only candidate is the block mined on the tip,
\* and its nullifier was never consumed: not by a run that died, nor by a sync.
CandidateUnspent ==
  /\ \A h \in Handlers : handler[h] = Idle
  /\ pc \notin {"grace", "down"} => \A h \in Heights : pending[h] = {}
  /\ pc = "grace" => \A h \in Heights : \A b \in pending[h] : h = cur.height + 1 /\ b \notin spent
  /\ pc \in {"elected", "applied", "stored", "recorded"} => winner \notin spent

Unspent == Coherent /\ OwnBlocksSent /\ CandidateUnspent /\ NoNullifierCollision

LEMMA UnspentInit == Init => Unspent
<1> SUFFICES ASSUME Init PROVE Unspent
  OBVIOUS
<1>1. Coherent
  BY CoherentInit
<1>2. OwnBlocksSent /\ CandidateUnspent /\ NoNullifierCollision
  BY DEF Init, OwnBlocksSent, CandidateUnspent, NoNullifierCollision
<1> QED
  BY <1>1, <1>2 DEF Unspent

\* The block a sync stores is of the peer's history, which is known here.
LEMMA SyncStoreUnspent == Unspent /\ SyncStore => Unspent'
<1> SUFFICES ASSUME Unspent, SyncStore PROVE Unspent'
  OBVIOUS
<1> DEFINE b == NextOfPeer
<1>1. /\ pc = "synced" /\ pc' = "sync" /\ store' = [store EXCEPT ![cur.height + 1] = b]
      /\ spent' = spent \cup {b} /\ pending' = RetainAbove(pending, cur.height + 1)
      /\ UNCHANGED <<winner, peer, handler, sent>>
  BY DEF SyncStore, Extend, Point
<1>2. SentIfOwn(b)
  <2>1. peer \in Hash /\ cur.height + 1 \in 1..Height(peer) /\ peer # NoBlock
    BY <1>1, HeaderHeights, HashAssumption, BoundAssumption
       DEF Unspent, Coherent, PeerIsAhead, TypeOK, Points
  <2>2. b \in Path(peer)
    BY <2>1, AncestorOnPath DEF NextOfPeer
  <2> QED
    BY <2>1, <2>2 DEF Unspent, OwnBlocksSent, Known, SentIfOwn
<1>3. Coherent' /\ TypeOK
  BY SyncStoreKeeps DEF Unspent, Coherent
<1> HIDE DEF b
<1>4. OwnBlocksSent'
  BY <1>1, <1>2, <1>3 DEF Unspent, OwnBlocksSent, SentIfOwn, Known, RetainAbove, TypeOK
<1>5. CandidateUnspent' /\ NoNullifierCollision'
  BY <1>1 DEF Unspent, CandidateUnspent, RetainAbove, NoNullifierCollision
<1> QED
  BY <1>3, <1>4, <1>5 DEF Unspent

\* The mined block is new, so its nullifier is unspent.
LEMMA MineUnspent == ASSUME NEW b \in Block PROVE Unspent /\ Mine(b) => Unspent'
<1> SUFFICES ASSUME Unspent, Mine(b) PROVE Unspent'
  OBVIOUS
<1>1. /\ pc = "mine" /\ pc' = "grace" /\ b \notin sent /\ Miner(b) = Self /\ Prev(b) = cur.tip
      /\ pending' = KeepFirst(pending, b) /\ sent' = sent \cup {b}
      /\ UNCHANGED <<store, saved, csv, st, spent, ledger, cur, winner, peer, handler, crashes>>
  BY DEF Mine, disk
<1>2. Coherent' /\ TypeOK /\ Height(b) = cur.height + 1
  BY <1>1, MineKeeps, HeaderHeights DEF Unspent, Coherent, WorkIsOfTip
<1>3. \A h \in Heights : \A c \in pending'[h] : c = b /\ h = Height(b)
  BY <1>1, <1>2 DEF Unspent, CandidateUnspent, KeepFirst, TypeOK
<1>4. b \notin spent
  BY <1>1 DEF Unspent, OwnBlocksSent, SentIfOwn
<1>5. OwnBlocksSent'
  BY <1>1, <1>3 DEF Unspent, OwnBlocksSent, SentIfOwn, Known
<1>6. CandidateUnspent' /\ NoNullifierCollision'
  BY <1>1, <1>2, <1>3, <1>4 DEF Unspent, CandidateUnspent, NoNullifierCollision
<1> QED
  BY <1>2, <1>5, <1>6 DEF Unspent

LEMMA ElectUnspent == Unspent /\ Elect => Unspent'
<1> SUFFICES ASSUME Unspent, Elect PROVE Unspent'
  OBVIOUS
<1>1. /\ pc = "grace" /\ pc' = "elected" /\ winner' \in Winners(pending[cur.height + 1])
      /\ pending' = RetainAbove(pending, cur.height + 1)
      /\ UNCHANGED <<store, spent, cur, peer, handler, sent>>
  BY DEF Elect, disk
<1>2. Coherent' /\ cur.height \in Nat /\ cur.height + 1 \in Heights
  BY <1>1, ElectKeeps, BoundAssumption, SMTT(40)
     DEF Unspent, Coherent, RoomToElect, TypeOK, Points, Heights
<1>3. OwnBlocksSent'
  BY <1>1, <1>2 DEF Unspent, OwnBlocksSent, SentIfOwn, Known, RetainAbove, Winners
<1>4. \A h \in Heights : h > cur.height + 1 => pending[h] = {}
  BY <1>1, <1>2 DEF Unspent, CandidateUnspent
<1>5. CandidateUnspent' /\ NoNullifierCollision'
  BY <1>1, <1>2, <1>4
     DEF Unspent, CandidateUnspent, Winners, RetainAbove, NoNullifierCollision
<1> QED
  BY <1>2, <1>3, <1>5 DEF Unspent

\* A restart spends the rows of the store, all of them sent if they are own.
LEMMA RestartUnspent == Unspent /\ Restart => Unspent'
<1> SUFFICES ASSUME Unspent, Restart PROVE Unspent'
  OBVIOUS
<1>1. /\ pc' = "catchup" /\ pending' = [h \in Heights |-> {}] /\ spent' = AllNullifiers
      /\ handler' = [h \in Handlers |-> Idle] /\ peer' = NoBlock
      /\ winner' = NoBlock /\ UNCHANGED <<store, sent>>
  BY DEF Restart, ResumeFrom, disk
<1>2. Coherent'
  BY RestartKeeps DEF Unspent
<1>3. OwnBlocksSent'
  BY <1>1 DEF Unspent, OwnBlocksSent, SentIfOwn, AllNullifiers
<1>4. CandidateUnspent' /\ NoNullifierCollision'
  BY <1>1 DEF CandidateUnspent, NoNullifierCollision
<1> QED
  BY <1>2, <1>3, <1>4 DEF Unspent

LEMMA UnspentStep == ~ExternalClaims /\ Unspent /\ [Next]_vars => Unspent'
<1> SUFFICES ASSUME ~ExternalClaims, Unspent, [Next]_vars PROVE Unspent'
  OBVIOUS
<1>1. Coherent'
  BY CoherentStep DEF Unspent
<1>2. CASE CatchUp \/ ReconcileForward \/ RollBack \/ SkipSync \/ SyncEnd
  <2>1. /\ UNCHANGED <<pending, spent, winner, handler, sent>>
        /\ pc \in {"catchup", "top", "sync"} /\ pc' \in {"sync", "rolled", "mine"}
        /\ \A h \in Heights : store'[h] # NoBlock => store'[h] = store[h]
    BY <1>2 DEF CatchUp, ReconcileForward, SyncFrom, RollBack, RowsUpTo, SkipSync, SyncEnd, disk
  <2>2. peer' # NoBlock => Known(peer') /\ Known(peer)'
    BY <1>2 DEF CatchUp, ReconcileForward, SyncFrom, RollBack, SkipSync, SyncEnd, disk,
                HeavierPeers, Known, Unspent, OwnBlocksSent
  <2>3. OwnBlocksSent'
    BY <2>1, <2>2 DEF Unspent, OwnBlocksSent, SentIfOwn
  <2>4. CandidateUnspent' /\ NoNullifierCollision'
    BY <2>1 DEF Unspent, CandidateUnspent, NoNullifierCollision
  <2> QED
    BY <1>1, <2>3, <2>4 DEF Unspent
<1>3. CASE PublishRollBack \/ SyncApply
  <2>1. /\ UNCHANGED <<store, spent, winner, peer, handler, sent>>
        /\ pc \in {"rolled", "sync"} /\ pc' \in {"sync", "synced"}
        /\ \A h \in Heights : pending'[h] \subseteq pending[h]
    BY <1>3 DEF PublishRollBack, SyncApply, RetainAbove, disk
  <2>2. OwnBlocksSent' /\ CandidateUnspent' /\ NoNullifierCollision'
    BY <2>1 DEF Unspent, OwnBlocksSent, SentIfOwn, Known, CandidateUnspent, NoNullifierCollision
  <2> QED
    BY <1>1, <2>2 DEF Unspent
<1>4. CASE SyncStore \/ (\E b \in Block : Mine(b)) \/ Elect \/ Restart
  BY <1>4, SyncStoreUnspent, MineUnspent, ElectUnspent, RestartUnspent
<1>5. CASE ApplyWinner \/ SaveChainState
  <2>1. /\ UNCHANGED <<store, pending, spent, winner, peer, handler, sent>>
        /\ pc \in {"elected", "stored"} /\ pc' \in {"applied", "recorded"}
    BY <1>5 DEF ApplyWinner, SaveChainState
  <2>2. OwnBlocksSent' /\ CandidateUnspent' /\ NoNullifierCollision'
    BY <2>1 DEF Unspent, OwnBlocksSent, SentIfOwn, Known, CandidateUnspent, NoNullifierCollision
  <2> QED
    BY <1>1, <2>2 DEF Unspent
<1>6. CASE StoreWinner \/ Publish
  <2>1. /\ UNCHANGED <<pending, peer, handler, sent>>
        /\ pc \in {"applied", "recorded"} /\ pc' \in {"stored", "top"}
        /\ store' \in {store, [store EXCEPT ![cur.height + 1] = winner]}
        /\ spent' \in {spent, spent \cup {winner}}
        /\ pc' = "stored" => UNCHANGED <<winner, spent>>
    BY <1>6 DEF StoreWinner, Publish, disk
  <2>2. SentIfOwn(winner) /\ TypeOK
    BY <2>1, HeaderHeights DEF Unspent, Coherent, WinnerIsNext, OwnBlocksSent
  <2>3. winner' # NoBlock => winner' = winner
    BY <1>6 DEF StoreWinner, Publish
  <2>4. OwnBlocksSent'
    BY <2>1, <2>2, <2>3 DEF Unspent, OwnBlocksSent, SentIfOwn, Known, TypeOK
  <2>5. CandidateUnspent' /\ NoNullifierCollision'
    BY <2>1 DEF Unspent, CandidateUnspent, NoNullifierCollision
  <2> QED
    BY <1>1, <2>4, <2>5 DEF Unspent
<1>7. CASE Panic
  BY <1>7 DEF Panic, Unspent, CandidateUnspent
<1>8. CASE ClaimHandler
  BY <1>8 DEF ClaimHandler, CheckTip, CheckRoot, Admit, Unspent, CandidateUnspent, Idle
<1>9. CASE Crash \/ UNCHANGED vars
  <2>1. /\ UNCHANGED <<store, pending, spent, winner, peer, handler, sent, cur>>
        /\ pc' \in {"down", pc}
    BY <1>9 DEF Crash, vars, disk
  <2>2. OwnBlocksSent' /\ CandidateUnspent' /\ NoNullifierCollision'
    BY <2>1 DEF Unspent, OwnBlocksSent, SentIfOwn, Known, CandidateUnspent, NoNullifierCollision
  <2> QED
    BY <1>1, <2>2 DEF Unspent
<1> QED
  BY <1>2, <1>3, <1>4, <1>5, <1>6, <1>7, <1>8, <1>9 DEF Next, MiningTask, AtBound

\* Without rollbacks and restarts everything spent is at or below the tip, and
\* the winner is above it.
SpentBelow == pc \notin {"down", "panicked"} /\ \A b \in spent : Height(b) <= cur.height

LEMMA SpentBelowStep ==
  /\ OneHistory /\ MaxCrashes = 0
  /\ Grounded /\ SpentBelow /\ [Next]_vars
  => SpentBelow'
<1> SUFFICES ASSUME OneHistory, MaxCrashes = 0, Grounded, SpentBelow, [Next]_vars
             PROVE  SpentBelow'
  OBVIOUS
<1>1. /\ cur.height \in Nat /\ spent \subseteq Hash /\ crashes = 0
      /\ \A b \in spent : Height(b) \in Nat
  BY HeaderHeights, BoundAssumption DEF Grounded, Coherent, TypeOK, Points
<1>2. ~Crash /\ ~Restart /\ ~PublishRollBack
  BY <1>1 DEF Crash, Restart, PublishRollBack, SpentBelow, Grounded, PointerBehind
<1>3. ~RollBack
  <2>1. Grounded' /\ RollBack => FALSE
    BY DEF Grounded, PointerBehind, RollBack, OneHistory
  <2> QED
    BY <2>1, GroundedStep DEF Settled
<1>4. ~Panic
  <2>1. pc = "recorded" => Height(winner) = cur.height + 1
    BY DEF Grounded, Coherent, WinnerIsNext
  <2> QED
    BY <1>1, <2>1 DEF Panic, SpentBelow
<1>5. CASE SyncStore
  <2>1. /\ cur'.height = cur.height + 1 /\ spent' = spent \cup {NextOfPeer} /\ pc' = "sync"
        /\ Height(NextOfPeer) = cur.height + 1
    BY <1>5, NextIsBlock DEF SyncStore, Extend, Point, Grounded, Coherent, PeerIsAhead
  <2> QED
    BY <1>1, <2>1 DEF SpentBelow
<1>6. CASE Publish
  <2>1. /\ cur'.height = cur.height + 1 /\ spent' = spent \cup {winner} /\ pc' = "top"
        /\ Height(winner) = cur.height + 1
    BY <1>6 DEF Publish, Extend, Point, Grounded, Coherent, WinnerIsNext
  <2> QED
    BY <1>1, <2>1 DEF SpentBelow
<1>7. CASE CatchUp \/ ReconcileForward \/ SkipSync \/ SyncApply \/ SyncEnd
  BY <1>7 DEF CatchUp, ReconcileForward, SyncFrom, SkipSync, SyncApply, SyncEnd, SpentBelow
<1>8. CASE \/ (\E b \in Block : Mine(b)) \/ Elect \/ ApplyWinner \/ StoreWinner
           \/ SaveChainState
  BY <1>8 DEF Mine, Elect, ApplyWinner, StoreWinner, SaveChainState, SpentBelow
<1>9. CASE ClaimHandler \/ UNCHANGED vars
  BY <1>9 DEF ClaimHandler, CheckTip, CheckRoot, Admit, task, vars, SpentBelow
<1> QED
  BY <1>2, <1>3, <1>4, <1>5, <1>6, <1>7, <1>8, <1>9 DEF Next, MiningTask, AtBound

----------------------------------------------------------------------------
(* The theorems *)

\* The invariant holds in every reachable state of a settled node.
THEOREM AlwaysGrounded == ASSUME Settled PROVE Spec => []Grounded
<1>1. Init => Grounded
  BY GroundedInit
<1>2. Grounded /\ [Next]_vars => Grounded'
  BY GroundedStep
<1> QED
  BY <1>1, <1>2, PTL DEF Spec

\* What the node serves to peers from its store is the history of its own tip,
\* through mining, catch-up, rollbacks, crashes and restarts.
THEOREM ChainAlwaysLinked == ASSUME Settled PROVE Spec => []LinkedChain
<1>1. Grounded => LinkedChain
  BY DEF Grounded, OwnChain, LinkedChain
<1> QED
  BY <1>1, AlwaysGrounded, PTL

\* A restart's chain-state.json never points at a height the store does not
\* have, wherever the process died, as long as no rollback deletes rows.
THEOREM PointerAlwaysInStore == ASSUME OneHistory PROVE Spec => []ResumePointerInStore
<1>1. Grounded => ResumePointerInStore
  BY DEF Grounded, PointerBehind, ResumePointerInStore
<1> QED
  BY <1>1, AlwaysGrounded, PTL DEF Settled

\* Between blocks the balances are those of an execution of the tip's history,
\* also after open_scoped rebuilt them at a lower height or after a crash.
THEOREM LedgerAlwaysOfTip == ASSUME Settled PROVE Spec => []LedgerFollowsTip
<1>1. Grounded => LedgerFollowsTip
  BY DEF Grounded
<1> QED
  BY <1>1, AlwaysGrounded, PTL

\* The winner of an election extends the tip it is executed on.
THEOREM WinnerAlwaysOnParent == ASSUME Settled PROVE Spec => []ElectedOnParent
<1>1. Grounded => ElectedOnParent
  BY DEF Grounded, WinnerOnTip, ElectedOnParent
<1> QED
  BY <1>1, AlwaysGrounded, PTL

\* The node implements DurableChain: its published tip grows block by block,
\* falls back only to where it parted from a heavier peer, less than
\* MAX_AUTO_REORG_DEPTH blocks down and in one epoch, and a restart brings back
\* the block save_chain_state wrote.
THEOREM PromiseKept == ASSUME Settled PROVE Spec => KeepsPromise
<1>1. Init => Promise!Init
  BY PromiseInit
<1>2. Grounded /\ [Next]_vars => [Promise!Next]_<<st.tip, saved.tip, peer>>
  BY PromiseStep
<1> QED
  BY <1>1, <1>2, AlwaysGrounded, PTL DEF Spec, KeepsPromise, Promise!Spec

\* The expect("nullifier collision - impossible on a valid chain") cannot fire
\* when no claim arrives from outside, whatever peers and crashes do, ...
THEOREM NoCollisionAlone == ASSUME ~ExternalClaims PROVE Spec => []NoNullifierCollision
<1>1. Unspent /\ [Next]_vars => Unspent'
  BY UnspentStep
<1>2. Unspent => NoNullifierCollision
  BY DEF Unspent
<1> QED
  BY <1>1, <1>2, UnspentInit, PTL DEF Spec

\* ... nor with claims of others, as long as nothing is rolled back and the
\* process does not die: it takes a restart for a stored winner to win again.
THEOREM NoCollisionInOneRun ==
  ASSUME OneHistory, MaxCrashes = 0
  PROVE  Spec => []NoNullifierCollision
<1>1. Init => SpentBelow
  BY DEF Init, SpentBelow
<1>2. Grounded /\ SpentBelow /\ [Next]_vars => SpentBelow'
  BY SpentBelowStep
<1>3. SpentBelow => NoNullifierCollision
  BY DEF SpentBelow, NoNullifierCollision
<1> QED
  BY <1>1, <1>2, <1>3, AlwaysGrounded, PTL DEF Spec, Settled

==============================================================================
