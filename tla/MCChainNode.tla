---------------------------- MODULE MCChainNode ----------------------------
(***************************************************************************)
(* Block hashes for model checking: a hash is the sequence of labels of its *)
(* history.  Odd labels are blocks of this node, even labels those of       *)
(* another miner; the larger label wins an election.                        *)
(***************************************************************************)
EXTENDS ChainNode, Sequences

CONSTANTS Labels, Other

MCHash == UNION {[1..n -> Labels] : n \in 0..MaxHeight}
MCGenesis == <<>>
MCPrev(b) == SubSeq(b, 1, Len(b) - 1)
MCHeight(b) == Len(b)
MCMiner(b) == IF b[Len(b)] % 2 = 1 THEN Self ELSE Other
PathOf == [b \in MCHash |-> {SubSeq(b, 1, n) : n \in 1..Len(b)}]
MCPath(b) == PathOf[b]
MCBetter(c, d) == c[Len(c)] > d[Len(d)]

=============================================================================
