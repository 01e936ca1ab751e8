---------------------------- MODULE DurableChain ----------------------------
(***************************************************************************)
(* What a Bina node promises of its chain, without how it keeps it: a tip   *)
(* that others read, a durable block that a restart resumes from, and the   *)
(* rival chain it is comparing itself with.  The tip grows by one block at  *)
(* a time; it falls back only to where it parted from a heavier rival, less *)
(* than Depth blocks down and within an epoch; a restart brings back        *)
(* the durable block and nothing else; and what becomes durable is a block  *)
(* on the tip.                                                              *)
(*                                                                         *)
(* ChainNode implements it: the tip is NodeState's, the durable block is the*)
(* one chain-state.json names.                                              *)
(***************************************************************************)
EXTENDS Integers

CONSTANTS
  Hash, Genesis, NoBlock,
  Prev(_), Height(_), Path(_),   \* as in ChainNode
  Depth                          \* MAX_AUTO_REORG_DEPTH, an epoch less one

VARIABLES tip, durable, rival

Init == tip = Genesis /\ durable = Genesis /\ rival = NoBlock

\* A block is mined or synchronised: it is on the tip.
Grow ==
  /\ tip' # Genesis /\ Prev(tip') = tip
  /\ UNCHANGED <<durable, rival>>

\* The next block is made durable before others see it.
Commit ==
  /\ durable' # Genesis /\ Prev(durable') = tip
  /\ UNCHANGED <<tip, rival>>

\* The blocks on which the tip and its rival agree.
Common == Path(tip) \cap Path(rival)

\* No block is given up that the rival has too.
FallBack ==
  /\ rival # NoBlock
  /\ Height(rival) > Height(tip)
  /\ tip' \in Common
  /\ \A b \in Common : Height(b) <= Height(tip')
  /\ Height(tip) - Height(tip') < Depth
  /\ Height(tip) \div (Depth + 1) = Height(tip') \div (Depth + 1)
  /\ UNCHANGED <<durable, rival>>

Compare ==
  /\ rival' \in Hash \cup {NoBlock}
  /\ UNCHANGED <<tip, durable>>

Recover ==
  /\ tip' = durable
  /\ rival' = NoBlock
  /\ UNCHANGED durable

Next == Grow \/ Commit \/ FallBack \/ Compare \/ Recover

Spec == Init /\ [][Next]_<<tip, durable, rival>>
=============================================================================
