---------------------------- MODULE MCBinaOracle ----------------------------
(***************************************************************************)
(* BinaOracle with two blocks; the later one is relayed with two contents,  *)
(* one with the nullifier of the other block.                               *)
(***************************************************************************)
EXTENDS BinaOracle, TLC

CONSTANTS p1, p2, gaming, b1, b2, n1, n2

Output(b, h, n, t, f) == [block |-> b, height |-> h, nullifier |-> n, mined |-> t, falcon |-> f]
MCOutputs ==
  {Output(b1, 1, n1, 0, TRUE), Output(b2, 2, n2, 1, FALSE), Output(b2, 2, n1, 1, TRUE)}
MCLists == {<<Zero>>, <<gaming, Generic>>}
Symmetry == Permutations({p1, p2})
=============================================================================
