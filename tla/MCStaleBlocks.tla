--------------------------- MODULE MCStaleBlocks ---------------------------
(***************************************************************************)
(* StaleBlocks on a race of two blocks at one height, the block that        *)
(* extends one of them, and a block with too little work.                   *)
(***************************************************************************)
EXTENDS StaleBlocks, TLC

CONSTANTS a, b, next, weak

MCBlocks == {a, b, next, weak}
MCTipSets == {{a}, {a, b}, {next}, {next, a, b}}
MCHeight == (a :> 1) @@ (b :> 1) @@ (next :> 2) @@ (weak :> 2)
MCZeros == (a :> 76) @@ (b :> 44) @@ (next :> 32) @@ (weak :> 31)
MCOnes == (a :> 20) @@ (b :> 7) @@ (next :> 16) @@ (weak :> 3)
MCStamp == (a :> 1000) @@ (b :> 900) @@ (next :> 1500) @@ (weak :> 1400)
MCClock == {1200, 606000}
=============================================================================
