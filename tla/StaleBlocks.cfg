SPECIFICATION Spec
CONSTANTS
  a = a
  b = b
  next = next
  weak = weak
  Blocks <- MCBlocks
  TipSets <- MCTipSets
  Height <- MCHeight
  Zeros <- MCZeros
  Ones <- MCOnes
  Stamp <- MCStamp
  Depths = {7, 101}
  Clock <- MCClock
  MinZeros = 32
  MaxAge = 604800
  MaxDepth = 100
  MaxHistory = 2
  MaxTips = 2
  MaxMade = 3
  MaxEvents = 2
INVARIANT TypeOK
INVARIANT IndexesAgree
INVARIANT EveryProofOnce
CHECK_DEADLOCK FALSE
