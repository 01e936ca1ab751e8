SPECIFICATION Spec
CONSTANTS
  Self = self
  Other = other
  Miners = {self, other}
  Handlers = {h1}
  NoBlock = NoBlock
  NoMiner = NoMiner
  Hash <- MCHash
  Genesis <- MCGenesis
  Prev <- MCPrev
  Height <- MCHeight
  Miner <- MCMiner
  Path <- MCPath
  Better <- MCBetter
  Labels = {1, 2, 4}
  MaxHeight = 5
  ReorgDepth = 3
  ExternalClaims = FALSE
  DivergentPeers = TRUE
  MaxCrashes = 0
INVARIANT WorkIsOfTip
INVARIANT LinkedChain
INVARIANT LedgerFollowsTip
PROPERTY KeepsPromise
