SPECIFICATION Spec
CONSTANTS
  Self = self
  Other = other
  Miners = {self, other}
  Handlers = {h1}
  NoBlock = NoBlock
  NoMiner = NoMiner
  Hash <- MCHash
  Genesis <- MCGenesis
  Prev <- MCPrev
  Height <- MCHeight
  Miner <- MCMiner
  Path <- MCPath
  Better <- MCBetter
  Labels = {1, 2, 4}
  MaxHeight = 3
  ReorgDepth = 3
  ExternalClaims = TRUE
  DivergentPeers = TRUE
  MaxCrashes = 0
INVARIANT ElectedOnParent
