SPECIFICATION Spec
CONSTANTS
  a = a
  b = b
  Accounts <- MCAccounts
  Funds <- MCFunds
  Txs <- MCTxs
  Handlers = {h1}
  NoTx = NoTx
  MaxPool = 2
  MaxTxs = 2
  ReorgDepth = 2
  MaxHeight = 3
  MaxCrashes = 1
INVARIANT TypeOK
 
INVARIANT ConfirmedLeaves
INVARIANT LivePersisted
PROPERTY CandidateServesSenders
