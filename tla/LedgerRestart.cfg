SPECIFICATION Spec
CONSTANTS
  Alice = alice
  Bob = bob
  Accounts = {alice, bob}
  Txs <- MCTxs
  Candidates <- MCCandidates
  HardCap = 7
  InitialReward = 4
  HalvingInterval = 2
  MaxHeight = 3
  MaxRows = 6
  MaxReopens = 2
INVARIANT BalancesSurviveRestart
