SPECIFICATION FairSpec
CONSTANTS
  Interval = 3
  EpochSize = 3
  EpochTarget = 6
  MinBits = 1
  MaxBits = 3
  MaxDelta = 1
  Tolerance = 1
  Gaps = {1, 10}
  CoinbaseReplies = {"script"}
  FirstTip = 2
  MaxTip = 3
  MaxHeight = 5
  MaxMined = 4
  MaxCrashes = 1
  Lead = 2
  Seconds = {3}
INVARIANT TypeOK
INVARIANT SeedGovernsHeight
INVARIANT PublishedHeightIsPinned
 
INVARIANT DifficultyIsOfChain
PROPERTY OutageEnds
