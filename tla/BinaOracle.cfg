SPECIFICATION Spec
CONSTANTS
  p1 = p1
  p2 = p2
  gaming = gaming
  b1 = b1
  b2 = b2
  n1 = n1
  n2 = n2
  Accounts = {p1, p2}
  Outputs <- MCOutputs
  Purposes = {gaming, generic}
  Generic = generic
  Zero = Zero
  None = None
  PurposeLists <- MCLists
  Quorums = {1, 2}
  MinBond = 2
  Slash = 1
  Drift = 1
  MaxAge = 168
  Clock = {0, 169}
  Deadlines = {100}
  Asked = {Zero}
  Targets = {2}
  MinHeights = {2}
  MaxBond = 2
  MaxCommitments = 2
  MaxRequests = 1
SYMMETRY Symmetry
INVARIANT TypeOK
INVARIANT BondsBackCommitments
INVARIANT RotationIsBonded
INVARIANT SeedIsHighestFinal
INVARIANT NullifiersDiffer
INVARIANT QuorumDecides
 
CHECK_DEADLOCK FALSE
