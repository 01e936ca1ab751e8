SPECIFICATION Spec
CONSTANTS
  a = a
  b = b
  c = c
  Nodes <- MCNodes
  Outside = {x}
  Entries <- MCEntries
  Seeds <- MCSeeds
  Contacts <- MCContacts
  Ttl = 2
  MaxPeers = 2
  MaxSeen = 2
  MaxHeight = 1
  MaxClaims = 2
  MaxLost = 1
INVARIANT TypeOK
 
INVARIANT EveryoneHears
