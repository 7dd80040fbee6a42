SPECIFICATION IndexFairSpec
CONSTANTS
  p1 = p1 p2 = p2 q1 = q1 v1 = v1 v2 = v2 w1 = w1
  Paths = {p1, p2}
  Vaults = {v1}
  VaultOf <- OneVault
  Indexers = {w1}
  Operator = Operator
  MaxPublications = 3
  MaxDisturbances = 1
INVARIANTS
  IndexAgrees
PROPERTIES
  MarkerAdvances
  HeadIsServed
CHECK_DEADLOCK FALSE
