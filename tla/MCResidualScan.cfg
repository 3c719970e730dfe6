SPECIFICATION FairScanSpec
CONSTANTS
  e1 = e1
  e2 = e2
  c1 = c1
  c2 = c2
  Encoder <- MCEncoder
  Cluster <- MCCluster
  NoCluster = NoCluster
  Pages = 2
  Batch = 1
INVARIANTS
  CountBracketed
  NeverClearedBlindly
PROPERTIES
  ResidualsEnd
CHECK_DEADLOCK FALSE
