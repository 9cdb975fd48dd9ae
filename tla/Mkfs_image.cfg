SPECIFICATION Spec
CONSTANTS
  Nodes = {n1, n2, n3, n4}
  Hidden = {n4}
  Top = Top
  TotalClusters = 8
  DirSize = 4
  ClusterSize = 2
  Sizes = {0, 3}
  None = None
CHECK_DEADLOCK FALSE
INVARIANTS
  ImageIsCopy
  ClustersApart
