SPECIFICATION Spec
CONSTANTS
  Request = {"r1", "r2", "r3"}
  Home <- Homes
  NumClusters = 2
  NodesPerCluster = 2
  Script <- TwoSets
  NewSet = NewSet
  FailRow = FailRow
  MaxElections = 0
  MaxMoveOns = 1
PROPERTIES
  BarrierMeansSettled
CHECK_DEADLOCK FALSE
