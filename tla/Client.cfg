SPECIFICATION FairSpec
CONSTANTS
  Request = {"r1", "r2", "r3"}
  Home <- Homes
  NumClusters = 2
  NodesPerCluster = 2
  Script <- TwoSets
  NewSet = NewSet
  FailRow = FailRow
  MaxElections = 1
  MaxMoveOns = 1
INVARIANTS
  TypeOK
  ExactUntilContinue
  ScheduledUntilContinue
  CachedLeaderIsInCluster
PROPERTIES
  BarrierUntilContinue
  FinishesUnlessContinue
  ScheduledIsSettled
CHECK_DEADLOCK FALSE
