SPECIFICATION Spec
CONSTANTS
  Node <- FourNodes
  Cluster <- TwoClusters
  ClusterOf <- Halves
  FirstLeader <- FirstNodes
  OwnSlot <- FirstShard
  F = 1
  Txn = {"out"}
  Account <- ThreeItems
  shard_map <- Shards
  sharding_map <- Shards
  From <- Senders
  To <- Receivers
  Amount <- Amounts
  OpeningBalance = 10
  None = None
  MaxSeq = 1
  MaxTimeouts = 0
  MaxKills = 0
  MaxMoveOns = 0
INVARIANTS
  ReplicasMatchReplies
CHECK_DEADLOCK FALSE
