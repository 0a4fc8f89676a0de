SPECIFICATION Spec
CONSTANTS
  Node <- FiveNodes
  Cluster <- TwoClusters
  ClusterOf <- TwoAndThree
  FirstLeader <- FirstNodes
  OwnSlot <- FirstShard
  F = 1
  Txn = {"out"}
  Account <- ThreeItems
  shard_map <- Shards
  sharding_map <- Shards
  From <- Senders
  To <- Receivers
  Amount <- Amounts
  OpeningBalance = 10
  None = None
  MaxSeq = 1
  MaxTimeouts = 0
  MaxKills = 1
  MaxMoveOns = 0
INVARIANTS
  LeadersMatchReplies
ACTION_CONSTRAINT OrderlyUntilKill
CHECK_DEADLOCK FALSE
