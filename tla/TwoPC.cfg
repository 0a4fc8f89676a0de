SPECIFICATION TimelySpec
CONSTANTS
  Node <- FourNodes
  Cluster <- TwoClusters
  ClusterOf <- Halves
  FirstLeader <- FirstNodes
  OwnSlot <- FirstShard
  F = 1
  Txn = {"out", "back"}
  Account <- ThreeItems
  shard_map <- Shards
  sharding_map <- Shards
  From <- Senders
  To <- Receivers
  Amount <- Amounts
  OpeningBalance = 10
  None = None
  MaxSeq = 2
  MaxTimeouts = 1
  MaxKills = 0
  MaxMoveOns = 1
INVARIANTS
  TypeOK
  Atomicity
  LeadersMatchReplies
  LocksComeFree
  WalIsCurrent
  NobodyWaitsForever
ACTION_CONSTRAINTS OneDisturbance ConfirmAtOnce
CHECK_DEADLOCK FALSE
