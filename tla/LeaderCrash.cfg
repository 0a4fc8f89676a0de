SPECIFICATION CrashedSpec
CONSTANTS
  Node <- ThreeNodes
  F = 1
  InitialLeader = 1
  Request = {"r1", "r2"}
  Account <- OwnAccount
  From <- OwnFrom
  To <- OwnTo
  NoOp = NoOp
  None = None
  MaxSeq = 2
  MaxCampaigns = 2
  MaxKills = 1
INVARIANTS
  LeaderLogHasNoGaps
  AppliedIsPrefix
  CommitFindsEntry
  ClaimIsLogged
PROPERTIES
  RefinesReplicatedLog
ACTION_CONSTRAINT FirstLeaderStaysDown
CHECK_DEADLOCK FALSE
