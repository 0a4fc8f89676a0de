SPECIFICATION FairSpec
CONSTANTS
  Node <- ThreeNodes
  F = 1
  InitialLeader = 1
  Request = {r1}
  Account <- OwnAccount
  From <- OwnFrom
  To <- OwnTo
  NoOp = NoOp
  None = None
  MaxSeq = 1
  MaxCampaigns = 1
  MaxKills = 1
INVARIANTS
  ReplyIsDurable
  StableLeaderInv
  FirstViewInv
PROPERTIES
  EveryRequestIsAnswered
CHECK_DEADLOCK FALSE
