SPECIFICATION FairEstablishedSpec
CONSTANTS
  Node <- ThreeNodes
  F = 1
  InitialLeader = 1
  Request = {"r1", "r2"}
  Account <- SharedAccount
  From <- SharedFrom
  To <- SharedTo
  NoOp = NoOp
  None = None
  MaxSeq = 2
  MaxCampaigns = 1
  MaxKills = 1
PROPERTIES
  EveryRequestIsAnswered
  LiveReplicasCatchUp
CHECK_DEADLOCK FALSE
