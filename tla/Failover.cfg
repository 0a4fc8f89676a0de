SPECIFICATION EstablishedOrRivalsSpec
CONSTANTS
  Node <- ThreeNodes
  F = 1
  InitialLeader = 1
  Request = {r1, r2}
  Account <- OwnAccount
  From <- OwnFrom
  To <- OwnTo
  NoOp = NoOp
  None = None
  MaxSeq = 1
  MaxCampaigns = 3
  MaxKills = 1
INVARIANTS
  TypeOK
  Agreement
  NoOrphanedCalls
  BallotWithinPromise
PROPERTIES
  ExecutionIsFinal
ACTION_CONSTRAINT FocusOnSharedBallot
SYMMETRY RequestSymmetry
CHECK_DEADLOCK FALSE
