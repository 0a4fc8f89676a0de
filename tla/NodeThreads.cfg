SPECIFICATION FairSpec
CONSTANTS
  Node = {1, 2}
  Leader = 1
  F = 1
  Request = {"t1", "t2", "t3", "rd"}
  ReadOnly = {"rd"}
  Call <- AllCalls
  Account <- Accounts
  From <- Senders
  To <- Receivers
  Amount <- Amounts
  OpeningBalance = 10
  None = None
  MaxSeq = 3
PROPERTY EveryCallEnds
INVARIANTS
  TypeOK
  ExecutedOnce
  AnsweredOnce
  NothingLeftBehind
  LeaderIsSerial
  LeaderNeverOverdraws
ACTION_CONSTRAINT BackupsLast
CHECK_DEADLOCK FALSE
