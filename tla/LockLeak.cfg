SPECIFICATION Spec
CONSTANTS
  Node = {1, 2}
  Leader = 1
  F = 1
  Request = {"t1"}
  ReadOnly = {}
  Call <- RetryOfT1
  Account <- Accounts
  From <- Senders
  To <- Receivers
  Amount <- Amounts
  OpeningBalance = 10
  None = None
  MaxSeq = 1
INVARIANT LocksComeFree
CHECK_DEADLOCK FALSE
