SPECIFICATION Spec
CONSTANTS
  a1 = a1
  a2 = a2
  a3 = a3
  Accounts <- MCAccounts
  NumChars = 0
  Limit = 1
  Exempt = {a3}
  LoginAfterDC = TRUE
  Tolerance = FALSE
  MaxSessions = 4
  NoAccount = NoAccount
SYMMETRY AccountSymmetry
INVARIANTS
  QueueAlive
  LimitHolds
  NoRoomUnused
CHECK_DEADLOCK FALSE
