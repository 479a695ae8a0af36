SPECIFICATION FairSpec
CONSTANTS
  a1 = a1
  a2 = a2
  a3 = a3
  Accounts = {a1}
  NumChars = 2
  Limit = 0
  Exempt = {}
  LoginAfterDC = TRUE
  Tolerance = TRUE
  MaxSessions = 4
  NoAccount = NoAccount
INVARIANTS
  OneOwner
  
  OnePlayerPerAccount
  AllLoggedOut
PROPERTIES
  ClosedGoes
CHECK_DEADLOCK FALSE
