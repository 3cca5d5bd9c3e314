SPECIFICATION RetrySpec
CONSTANTS
  s1 = s1
  s2 = s2
  Subjects = {s1}
  Principals = {p1}
  EmailsOf <- OwnEmails
  Ops = {o1, o2}
  NoOp = NoOp
  RevokeIsIdempotent = TRUE
  MaxAccounts = 1
  MaxSessions = 2
  MaxFaults = 2
PROPERTIES
  LockReleased
  RetriedDisconnectCompletes
