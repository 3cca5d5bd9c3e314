SPECIFICATION Spec
CONSTANTS
  s1 = s1
  s2 = s2
  Subjects = {s1}
  Principals = {p1,p2}
  EmailsOf <- OwnEmails
  Ops = {o1, o2}
  NoOp = NoOp
  RevokeIsIdempotent = FALSE
  MaxAccounts = 2
  MaxSessions = 3
  MaxFaults = 2
SYMMETRY OpSymmetry
INVARIANTS
  TypeOK
  ActiveConnectionUsable
  NoStrandedToken
  CachedClientsCurrent
PROPERTIES
  RetryTokenKept
  ImplementsLifecycle
