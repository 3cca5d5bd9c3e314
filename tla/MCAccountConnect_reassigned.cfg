SPECIFICATION Spec
CONSTANTS
  s1 = s1
  s2 = s2
  Subjects = {s1,s2}
  Principals = {p1}
  EmailsOf <- ReassignedEmails
  Ops = {o1, o2}
  NoOp = NoOp
  RevokeIsIdempotent = FALSE
  MaxAccounts = 2
  MaxSessions = 3
  MaxFaults = 1
SYMMETRY OpSymmetry
INVARIANTS
  OneConnectionPerIdentity
  LockDiscipline
