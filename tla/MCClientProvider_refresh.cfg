SPECIFICATION Spec
CONSTANTS
  r1 = r1
  r2 = r2
  s1 = s1
  s2 = s2
  Controller = Controller
  NoOne = NoOne
  Requests = {r1, r2}
  Sources = {s1, s2}
  MaxChanges = 2
  MaxRotations = 1
  MaxFaults = 1
SYMMETRY SomeRequests
CHECK_DEADLOCK FALSE
INVARIANTS
  TypeOK
  UnblockedSourceCurrent
  ServedIsDurable
  ActiveRowHasItsToken
  NoResurrection
PROPERTIES
  RotationExtends
  AuthorisedIsCurrent
