SPECIFICATION FairSpec
CONSTANTS
  r1 = r1
  r2 = r2
  s1 = s1
  s2 = s2
  Controller = Controller
  NoOne = NoOne
  Requests = {r1}
  Sources = {s1, s2}
  MaxChanges = 2
  MaxRotations = 1
  MaxFaults = 1
CHECK_DEADLOCK FALSE
PROPERTIES
  RefreshEnds
  LockReleased
