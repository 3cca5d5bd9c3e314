SPECIFICATION Spec
CONSTANTS
  c1 = c1
  c2 = c2
  c3 = c3
  Calls = {c1}
  Kinds = {"search", "api", "update", "send", "author"}
  Limits = {1, 2, 3, 4}
  RuntimeSlots = 1
  ApiSlots = 2
  Max429 = 1
  Max5xx = 1
CHECK_DEADLOCK FALSE
INVARIANTS
  TypeOK
  FailureIsHonest
  SuccessIsHonest
  NoReplay
  BudgetKept
  PopulationFunded
PROPERTIES
  WorkersStop
