SPECIFICATION Spec
CONSTANTS
  c1 = c1
  c2 = c2
  c3 = c3
  Calls = {c1, c2, c3}
  Kinds = {"api"}
  Limits = {1}
  RuntimeSlots = 2
  ApiSlots = 1
  Max429 = 0
  Max5xx = 0
CHECK_DEADLOCK FALSE
INVARIANTS
  SlotsAccounted
PROPERTIES
  EveryCallAnswered
