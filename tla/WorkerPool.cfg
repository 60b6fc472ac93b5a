SPECIFICATION Spec
CONSTANTS
  a = a
  b = b
  c = c
  s1 = s1
  s2 = s2
  None = None
  Calls = {a, b, c}
  Asks <- MCAsks
  Slots = {s1, s2}
  Limit = 2
  MaxPools = 2
  MaxFaults = 1
SYMMETRY Symmetry
INVARIANTS Safe SlotsAccounted PermitsConserved AnswersAgree
CHECK_DEADLOCK FALSE
