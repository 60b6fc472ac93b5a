SPECIFICATION Spec
CONSTANTS
  Kind <- MCKind
  Params <- MCParams
  MaxDepth = 5
  MaxTokens = 36
  IntMax = 10
  ControlMax = 10
  Samplers <- MCSamplers
INVARIANTS
  Agreement
  DeadEndsAtTheLimit
CHECK_DEADLOCK FALSE
