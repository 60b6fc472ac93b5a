SPECIFICATION Spec
CONSTANTS
  r1 = r1
  r2 = r2
  o1 = o1
  o2 = o2
  o3 = o3
  a = a
  b = b
  c = c
  None = None
  Deadline = Deadline
  Interrupted = Interrupted
  Calls <- CrashCalls
  RoleCalls <- CrashRoleCalls
  Name <- MCName
  Workers = 1
  MaxServices = 2
  MaxFutures = 1
  MaxCrashes = 1
  MaxFaults = 1
INVARIANTS AnswersAgree
PROPERTIES ImplementsOnce
CHECK_DEADLOCK FALSE
