SPECIFICATION Spec
CONSTANTS
  r1 = r1
  r2 = r2
  o1 = o1
  o2 = o2
  o3 = o3
  a = a
  b = b
  c = c
  None = None
  Deadline = Deadline
  Interrupted = Interrupted
  Calls <- MCCalls
  RoleCalls <- MCRoleCalls
  Name <- MCName
  Workers = 2
  MaxServices = 3
  MaxFutures = 2
  MaxCrashes = 0
  MaxFaults = 1
INVARIANTS Safe ClosedMeansGone
PROPERTIES EverythingEnds
CHECK_DEADLOCK FALSE
