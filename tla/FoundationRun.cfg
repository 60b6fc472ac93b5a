CONSTANTS
  Runs = {1, 2}
  Updates = 2
  Budget = 2
  Grace = 1
  MaxTime = 4
  Faults = {"learner", "controller", "host", "caller", "outer"}
  MaxFaults = 1
  OuterFrom = 3
  None = None
SPECIFICATION FairSpec
INVARIANTS
  Accounting Consistency
PROPERTY LockComesBack
CHECK_DEADLOCK FALSE
