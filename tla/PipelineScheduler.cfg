CONSTANTS
  N = 3
  Service = 1
  Portfolio = 2
  ExpiryGrace = 1
  Envelope = 1
  Capacity = 4
  MaxRequests = 2
  Policies <- MCPolicies
  Generation = Generation
  None = None
SPECIFICATION FairSpec
INVARIANTS
  Settlement Drained
PROPERTIES
  SettledForGood RoundRobin DriveEnds
CHECK_DEADLOCK FALSE
