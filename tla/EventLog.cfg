SPECIFICATION LogSpec
CONSTANTS
  Events = {a, b, c, d}
  SegmentLines = 2
  Quota = 4
  Faults = {{"power"}, {"kill"}, {"kill", "power", "error"}}
  MaxFaults = 3
  NoEvent = NoEvent
INVARIANTS
  LogSafe
PROPERTIES
  KeepsEvidence
  AppendOnly
CHECK_DEADLOCK FALSE
