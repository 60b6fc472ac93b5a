SPECIFICATION Spec
CONSTANTS
  Tokens <- MCTokens
  Cap = 5
  Milestones <- MCMilestones
  MaxSaves = 12
  MaxInvocations = 4
  None = None
INVARIANTS Safe WorkIsCharged MilestonesExact Resumable
PROPERTIES NeverRefunded
CHECK_DEADLOCK FALSE
