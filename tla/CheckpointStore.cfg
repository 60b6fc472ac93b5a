SPECIFICATION FairSpec
CONSTANTS
  MaxGeneration = 3
  MaxCrashes = 2
  MaxDamage = 2
  None = None
INVARIANT Safe
PROPERTIES NoRollback GenerationsFresh RecoveryEnds
CHECK_DEADLOCK FALSE
