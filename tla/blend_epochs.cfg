SPECIFICATION Spec
CONSTANTS
  EpochSlots = 2
  InactivityPeriod = 1
  Providers = 1
  MinimumNetworkSize = 2
  ZkKnown = TRUE
  Busy = {0, 1, 3, 4}
  LastSlot = 9
  MaxEmpty = 1
  MaxJoins = 1
  MaxStarts = 2
  MaxSaves = 1
INVARIANTS
  CoreSetRule
  RewardOnTime
  EarnedOnly
  NoncesGrow
CHECK_DEADLOCK FALSE
