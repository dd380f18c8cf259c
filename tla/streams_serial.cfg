SPECIFICATION FairSpec
CONSTANTS
  Owner = owner
  Subscribers = {}
  K = 1
  MaxRuns = 2
  MaxHeight = 3
INVARIANTS
  TypeOK
  StopIsFinal
  FlagAccurate
PROPERTIES
  StartSubscribesAll
  StopReturns
  EndClearsFlag
  FeedSpec
