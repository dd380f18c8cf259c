SPECIFICATION Spec
CONSTANTS
  Owner = owner
  Subscribers = {}
  K = 1
  MaxRuns = 1
  MaxHeight = 1
INVARIANT LateCallbackIgnored
