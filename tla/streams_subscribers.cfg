SPECIFICATION Spec
CONSTANTS
  Owner = owner
  Subscribers = {sub1}
  K = 1
  MaxRuns = 1
  MaxHeight = 1
PROPERTY OneSubscriber
