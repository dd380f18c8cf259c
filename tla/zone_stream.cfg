SPECIFICATION Spec
CONSTANTS
  Listeners = {l1}
  Capacity = 1
  MaxEvents = 3
  MaxHeight = 3
INVARIANT TypeOK
PROPERTIES
  OrderedSpec
  NoSilentGap
  ListenerEnds
  EndReaches
  ItemReaches
CHECK_DEADLOCK FALSE
