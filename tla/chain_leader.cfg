SPECIFICATION Spec
CONSTANTS
  NetSlots = {1,2,4}
  K = 1
  PeerKinds = {"gossip"}
  Stake = "aged"
  Waiters = {}
  MaxSlot = 6
  MaxRuns = 3
  MaxCrashes = 0
INVARIANT FinalityKept
