SPECIFICATION FairSpec
CONSTANTS
  NetSlots = {1, 2, 4}
  K = 1
  PeerKinds = {"none", "gossip", "ibd"}
  Stake = "none"
  Waiters = {w1, w2}
  MaxSlot = 4
  MaxRuns = 3
  MaxCrashes = 1
INVARIANTS TypeOK FinalityKept LibDurable OnlineLib
PROPERTIES OnlineWakes StopWakes
