CONSTANTS
  Keys = {"k1", "k2"}
  LeaderKey = "k1"
  Documents <- MCDocuments
  Requests <- MCRequests
  LosesFlush = FALSE
  MaxCalls = 2
  MaxEdits = 1
  MaxKeyChanges = 1
  MaxKills = 1
SPECIFICATION Spec
INVARIANTS TypeOK FailedCallKeepsFile SuccessApplies StaysBootable FullRoundTrip
CHECK_DEADLOCK FALSE
