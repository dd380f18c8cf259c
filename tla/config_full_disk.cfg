CONSTANTS
  Keys = {"k1", "k2"}
  LeaderKey = "k1"
  Documents <- MCDocuments
  Requests <- MCRequests
  LosesFlush = TRUE
  MaxCalls = 2
  MaxEdits = 0
  MaxKeyChanges = 0
  MaxKills = 0
SPECIFICATION Spec
PROPERTY FailedWriteKeepsFile
CHECK_DEADLOCK FALSE
