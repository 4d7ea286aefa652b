CONSTANTS
  Conn = {r, w, k}
  MaxPage = 2
  NReader = 3
  Scenario <- Faults
  r = r
  w = w
  k = k
  MaxFrame = 4
  RetryLimit = 1
  Null = Null
SPECIFICATION Spec
INVARIANTS SnapshotRead CommitsSurvive
CHECK_DEADLOCK FALSE
