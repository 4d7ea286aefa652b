CONSTANTS
  Conn = {r, w, k}
  MaxPage = 2
  NReader = 3
  Scenario <- Concurrent
  r = r
  w = w
  k = k
  MaxFrame = 2
  RetryLimit = 1
  Null = Null
SPECIFICATION Spec
INVARIANTS TypeOK SnapshotRead CommitsSurvive 
PROPERTIES ImplementsSnapshotDb
CHECK_DEADLOCK FALSE
