CONSTANTS
  Thread = {t1, t2}
  AppProvider = {p1, p2}
  HeapSteps = 2
  MaxCalls = 3
  MaxInits = 2
  Failures = {"early", "late"}
  Null = Null
SPECIFICATION FairSpec
INVARIANTS TypeOK InitMutexCounted OneInitialiser CodecLive  NothingLeft
PROPERTIES InitReturns
CHECK_DEADLOCK FALSE
