CONSTANTS
  c1 = c1
  c2 = c2
  a = a
  b = b
  Conn = {c1, c2}
  File = {a, b}
  Handle <- Handles
  Rivals <- OnSameFile
  Scenario <- Recoverable
  MaxTx = 3
  Torn = Torn
  Null = Null
SPECIFICATION Spec
INVARIANTS TypeOK AtomicCommit  ReadsCommitted
CHECK_DEADLOCK FALSE
