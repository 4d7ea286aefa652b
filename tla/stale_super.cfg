CONSTANTS
  c1 = c1
  c2 = c2
  a = a
  b = b
  Conn = {c1, c2}
  File = {a, b}
  Handle <- Handles
  Rivals <- OnSameFile
  Scenario <- LeftBehind
  MaxTx = 3
  Torn = Torn
  Null = Null
SPECIFICATION Spec
INVARIANT AtomicCommit
CHECK_DEADLOCK FALSE
