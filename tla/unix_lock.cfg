CONSTANTS
  p1 = p1
  p2 = p2
  f1 = f1
  f2 = f2
  f3 = f3
  Proc = {p1, p2}
  File = {f1, f2, f3}
  ProcOf <- TwoOne
  LockDuringClose = FALSE
  MaxFault = 2
  Null = Null
SPECIFICATION FairSpec
INVARIANTS TypeOK LocksKept ReservedSeen DeferredWhileLocked
PROPERTIES ImplementsFileLocks PendingHoldsOff 
