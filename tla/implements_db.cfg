CONSTANTS
  k1 = k1
  k2 = k2
  s1 = s1
  s2 = s2
  v1 = v1
  v2 = v2
  N = 2
  Pass = {k1, k2}
  Salt = {s1}
  SpecSalt <- PlainSpecs
  Value = {v1, v2}
  Zero = Zero
  NoPass = NoPass
  NoSalt = NoSalt
  NoKey = NoKey
  Null = Null
  StorePass = TRUE
  CodecFaults = TRUE
  IOFaults = TRUE
  RekeyCommitMayFail = FALSE
  ReuseAfterFailedRekey = FALSE
  NoRec = NoRec
  NoPage = NoPage
  NoCtx = NoCtx
  NoTxn = NoTxn
  Failed = Failed
SPECIFICATION Spec
INVARIANTS
  AppKeyOpens
PROPERTIES
  OnlyCommitChanges
  ImplementsDb
SYMMETRY Symmetry
