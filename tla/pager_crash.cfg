CONSTANTS
  k1 = k1
  k2 = k2
  s1 = s1
  s2 = s2
  v1 = v1
  v2 = v2
  N = 3
  Pass = {k1, k2}
  Salt = {s1}
  SpecSalt <- PlainSpecs
  Value = {v1}
  Zero = Zero
  NoPass = NoPass
  NoSalt = NoSalt
  NoKey = NoKey
  Null = Null
  StorePass = FALSE
  CodecFaults = TRUE
  IOFaults = TRUE
  RekeyCommitMayFail = TRUE
  ReuseAfterFailedRekey = FALSE
  NoRec = NoRec
  NoPage = NoPage
  NoCtx = NoCtx
  NoTxn = NoTxn
  Failed = Failed
SPECIFICATION FairSpec
INVARIANTS
  TypeOK
  OneKey
  PowerLossSafe
  NoZeroedPageStored
  CacheCoherent

  
