CHECK_DEADLOCK FALSE
SPECIFICATION PartsSpec
SYMMETRY RequestSymmetry
CONSTANTS
  old = old  new = new  k1 = k1  k2 = k2  r3 = r3
  Requests = {r1, r2, r3}
  Kids = {old, new}
  Keys = {k1, k2}
  Tokens <- SomeTokens
  Documents <- Rotations
  Ttl = 1
  FetchTimeout = 1
  MaxTime = 3
  Unusable = Unusable  NoDocument = NoDocument
INVARIANTS
  CacheIsOneDocument
  MissingIsRecent
  RetiredKeyDies
