SPECIFICATION Spec
CONSTANTS
  r1 = r1  r2 = r2  k1 = k1   u1 = u1  u2 = u2  junk = junk
  Request <- TwoRequests
  Key <- OneKey
  Junk = junk
  Uri <- OneUri
  Ttl = 3
  MinRefresh = 2
  MaxStaleness = 4
  Timeout = 1
  MaxTime = 4
SYMMETRY RequestSymmetry
PROPERTIES OutagesAreNo401
