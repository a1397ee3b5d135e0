CONSTANTS
  r1 = r1
  r2 = r2
  r3 = r3
  r4 = r4
  r5 = r5
  Request <- ThreeRequests
  MaxImages = 1
  MaxAppendAttempts = 2
  MaxReplaceAttempts = 2
  Faults = {"error", "ackLost"}
SPECIFICATION Spec
SYMMETRY RequestSymmetry
INVARIANTS
  TourWhole
