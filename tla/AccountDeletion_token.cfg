CONSTANTS
  r1 = r1
  r2 = r2
  r3 = r3
  Job = Job
  Request <- TwoRequests
  DeletionMaxFaults = 0
SPECIFICATION TokenSpec
SYMMETRY RequestSymmetry
PROPERTIES
  NothingCreatedForNobody
