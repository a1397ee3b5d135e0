CONSTANTS
  r1 = r1
  r2 = r2
  r3 = r3
  Job = Job
  Request <- ThreeRequests
  DeletionMaxFaults = 2
SPECIFICATION DeletionSpec
SYMMETRY RequestSymmetry
CONSTRAINT PhotoBesideDeletion
INVARIANTS
  AnsweredMeansPurged
  QueueHolds
  NothingOutlivesIdentity
PROPERTIES
  IdentityGoesLast
