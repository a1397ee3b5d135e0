CONSTANTS
  r1 = r1
  r2 = r2
  r3 = r3
  r4 = r4
  r5 = r5
  Request <- FiveRequests
  MaxImages = 2
  MaxAppendAttempts = 2
  MaxReplaceAttempts = 2
  Faults = {"error", "crash"}
SPECIFICATION Spec
SYMMETRY RequestSymmetry
CONSTRAINT FewFailures
INVARIANTS
  TypeOK
  TourWhole
  NoDeadEntry
  ImageCap
  AnswersHold
PROPERTIES
  OnlyEditsChangeDetails
  ImplementsLibrary
