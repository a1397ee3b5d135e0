SPECIFICATION InstanceSpec
CONSTANTS
  r1 = r1  r2 = r2  r3 = r3
  Request <- ThreeRequests
  ada = ada  bob = bob  ada1 = ada1  bob1 = bob1
  Rider <- TwoRiders
  Tour <- TwoTours
  MapRequest <- TwoRequests
  Owner <- ToursOwner
  Points <- ToursPoints
  MaxPoints = 2
  ann = ann  ben = ben  i1 = i1  i2 = i2
  Uploader <- TwoUploaders
  Instance <- TwoInstances
  Upload <- TwoRequests
  Capacity = 1
  Refill = 2
  Second = 2
  MaxKeys = 1
  MaxTours = 1
  MaxDuration = 1
  MaxTime = 2
  TourIds <- ThreeTours
  MaxPageSize = 3
  Limits = {0, 1, 2, 4}
  Codings <- SomeCodings
  MinCompressed = 2
  Changes = 2
  Allowed = {"name", "text"}
  Names = {"name", "text", "other"}
  FileSizes = {0, 4, 5}
  FieldSizes = {1, 3}
  MaxFileSize = 4
  MaxFieldSize = 2
  Overhead = 6
  MaxParts = 3
SYMMETRY InstanceSymmetry
INVARIANTS
  AnswersWereStored
  MemoSound
  LimitsHold
  PagesSound
  WholeOrRefused
PROPERTIES
  OnlyUpdatesOverwrite
  MapsComplete
CHECK_DEADLOCK FALSE
