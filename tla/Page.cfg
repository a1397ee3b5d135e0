SPECIFICATION PageSpec
CONSTANTS
  Tours <- TwoTours
  Loads = 1
  Removals = 1
  NoTour = "none"
  DeleteConcurrency = 1
  Pinned <- PinnedPhotos
  Plain <- PlainPhotos
  Objects = 1
  MapLoads = 2
  DetailLoads = 1
  Removed = 1
  Files <- TwoPhotos
  UploadConcurrency = 1
  MaxTourImages = 2
  Batches = 2
  Visits = 2
  Attempts = 2
  Chosen = 2
  Submits = 3
  Requests <- AllRequests
  Shell <- TwoFiles
  Deploys = 2
INVARIANTS
  UploadsSound
  SessionSound
  OfflineSound
PROPERTIES
  TilesKept
  PageSettles
CHECK_DEADLOCK FALSE
