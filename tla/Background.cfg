SPECIFICATION BackgroundSpec
CONSTANTS
  Request <- TwoRequests
  Job = "job"
  DeletionMaxFaults = 1
  OldPhoto <- OneOldPhoto
  NewPhoto <- OneNewPhoto
  MaxFaults = 1
  Parses <- FourParses
  Mixes <- OneOfEach
  MaxParses = 2
  Recordings <- AllFiles
  MoreRecordings <- OneFile
  Unknown = Unknown
  LastPosition = 10
  Grain = 2
  MaxTrackPoints = 5
  MaxSegments = 2
  Noise = 3
  SpeedFloor = 2
  PointBudget = 6
  MinPointsPerTour = 3
  TracksPerRider = 2
INVARIANTS
  DataKept
  ParsesServed
  RideKept
PROPERTIES
  QueuedEndsOrRefused
  RerunsConverge
  EveryParseEnds
CHECK_DEADLOCK FALSE
