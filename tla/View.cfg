SPECIFICATION ViewSpec
CONSTANTS
  MaxEntries = 4
  MaxPresses = 2
  Touches = 3
  MapTours = {m1, m2}
  Renders = 3
  Fetches = 2
  Characters <- Letters
  Catalogue <- SomeTours
  Queries <- SomeQueries
  SortKeys <- SomeKeys
  Views <- SomeViews
  ListLength = 3
  RowsPerPage = 1
  UrlEntries = 3
  Exact = 8
  Prefix = 7
  WordStart = 6
  Substring = 4
  Ceiling = 3
  Penalty = 8
  Zones <- SomeZones
  DayLength = 8
  Days = 2
  Tours <- TwoTours
  Loads = 2
  Removals = 1
  NoTour = "none"
  DeleteConcurrency = 1
  Pinned <- PinnedPhotos
  Plain <- PlainPhotos
  Objects = 2
  MapLoads = 1
  DetailLoads = 1
  Removed = 1
SYMMETRY AnyTourAlike
CONSTRAINTS
  FewReloads
  FewRaces
INVARIANTS
  LayersAgree
  TouchesSound
  
  ListSound
  RemovalsSound
  PhotosSound

  
CHECK_DEADLOCK FALSE
