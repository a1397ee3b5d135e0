SPECIFICATION TourListSpec
CONSTANTS
  Tours <- OneTour
  Loads = 2
  Removals = 1
  NoTour = "none"
  DeleteConcurrency = 1
INVARIANT PendingStaysHidden
CHECK_DEADLOCK FALSE
