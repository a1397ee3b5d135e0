SPECIFICATION HeatmapSpec
CONSTANTS
  ada = ada  bob = bob  ada1 = ada1  bob1 = bob1  r1 = r1  r2 = r2
  Rider <- TwoRiders
  Tour <- TwoTours
  MapRequest <- TwoRequests
  Owner <- ToursOwner
  Points <- ToursPoints
  MaxPoints = 2
SYMMETRY RequestSymmetry
INVARIANT CacheBounded
