---------------------------- MODULE MCHeatmapCache ----------------------------
EXTENDS HeatmapCache

CONSTANTS ada, bob, ada1, bob1, r1, r2

TwoRiders == {ada, bob}
TwoTours == {ada1, bob1}
TwoRequests == {r1, r2}
ToursOwner == [t \in TwoTours |-> IF t = bob1 THEN bob ELSE ada]
RequestSymmetry == Permutations({r1, r2})

\* Each map fits the cache of MaxPoints = 2, both together do not.
ToursPoints == [t \in TwoTours |-> IF t = ada1 THEN 2 ELSE 1]

===============================================================================
