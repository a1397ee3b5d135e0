---------------------------- MODULE MCTourStore ----------------------------
(* Instances of TourStore for TLC. *)
EXTENDS TourStore, TLC

CONSTANTS r1, r2, r3, r4, r5

ThreeRequests == {r1, r2, r3}
FiveRequests == {r1, r2, r3, r4, r5}

\* Requests differ only by the handler they run.
RequestSymmetry == Permutations(Request)

\* Bound of a run: any number of up to four requests fail or are stopped, one of five.
Failures == Cardinality({r \in Request : call[r].answer \in {"failed", "crashed"}})
FewFailures == (\A r \in Request : call[r].pc # "idle") => Failures <= 1

=============================================================================
