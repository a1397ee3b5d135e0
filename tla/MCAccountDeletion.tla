-------------------------- MODULE MCAccountDeletion --------------------------
\* The requests of the runs of AccountDeletion.
EXTENDS AccountDeletion, TLC

CONSTANTS r1, r2, r3

TwoRequests   == {r1, r2}
ThreeRequests == {r1, r2, r3}

\* newId() only has to be fresh.
RequestSymmetry == Permutations(Request)

\* Bound of a run: any two requests with two faults, or the upload of a tour and of a photo to it
\* and a deletion with one.
PhotoBesideDeletion ==
  (\A r \in Request : call[r].pc # "idle") =>
    /\ {call[r].op : r \in Request} = {"uploadTour", "uploadImage", "deleteAccount"}
    /\ deletionFaults <= 1

=============================================================================
