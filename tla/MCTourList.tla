------------------------------ MODULE MCTourList ------------------------------
(* The least instance for TLC of a list that is loaded again.                 *)
EXTENDS TourList

OneTour == {"t1"}

===============================================================================
