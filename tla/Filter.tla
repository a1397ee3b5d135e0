------------------------------- MODULE Filter -------------------------------
(* Array.prototype.filter: as SelectSeq, but by a set, and as a recursive     *)
(* function, which a proof can look into.                                     *)
EXTENDS Naturals, Sequences

(* The elements of list that are in S, in their order.                       *)
Filtered(list, S) ==
  LET kept[n \in Nat] ==
        IF n = 0 THEN <<>> ELSE IF list[n] \in S THEN Append(kept[n - 1], list[n]) ELSE kept[n - 1]
  IN kept[Len(list)]

=============================================================================
