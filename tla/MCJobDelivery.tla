--------------------------- MODULE MCJobDelivery ---------------------------
(* Instances of JobDelivery for TLC.                                       *)
EXTENDS JobDelivery, TLC

Symmetry == Permutations(Dispatchers) \cup Permutations(Requests)
              \cup Permutations(Jobs)
=============================================================================
