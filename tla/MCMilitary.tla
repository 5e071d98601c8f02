----------------------------- MODULE MCMilitary -----------------------------
(* Instances of Military for TLC.                                          *)
EXTENDS Military, TLC

CONSTANTS v1, v2

(* Neighbours are one unit of time apart.                                  *)
OneUnit == [p \in Villages \X Villages |-> 1]

(* v1 starts with more spears than its farm feeds, v2 with fewer.          *)
SmallFarms == <<4, 6>>
SmallArmies == v1 :> 5 @@ v2 :> 5
SmallStartFarm == v1 :> 1 @@ v2 :> 2
=============================================================================
