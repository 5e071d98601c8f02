----------------------------- MODULE MCMapPage -----------------------------
(* Instances of MapPage for TLC.  A behaviour of MapPage is one of         *)
(* AreaLoader and one of AttackOrders, and each property is about one of   *)
(* the two, so that a run lets either half run and leaves the other one    *)
(* where it starts.  Of the villages of others, one may yet be founded.    *)
EXTENDS MapPage, TLC

CONSTANTS v0, v1, v2, i1, i2

Places == (v0 :> 2) @@ (v1 :> 6) @@ (v2 :> 8)

VARIABLE half_run

MCInit ==
  /\ MapPageInit
  /\ half_run \in {"map", "orders"}
  /\ points[v2] = 1
  /\ half_run = "orders" => /\ points[v1] = 1
                            /\ half = CHOOSE h \in Halves : TRUE

SameIds == Permutations(Ids)

MCNext ==
  /\ UNCHANGED half_run
  /\ \/ half_run = "map" /\ AreaNext /\ UNCHANGED orderVars
     \/ half_run = "orders" /\ OrdersNext /\ UNCHANGED areaVars

MCSpec == MCInit /\ [][MCNext]_<<pageVars, half_run>>
=============================================================================
