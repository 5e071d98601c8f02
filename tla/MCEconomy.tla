----------------------------- MODULE MCEconomy -----------------------------
(* Instances of Economy for TLC.                                           *)
EXTENDS Economy, TLC

CONSTANTS wood, iron, farm

(* A mine that stands still until it is built, and grows unevenly.         *)
SmallRates == (0 :> 0) @@ (1 :> 2) @@ (2 :> 5)

(* The iron mine has one level less.                                       *)
SmallLevels == (wood :> 2) @@ (iron :> 1) @@ (farm :> 2)

(* The wood is produced from the start, the iron is not.                   *)
WoodOnly == (wood :> 1) @@ (iron :> 0) @@ (farm :> 1)

(* An iron mine needs a farm of level 2.                                   *)
IronNeedsFarm == (wood :> {}) @@ (iron :> {<<farm, 2>>}) @@ (farm :> {})

OneWood == (wood :> 1) @@ (iron :> 0)

OneEach == (wood :> 1) @@ (iron :> 1)

TwoEach == (wood :> 2) @@ (iron :> 2)

SmallLoots == {OneEach}
=============================================================================
