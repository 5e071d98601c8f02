---------------------------- MODULE MCPlacement ----------------------------
(* Instances of Placement for TLC.                                         *)
EXTENDS Placement, TLC

CONSTANTS old, ann, bob, cid

(* Five places, of which the village of old takes three.                   *)
SmallGrid == {0, 4} \X {0, 4} \cup {<<4, 8>>}

OneOld == [p \in Players |-> IF p = old THEN <<1, 1>> ELSE Nowhere]
=============================================================================
