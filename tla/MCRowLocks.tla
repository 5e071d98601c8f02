----------------------------- MODULE MCRowLocks -----------------------------
(* Instances of RowLocks for TLC.                                          *)
EXTENDS RowLocks, TLC

Fight(kind, v, w) == [kind |-> kind, from |-> v, to |-> w]

(* Two villages raid each other, one of them trains or builds.             *)
MutualRaids == {Fight("arrive", 1, 2), Fight("arrive", 2, 1),
                Fight("return", 1, 2), Fight("home", 2, 2)}

(* A raid against the order of the rows, and an army on its way home.       *)
RaidAndReturn == {Fight("arrive", 2, 1), Fight("return", 1, 2)}

BothWays == {<<1, 2>>, <<2, 1>>}
=============================================================================
