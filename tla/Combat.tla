------------------------------- MODULE Combat -------------------------------
(***************************************************************************)
(* The arithmetic of a raid: who survives a battle (military.rs,           *)
(* resolve_combat) and what the survivors carry home (economy.rs,          *)
(* split_loot; its loop is LootLoop).  All divisions are of natural        *)
(* numbers, where Rust's / and \div agree; i64 and i128 do not overflow    *)
(* for the at most 1 000 000 spears of an attack.                          *)
(***************************************************************************)
EXTENDS Naturals

AttackPower  == 10    \* of one spear on the attack
DefensePower == 35    \* of one spear on the defence

(* Mutated form of Losses: rounded down.                                   *)
LossesDown(winner, strength, enemy) == (winner * enemy) \div strength

(* The winner's losses: proportional to the strengths, rounded up.         *)
Losses(winner, strength, enemy) ==
  (winner * enemy + strength - 1) \div strength

AttackerWins(a, d) == a * AttackPower > d * DefensePower
DefenderWins(a, d) == a * AttackPower < d * DefensePower

(* What is left of a attacking and of d defending spears.                  *)
AttackersLeft(a, d) ==
  IF d = 0 THEN a
  ELSE IF AttackerWins(a, d)
    THEN a - Losses(a, a * AttackPower, d * DefensePower)
    ELSE 0

DefendersLeft(a, d) ==
  IF d # 0 /\ DefenderWins(a, d)
    THEN d - Losses(d, d * DefensePower, a * AttackPower)
    ELSE 0

-----------------------------------------------------------------------------
AtMost(m, n) == IF m <= n THEN m ELSE n

(* One resource's proportional share of what is taken, rounded down.       *)
Share(take, available, total) == (take * available) \div total

(* Mutated form of Exposed: nothing is hidden.                             *)
ExposedAll(stock, hidden) == stock

(* What of a resource may be taken: all that is not hidden.                *)
Exposed(stock, hidden) == IF stock <= hidden THEN 0 ELSE stock - hidden
=============================================================================
