------------------------------ MODULE LootLoop ------------------------------
(***************************************************************************)
(* split_loot of economy.rs, statement by statement: proportional shares   *)
(* rounded down, then a loop that hands the leftover out one unit at a     *)
(* time, in the order wood, clay, iron, to what can still take some.  The  *)
(* end of the loop body, where it would go round or give up, is the place  *)
(* "full": OnePassIsEnough says that it is never reached.                  *)
(***************************************************************************)
EXTENDS Combat

CONSTANTS MaxCapacity,  \* bound on the carrying capacity of the survivors
          MaxAvailable      \* bound on what the target has of each resource

ASSUME BoundsAssumption == MaxCapacity \in Nat /\ MaxAvailable \in Nat

Kinds == {"wood", "clay", "iron"}

VARIABLES capacity,   \* the argument of that name
          available,  \* the three other arguments
          loot,       \* loot_wood, loot_clay, loot_iron
          remaining,  \* the variable of that name
          at          \* the next statement: "share", a kind, "full" or "done"

lootVars == <<capacity, available, loot, remaining, at>>

Total == available["wood"] + available["clay"] + available["iron"]
Take  == AtMost(capacity, Total)
Taken == loot["wood"] + loot["clay"] + loot["iron"]

LootInit ==
  /\ capacity \in 0..MaxCapacity
  /\ available \in [Kinds -> 0..MaxAvailable]
  /\ loot = [k \in Kinds |-> 0]
  /\ remaining = 0
  /\ at = "share"

(* Nothing can be carried, or there is nothing to carry.                   *)
TakeNothing ==
  /\ at = "share" /\ (capacity = 0 \/ Total = 0)
  /\ at' = "done"
  /\ UNCHANGED <<capacity, available, loot, remaining>>

(* Mutated form of TakeShares: what rounding left is forgotten.            *)
TakeSharesOnly ==
  /\ at = "share" /\ capacity > 0 /\ Total > 0
  /\ loot' = [k \in Kinds |-> Share(Take, available[k], Total)]
  /\ at' = "done"
  /\ UNCHANGED <<capacity, available, remaining>>

TakeShares ==
  /\ at = "share" /\ capacity > 0 /\ Total > 0
  /\ loot' = [k \in Kinds |-> Share(Take, available[k], Total)]
  /\ remaining' = Take - Share(Take, available["wood"], Total)
                       - Share(Take, available["clay"], Total)
                       - Share(Take, available["iron"], Total)
  /\ at' = IF remaining' > 0 THEN "wood" ELSE "done"
  /\ UNCHANGED <<capacity, available>>

After(k) == CASE k = "wood" -> "clay" [] k = "clay" -> "iron" [] OTHER -> "full"

(* Mutated form of HandOut: gives what is not there.                       *)
HandOutBlindly(k) ==
  /\ at = k
  /\ loot' = [loot EXCEPT ![k] = @ + 1]
  /\ remaining' = remaining - 1
  /\ at' = IF remaining' = 0 THEN "done" ELSE After(k)
  /\ UNCHANGED <<capacity, available>>

(* One "if loot < available" of the loop body, with its early break.       *)
HandOut(k) ==
  /\ at = k
  /\ IF loot[k] < available[k]
       THEN /\ loot' = [loot EXCEPT ![k] = @ + 1]
            /\ remaining' = remaining - 1
            /\ at' = IF remaining' = 0 THEN "done" ELSE After(k)
       ELSE at' = After(k) /\ UNCHANGED <<loot, remaining>>
  /\ UNCHANGED <<capacity, available>>

LootNext == TakeNothing \/ TakeShares \/ \E k \in Kinds : HandOut(k)

LootSpec == LootInit /\ [][LootNext]_lootVars

-----------------------------------------------------------------------------
LootTypeOK ==
  /\ capacity \in Nat
  /\ available \in [Kinds -> Nat]
  /\ loot \in [Kinds -> Nat]
  /\ remaining \in Nat
  /\ at \in {"share", "full", "done"} \cup Kinds

(* The raid takes no more of a resource than the target exposes: villages  *)
(* has CHECK (wood >= 0), which an overdrawn loot would run into.          *)
NeverOverdraws == \A k \in Kinds : loot[k] <= available[k]

(* Rounding loses nothing: the army goes home full, or the village empty.  *)
TakesAllItCan == at = "done" => Taken = Take

(* The leftover never needs a second pass of the loop, nor its final       *)
(* "nothing can take more" test: what rounding left fits into the units    *)
(* that the resources from here on can still take.                         *)
OnePassIsEnough == at # "full"
=============================================================================
