-------------------------- MODULE IdealProduction --------------------------
(***************************************************************************)
(* What the economy promises: resources accumulate without a break, at the *)
(* rate of the buildings as they are at each moment, and an improvement    *)
(* counts from the moment it was planned for, whoever records it and when. *)
(* Amounts are counted in fractions of a unit (Hour fractions are one      *)
(* unit), so nothing is ever rounded.                                      *)
(***************************************************************************)
EXTENDS Integers

CONSTANTS Kinds,       \* of buildings
          Resources,   \* the kinds that produce, each its own resource
          Rate,        \* fractions per unit of time, by level
          Hour,        \* fractions that make a unit
          StartStock, StartLevel, NoUpgrade

VARIABLES clock,   \* the time
          bank,    \* fractions owned, by resource
          level,   \* levels, by kind of building
          plan,    \* the improvement to come, or NoUpgrade
          spent    \* units paid or taken less units received, by resource

vars == <<clock, bank, level, plan, spent>>

Init == /\ clock = 0
        /\ bank  = [r \in Resources |-> StartStock * Hour]
        /\ level = StartLevel
        /\ plan  = NoUpgrade
        /\ spent = [r \in Resources |-> 0]

Raised(k) == [level EXCEPT ![k] = @ + 1]

Tick ==
  /\ clock' = clock + 1
  /\ bank' = [r \in Resources |-> bank[r] + Rate[level[r]]]
  /\ \/ /\ plan # NoUpgrade /\ plan.runAt = clock'
        /\ level' = Raised(plan.kind)
        /\ plan' = NoUpgrade
     \/ /\ plan # NoUpgrade => plan.runAt > clock'
        /\ UNCHANGED <<level, plan>>
  /\ UNCHANGED spent

(* Whole units are spent or received, never more than there are; an        *)
(* improvement may be planned.                                             *)
Change ==
  /\ spent' \in [Resources -> Int]
  /\ bank' = [r \in Resources |-> bank[r] - (spent'[r] - spent[r]) * Hour]
  /\ \A r \in Resources : bank'[r] >= 0
  /\ \/ UNCHANGED plan
     \/ /\ plan = NoUpgrade
        /\ plan'.kind \in Kinds /\ plan'.runAt > clock
  /\ UNCHANGED <<clock, level>>

Next == Tick \/ Change

Spec == Init /\ [][Next]_vars
=============================================================================
