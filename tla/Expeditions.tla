---------------------------- MODULE Expeditions ----------------------------
(***************************************************************************)
(* What the military part promises about soldiers: each one is at home, or *)
(* with the one army sent by an order, or dead.  An army leaves once,      *)
(* fights once, and whoever survives comes home once, to where it left.    *)
(***************************************************************************)
EXTENDS Naturals

CONSTANTS Villages, Orders, StartSpears,  \* soldiers at the start, by village
          NoVillage

VARIABLES home,    \* soldiers in a village
          field,   \* soldiers with the army of an order
          phase,   \* "none", "outbound", "returning" or "completed"
          from     \* the village the army left

vars == <<home, field, phase, from>>

Init == /\ home  = StartSpears
        /\ field = [q \in Orders |-> 0]
        /\ phase = [q \in Orders |-> "none"]
        /\ from  = [q \in Orders |-> NoVillage]

Train(v) ==
  /\ home'[v] > home[v]
  /\ home' = [home EXCEPT ![v] = home'[v]]
  /\ UNCHANGED <<field, phase, from>>

Depart(q, v) ==
  /\ phase[q] = "none"
  /\ \E n \in 1..home[v] : /\ home'  = [home EXCEPT ![v] = @ - n]
                           /\ field' = [field EXCEPT ![q] = n]
  /\ phase' = [phase EXCEPT ![q] = "outbound"]
  /\ from' = [from EXCEPT ![q] = v]

(* Soldiers die on both sides; one side is left with nobody.               *)
Fight(q, w) ==
  /\ phase[q] = "outbound" /\ w # from[q]
  /\ \E a \in 0..field[q], d \in 0..home[w] :
       /\ a = 0 \/ d = 0
       /\ home'  = [home EXCEPT ![w] = d]
       /\ field' = [field EXCEPT ![q] = a]
       /\ phase' = [phase EXCEPT ![q] = IF a > 0 THEN "returning" ELSE "completed"]
  /\ UNCHANGED from

ComeHome(q) ==
  /\ phase[q] = "returning"
  /\ home'  = [home EXCEPT ![from[q]] = @ + field[q]]
  /\ field' = [field EXCEPT ![q] = 0]
  /\ phase' = [phase EXCEPT ![q] = "completed"]
  /\ UNCHANGED from

Next == \/ \E v \in Villages : Train(v)
        \/ \E q \in Orders : \/ ComeHome(q)
                             \/ \E v \in Villages : Depart(q, v) \/ Fight(q, v)

Spec == Init /\ [][Next]_vars
=============================================================================
