-------------------------- MODULE PlacementProofs --------------------------
(***************************************************************************)
(* What the advisory lock is good for, proved for any players, tabs and    *)
(* places: what a request read under the lock still holds when it inserts. *)
(***************************************************************************)
EXTENDS Placement, TLAPS

-----------------------------------------------------------------------------
(* Distances are numbers, the same there and back, and none at one place.  *)
LEMMA Distances ==
  ASSUME NEW a \in Int \X Int, NEW b \in Int \X Int
  PROVE  /\ Distance2(a, b) \in Int
         /\ Distance2(a, b) = Distance2(b, a)
         /\ Distance2(a, a) = 0
<1> DEFINE x == a[1] - b[1]
           y == a[2] - b[2]
<1>1. x \in Int /\ y \in Int
  OBVIOUS
<1>2. b[1] - a[1] = -x /\ b[2] - a[2] = -y
  OBVIOUS
<1>3. \A n \in Int : n * n \in Int /\ (-n) * (-n) = n * n
  OBVIOUS
<1>4. Distance2(a, b) = x * x + y * y
  BY DEF Distance2, Sq
<1>5. Distance2(b, a) = (-x) * (-x) + (-y) * (-y)
  BY <1>2 DEF Distance2, Sq
<1>6. Distance2(a, a) = 0
  <2>1. a[1] - a[1] = 0 /\ a[2] - a[2] = 0
    OBVIOUS
  <2> QED BY <2>1 DEF Distance2, Sq
<1> HIDE DEF x, y
<1> QED BY <1>1, <1>3, <1>4, <1>5, <1>6

(* Whoever is past the lock holds it.                                      *)
LockHeld == \A t \in Tabs : at[t] \in {"look", "place", "insert", "rows"} => lock = t

(* The place found is free and the first in order.                         *)
Found(t) ==
  /\ spot[t] \in Free
  /\ \A h \in Free \ {spot[t]} : Precedes(spot[t], h)
  /\ villages[owner[t]] = Nowhere

(* What was read still holds.                                              *)
ReadHolds ==
  \A t \in Tabs :
    /\ at[t] = "place" => villages[owner[t]] = Nowhere
    /\ at[t] = "insert" => Found(t)
    /\ at[t] = "rows" /\ spot[t] # Nowhere => Found(t)
    /\ at[t] = "rows" /\ spot[t] = Nowhere => villages[owner[t]] # Nowhere
    /\ at[t] \notin {"insert", "rows"} => spot[t] = Nowhere

IInv == TypeOK /\ LockHeld /\ ReadHolds /\ NeverConflicts /\ KeepsDistance

LEMMA InitInv == Init => IInv
<1> SUFFICES ASSUME Init PROVE IInv
  OBVIOUS
<1>1. TypeOK
  BY PlacementAssumption DEF Init, TypeOK, Places
<1>2. KeepsDistance
  BY DEF Init, KeepsDistance
<1> QED BY <1>1, <1>2 DEF IInv, Init, LockHeld, ReadHolds, NeverConflicts

(* A place found is on the grid, and no village has it.                    *)
LEMMA FoundIsNew ==
  ASSUME TypeOK, NEW t \in Tabs, Found(t)
  PROVE  /\ spot[t] \in Grid /\ spot[t] \in Int \X Int /\ spot[t] # Nowhere
         /\ \A p \in Players : villages[p] # Nowhere =>
              /\ villages[p] # spot[t]
              /\ Distance2(villages[p], spot[t]) >= 16
              /\ Distance2(spot[t], villages[p]) >= 16
<1>1. spot[t] \in Grid /\ spot[t] \in Int \X Int /\ spot[t] # Nowhere
  BY PlacementAssumption DEF Found, Free
<1>2. ASSUME NEW p \in Players, villages[p] # Nowhere
      PROVE  /\ villages[p] # spot[t]
             /\ Distance2(villages[p], spot[t]) >= 16
             /\ Distance2(spot[t], villages[p]) >= 16
  <2>1. villages[p] \in Int \X Int
    BY <1>2 DEF TypeOK
  <2>2. ~(Distance2(villages[p], spot[t]) < 16)
    BY <1>2 DEF Found, Free, Near
  <2>3. /\ Distance2(villages[p], spot[t]) \in Int
        /\ Distance2(villages[p], spot[t]) = Distance2(spot[t], villages[p])
        /\ Distance2(spot[t], spot[t]) = 0
    BY <1>1, <2>1, Distances
  <2> QED BY <2>2, <2>3
<1> QED BY <1>1, <1>2

-----------------------------------------------------------------------------
(* Nothing that others read changes while a request goes on under its lock.*)
LEMMA StepInv == IInv /\ [Next]_vars => IInv'
<1> SUFFICES ASSUME IInv, [Next]_vars PROVE IInv'
  OBVIOUS
<1> USE PlacementAssumption DEF IInv
<1>1. ASSUME NEW t \in Tabs, NEW p \in Players, Request(t, p) PROVE IInv'
  <2>1. TypeOK'
    BY <1>1 DEF Request, TypeOK, Places
  <2>2. ReadHolds'
    BY <1>1 DEF Request, ReadHolds, TypeOK, Found, Free
  <2>3. LockHeld' /\ NeverConflicts' /\ KeepsDistance'
    BY <1>1 DEF Request, LockHeld, NeverConflicts, KeepsDistance, TypeOK
  <2> QED BY <2>1, <2>2, <2>3
<1>2. ASSUME NEW t \in Tabs, Lock(t) PROVE IInv'
  <2>1. TypeOK'
    BY <1>2 DEF Lock, TypeOK, Places
  <2>2. ReadHolds'
    BY <1>2 DEF Lock, ReadHolds, TypeOK, Found, Free
  <2>3. LockHeld' /\ NeverConflicts' /\ KeepsDistance'
    BY <1>2 DEF Lock, LockHeld, NeverConflicts, KeepsDistance, TypeOK
  <2> QED BY <2>1, <2>2, <2>3
<1>3. ASSUME NEW t \in Tabs, Look(t) PROVE IInv'
  <2>1. TypeOK'
    BY <1>3 DEF Look, TypeOK, Places
  <2>2. ReadHolds'
    BY <1>3 DEF Look, ReadHolds, TypeOK, Found, Free
  <2>3. LockHeld' /\ NeverConflicts' /\ KeepsDistance'
    BY <1>3 DEF Look, LockHeld, NeverConflicts, KeepsDistance, TypeOK
  <2> QED BY <2>1, <2>2, <2>3
<1>4. ASSUME NEW t \in Tabs, Choose(t) PROVE IInv'
  <2>1. PICK g \in Free : /\ \A h \in Free \ {g} : Precedes(g, h)
                          /\ spot' = [spot EXCEPT ![t] = g]
    BY <1>4 DEF Choose
  <2>2. g \in Grid
    BY DEF Free
  <2>3. TypeOK'
    BY <1>4, <2>1, <2>2 DEF Choose, TypeOK, Places
  <2>4. Free' = Free
    BY <1>4 DEF Choose, Free
  <2>5. ReadHolds'
    <3> SUFFICES ASSUME NEW u \in Tabs PROVE ReadHolds!(u)'
      BY DEF ReadHolds
    <3>1. CASE u = t
      BY <1>4, <2>1, <2>4, <3>1 DEF Choose, ReadHolds, TypeOK, Found
    <3>2. CASE u # t
      BY <1>4, <2>1, <2>4, <3>2 DEF Choose, ReadHolds, TypeOK, Found
    <3> QED BY <3>1, <3>2
  <2>6. LockHeld' /\ NeverConflicts' /\ KeepsDistance'
    BY <1>4 DEF Choose, LockHeld, NeverConflicts, KeepsDistance, TypeOK
  <2> QED BY <2>3, <2>5, <2>6
<1>5. ASSUME NEW t \in Tabs, NEW a \in {"full", "failed"},
             Answer(t, a), UNCHANGED <<villages, rows, owner>>
      PROVE  IInv'
  <2>1. TypeOK'
    BY <1>5 DEF Answer, TypeOK, Places
  <2>2. ReadHolds'
    BY <1>5 DEF Answer, ReadHolds, TypeOK, Found, Free
  <2>3. LockHeld' /\ NeverConflicts' /\ KeepsDistance'
    BY <1>5 DEF Answer, LockHeld, NeverConflicts, KeepsDistance, TypeOK
  <2> QED BY <2>1, <2>2, <2>3
<1>6. ASSUME NEW t \in Tabs, Insert(t) PROVE IInv'
  <2>1. Found(t)
    BY <1>6 DEF Insert, ReadHolds
  <2>2. ~Conflict(t)
    BY <2>1, FoundIsNew DEF Conflict, Found
  <2>3. /\ at[t] = "insert" /\ at' = [at EXCEPT ![t] = "rows"]
        /\ UNCHANGED <<villages, rows, lock, owner, spot, answer>>
    BY <1>6, <2>2 DEF Insert
  <2>4. TypeOK'
    BY <2>3 DEF TypeOK, Places
  <2>5. spot[t] # Nowhere
    BY <2>1, FoundIsNew
  <2>6. ReadHolds'
    BY <2>1, <2>3, <2>5 DEF ReadHolds, TypeOK, Found, Free
  <2>7. LockHeld' /\ NeverConflicts' /\ KeepsDistance'
    BY <2>3 DEF LockHeld, NeverConflicts, KeepsDistance, TypeOK
  <2> QED BY <2>4, <2>6, <2>7
<1>7. ASSUME NEW t \in Tabs, Finish(t) PROVE IInv'
  <2>1. /\ at[t] = "rows" /\ Answer(t, "done") /\ owner' = owner
        /\ owner[t] \in Players
    BY <1>7 DEF Finish, TypeOK
  <2>2. \A u \in Tabs \ {t} : at'[u] \notin {"look", "place", "insert", "rows"}
    BY <2>1 DEF LockHeld, Answer, TypeOK
  <2>3. at'[t] = "idle" /\ spot'[t] = Nowhere
    BY <2>1 DEF Answer, TypeOK
  <2>4. LockHeld'
    BY <2>2, <2>3 DEF LockHeld
  <2>5. ReadHolds'
    BY <2>1, <2>2, <2>3 DEF ReadHolds, Answer, TypeOK, LockHeld
  <2>6. NeverConflicts'
    BY <2>1 DEF Answer, NeverConflicts, TypeOK
  <2>7. CASE spot[t] = Nowhere
    <3>1. villages' = villages /\ villages[owner[t]] # Nowhere
      BY <1>7, <2>1, <2>7 DEF Finish, ReadHolds
    <3>2. rows' = rows
      BY <1>7, <2>1, <3>1 DEF Finish, Missing, TypeOK
    <3>3. TypeOK'
      BY <2>1, <3>1, <3>2 DEF Answer, TypeOK, Places
    <3>4. KeepsDistance'
      BY <3>1 DEF KeepsDistance
    <3> QED BY <2>4, <2>5, <2>6, <3>3, <3>4
  <2>8. CASE spot[t] # Nowhere
    <3>1. Found(t)
      BY <2>1, <2>8 DEF ReadHolds
    <3>2. villages' = [villages EXCEPT ![owner[t]] = spot[t]]
      BY <1>7, <2>8 DEF Finish
    <3>3. spot[t] \in Int \X Int
      BY <3>1, FoundIsNew
    <3>4. rows' = [rows EXCEPT ![owner[t]] = "start"]
      BY <1>7, <2>1, <3>1 DEF Finish, Missing, Found, TypeOK
    <3>5. TypeOK'
      BY <2>1, <2>8, <3>2, <3>3, <3>4 DEF Answer, TypeOK, Places
    <3>6. KeepsDistance'
      <4> SUFFICES ASSUME NEW p \in Players, NEW q \in Players, p # q,
                          villages'[p] # Nowhere, villages'[q] # Nowhere,
                          OldVillages[p] = Nowhere
                   PROVE  Distance2(villages'[p], villages'[q]) >= 16
        BY DEF KeepsDistance
      <4>1. CASE p = owner[t]
        <5>1. villages'[p] = spot[t] /\ villages'[q] = villages[q]
          BY <2>1, <3>2, <4>1 DEF TypeOK
        <5> QED BY <3>1, <5>1, FoundIsNew
      <4>2. CASE q = owner[t]
        <5>1. villages'[q] = spot[t] /\ villages'[p] = villages[p]
          BY <2>1, <3>2, <4>2 DEF TypeOK
        <5> QED BY <3>1, <5>1, FoundIsNew
      <4>3. CASE p # owner[t] /\ q # owner[t]
        <5>1. villages'[q] = villages[q] /\ villages'[p] = villages[p]
          BY <2>1, <3>2, <4>3 DEF TypeOK
        <5> QED BY <5>1 DEF KeepsDistance
      <4> QED BY <4>1, <4>2, <4>3
    <3> QED BY <2>4, <2>5, <2>6, <3>5, <3>6
  <2> QED BY <2>7, <2>8
<1>8. ASSUME NEW p \in Players, Play(p) PROVE IInv'
  <2>1. TypeOK'
    BY <1>8 DEF Play, TypeOK
  <2>2. ReadHolds'
    BY <1>8 DEF Play, ReadHolds, Found, Free
  <2>3. LockHeld' /\ NeverConflicts' /\ KeepsDistance'
    BY <1>8 DEF Play, LockHeld, NeverConflicts, KeepsDistance
  <2> QED BY <2>1, <2>2, <2>3
<1>9. CASE UNCHANGED vars
  BY <1>9 DEF vars, TypeOK, LockHeld, ReadHolds, NeverConflicts, KeepsDistance, Found, Free
<1>10. ASSUME NEW t \in Tabs, Step(t) \/ Fail(t) PROVE IInv'
  <2>1. CASE Full(t)
    BY <1>5, <2>1 DEF Full
  <2>2. CASE Fail(t)
    BY <1>5, <2>2 DEF Fail
  <2> QED BY <1>10, <1>3, <1>4, <1>6, <1>7, <2>1, <2>2 DEF Step
<1> QED BY <1>1, <1>2, <1>8, <1>9, <1>10 DEF Next

LEMMA Invariance == Spec => []IInv
BY InitInv, StepInv, PTL DEF Spec

-----------------------------------------------------------------------------
(* A village and its rows appear together.                                 *)
THEOREM TypeCorrect == Spec => []TypeOK
<1>1. IInv => TypeOK
  BY DEF IInv
<1> QED BY Invariance, <1>1, PTL

(* No request ever runs into a unique constraint.                          *)
THEOREM NoConflict == Spec => []NeverConflicts
<1>1. IInv => NeverConflicts
  BY DEF IInv
<1> QED BY Invariance, <1>1, PTL

(* New villages keep their distance from all others.                       *)
THEOREM DistanceKept == Spec => []KeepsDistance
<1>1. IInv => KeepsDistance
  BY DEF IInv
<1> QED BY Invariance, <1>1, PTL

(* A village that appears is as near to the centre as any could be then.   *)
THEOREM CentreFirst == Spec => FillsFromCentre
<1> DEFINE A == \A p \in Players : villages'[p] # villages[p] =>
                  \A g \in Free : FromCentre(villages'[p]) <= FromCentre(g)
<1>1. IInv /\ [Next]_vars => [A]_vars
  <2> SUFFICES ASSUME IInv, Next, NEW p \in Players, villages'[p] # villages[p],
                      NEW g \in Free
               PROVE  FromCentre(villages'[p]) <= FromCentre(g)
    OBVIOUS
  <2> USE DEF IInv
  <2>1. PICK t \in Tabs : Finish(t)
    BY DEF Next, Step, Request, Lock, Look, Choose, Full, Insert, Fail, Play
  <2>2. at[t] = "rows" /\ spot[t] # Nowhere
    BY <2>1 DEF Finish
  <2>3. Found(t)
    BY <2>2 DEF ReadHolds
  <2>4. villages'[p] = spot[t]
    BY <2>1, <2>2 DEF Finish, TypeOK
  <2>5. spot[t] \in Int \X Int /\ g \in Int \X Int /\ <<CentreX, CentreY>> \in Int \X Int
    BY <2>3, FoundIsNew, PlacementAssumption DEF Free
  <2>6. FromCentre(spot[t]) \in Int /\ FromCentre(g) \in Int
    BY <2>5, Distances DEF FromCentre
  <2>7. CASE g = spot[t]
    BY <2>4, <2>6, <2>7
  <2>8. CASE g # spot[t]
    <3>1. Precedes(spot[t], g)
      BY <2>3, <2>8 DEF Found
    <3> QED BY <3>1, <2>4, <2>6 DEF Precedes
  <2> QED BY <2>7, <2>8
<1> QED BY Invariance, <1>1, PTL DEF Spec, FillsFromCentre

(* Asking again neither takes back nor gives.                              *)
THEOREM ProgressKept == Spec => KeepsProgress
<1> DEFINE A == \A p \in Players : rows[p] # "none" => rows'[p] \in {rows[p], "played"}
<1>1. IInv /\ [Next]_vars => [A]_vars
  <2> SUFFICES ASSUME IInv, Next, NEW p \in Players, rows[p] # "none"
               PROVE  rows'[p] \in {rows[p], "played"}
    OBVIOUS
  <2>1. rows \in [Players -> {"none", "start", "played"}]
    BY DEF IInv, TypeOK
  <2> QED BY <2>1 DEF Next, Step, Request, Lock, Look, Choose, Full, Insert, Finish, Fail,
                       Play, Missing
<1> QED BY Invariance, <1>1, PTL DEF Spec, KeepsProgress
=============================================================================
