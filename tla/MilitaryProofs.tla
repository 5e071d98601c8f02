--------------------------- MODULE MilitaryProofs ---------------------------
(***************************************************************************)
(* Proofs about Military, for any villages, orders, distances, prices and  *)
(* bounds: every army under way has the one job that brings it on, battle  *)
(* reports are right, raids respect their limits, and soldiers go where    *)
(* Expeditions says.                                                       *)
(***************************************************************************)
EXTENDS Military, LootLoop, Integers, FiniteSetTheorems, TLAPS

-----------------------------------------------------------------------------
(* Sums over finite sets.                                                  *)

(* Induction over the subsets of a finite set S: what holds of a subset if *)
(* it holds of all smaller ones, holds of all.  P is the set of those it   *)
(* holds of.                                                               *)
LEMMA FiniteInduction ==
  ASSUME NEW S, IsFiniteSet(S), NEW P,
         \A T \in SUBSET S : (\A U \in SUBSET T : U # T => U \in P) => T \in P
  PROVE  \A T \in SUBSET S : T \in P
<1> DEFINE Bad == {T \in SUBSET S : T \notin P}
<1>1. SUFFICES ASSUME Bad # {} PROVE FALSE
  OBVIOUS
<1>2. IsWellFoundedOn(StrictSubsetOrdering(S), FiniteSubsetsOf(S))
  BY FS_StrictSubsetOrderingWellFounded
<1>3. Bad \subseteq FiniteSubsetsOf(S)
  BY FS_FiniteSubsetsOfFinite
<1>4. PICK T \in Bad : \A U \in Bad : ~(<<U, T>> \in StrictSubsetOrdering(S))
  <2> HIDE DEF Bad
  <2> QED BY <1>1, <1>2, <1>3, WFMin
<1>5. ASSUME NEW U \in SUBSET T, U # T PROVE U \in P
  <2>1. <<U, T>> \in StrictSubsetOrdering(S)
    BY <1>5 DEF StrictSubsetOrdering
  <2> QED BY <1>4, <2>1
<1> QED BY <1>4, <1>5

(* The recursive function behind SumFunctionOnSet, on the subsets of T.    *)
First(s) == CHOOSE x \in s : TRUE

Sums(g, f, T) ==
  g = [s \in SUBSET T |-> IF s = {} THEN 0 ELSE f[First(s)] + g[s \ {First(s)}]]

LEMMA FirstIsIn == ASSUME NEW s, s # {} PROVE First(s) \in s
  BY DEF First

(* It is determined by its equation ...                                    *)
LEMMA SumsAgree ==
  ASSUME NEW f, NEW A, IsFiniteSet(A), NEW g, NEW B, NEW h,
         Sums(g, f, A), Sums(h, f, B), A \subseteq B
  PROVE  \A s \in SUBSET A : g[s] = h[s]
<1> DEFINE P == {s \in SUBSET A : g[s] = h[s]}
<1>1. ASSUME NEW s \in SUBSET A, \A u \in SUBSET s : u # s => u \in P
      PROVE  s \in P
  <2>1. CASE s = {}
    BY <2>1 DEF Sums
  <2>2. CASE s # {}
    <3>1. s \ {First(s)} \in SUBSET s /\ s \ {First(s)} # s
      BY <2>2, FirstIsIn
    <3>2. g[s \ {First(s)}] = h[s \ {First(s)}]
      BY <1>1, <3>1
    <3>3. g[s] = f[First(s)] + g[s \ {First(s)}]
      BY <2>2 DEF Sums
    <3>4. h[s] = f[First(s)] + h[s \ {First(s)}]
      BY <2>2 DEF Sums
    <3> QED BY <3>2, <3>3, <3>4
  <2> QED BY <2>1, <2>2
<1>2. \A s \in SUBSET A : s \in P
  <2> HIDE DEF P
  <2> QED BY <1>1, FiniteInduction
<1> QED BY <1>2

(* ... and it exists.                                                      *)
LEMMA SumsExist ==
  ASSUME NEW f, NEW S, IsFiniteSet(S)
  PROVE  \A T \in SUBSET S : \E g : Sums(g, f, T)
<1> DEFINE P == {T \in SUBSET S : \E g : Sums(g, f, T)}
<1>1. ASSUME NEW T \in SUBSET S, \A U \in SUBSET T : U # T => U \in P
      PROVE  T \in P
  <2> DEFINE Of(u) == CHOOSE g : Sums(g, f, u)
             h == [s \in SUBSET T |->
                     IF s = {} THEN 0
                     ELSE f[First(s)] + Of(s \ {First(s)})[s \ {First(s)}]]
  <2>1. ASSUME NEW u \in SUBSET T, u # T PROVE Sums(Of(u), f, u)
    BY <1>1, <2>1
  <2>2. ASSUME NEW s \in SUBSET T, s # {} 
        PROVE  h[s \ {First(s)}] = Of(s \ {First(s)})[s \ {First(s)}]
    <3>1. PICK u : u = s \ {First(s)}
      OBVIOUS
    <3>2. u \in SUBSET T /\ u # T
      BY <2>2, <3>1, FirstIsIn
    <3>3. Sums(Of(u), f, u)
      BY <2>1, <3>2
    <3>4. CASE u = {}
      <4>1. Of(u)[u] = 0
        BY <3>3, <3>4 DEF Sums
      <4> QED BY <3>1, <3>2, <3>4, <4>1
    <3>5. CASE u # {}
      <4>1. PICK w : w = u \ {First(u)}
        OBVIOUS
      <4>2. w \in SUBSET u /\ w \in SUBSET T /\ w # T
        BY <3>2, <4>1
      <4>3. Of(u)[u] = f[First(u)] + Of(u)[w]
        BY <3>3, <3>5, <4>1 DEF Sums
      <4>4. IsFiniteSet(w) /\ Sums(Of(w), f, w)
        BY <2>1, <4>2, FS_Subset
      <4>5. Of(w)[w] = Of(u)[w]
        <5> HIDE DEF Of
        <5> QED BY <3>3, <4>2, <4>4, SumsAgree
      <4>6. h[u] = f[First(u)] + Of(w)[w]
        BY <3>2, <3>5, <4>1
      <4> QED BY <3>1, <4>3, <4>5, <4>6
    <3> QED BY <3>4, <3>5
  <2>3. Sums(h, f, T)
    <3> HIDE DEF Of
    <3>1. ASSUME NEW s \in SUBSET T
          PROVE  h[s] = IF s = {} THEN 0 ELSE f[First(s)] + h[s \ {First(s)}]
      BY <2>2
    <3>2. h = [s \in SUBSET T |-> h[s]]
      OBVIOUS
    <3> HIDE DEF h
    <3> QED BY <3>1, <3>2 DEF Sums
  <2> QED BY <2>3
<1>2. \A T \in SUBSET S : T \in P
  <2> HIDE DEF P
  <2> QED BY <1>1, FiniteInduction
<1> QED BY <1>2

(* A sum is that of all elements but the first, and the first.             *)
LEMMA SumUnfolds ==
  ASSUME NEW f, NEW T, IsFiniteSet(T)
  PROVE  SumFunctionOnSet(f, T) =
           IF T = {} THEN 0
           ELSE f[First(T)] + SumFunctionOnSet(f, T \ {First(T)})
<1> DEFINE Of(u) == CHOOSE g : Sums(g, f, u)
           u == T \ {First(T)}
<1>1. \A S : SumFunctionOnSet(f, S) = Of(S)[S]
  BY DEF SumFunctionOnSet, FoldFunctionOnSet, MapThenFoldSet, Sums, First
<1>2. Sums(Of(T), f, T)
  BY SumsExist
<1>3. u \in SUBSET T /\ IsFiniteSet(u)
  BY FS_Subset
<1>4. Sums(Of(u), f, u)
  BY <1>3, SumsExist
<1> HIDE DEF Of
<1>5. Of(T)[u] = Of(u)[u]
  <2>1. PICK g, h, w : g = Of(w) /\ h = Of(T) /\ w = u
    OBVIOUS
  <2>2. Sums(g, f, w) /\ Sums(h, f, T) /\ w \subseteq T /\ IsFiniteSet(w)
    BY <1>2, <1>3, <1>4, <2>1
  <2>3. \A s \in SUBSET w : g[s] = h[s]
    BY <2>2, SumsAgree
  <2> QED BY <2>1, <2>3
<1>6. Of(T)[T] = IF T = {} THEN 0 ELSE f[First(T)] + Of(T)[u]
  BY <1>2 DEF Sums
<1> QED BY <1>1, <1>5, <1>6

(* It does not matter which element is taken first.                        *)
LEMMA SumTakesOut ==
  ASSUME NEW f, NEW S, IsFiniteSet(S), \A x \in S : f[x] \in Nat
  PROVE  /\ SumFunctionOnSet(f, S) \in Nat
         /\ \A x \in S : SumFunctionOnSet(f, S) = f[x] + SumFunctionOnSet(f, S \ {x})
<1> DEFINE sum(T) == SumFunctionOnSet(f, T)
           P == {T \in SUBSET S : /\ sum(T) \in Nat
                                  /\ \A x \in T : sum(T) = f[x] + sum(T \ {x})}
<1>1. ASSUME NEW T \in SUBSET S, \A U \in SUBSET T : U # T => U \in P
      PROVE  T \in P
  <2>1. IsFiniteSet(T)
    BY FS_Subset
  <2>2. CASE T = {}
    <3>1. sum({}) = 0
      BY FS_EmptySet, SumUnfolds
    <3> QED BY <2>2, <3>1
  <2>3. CASE T # {}
    <3>1. PICK p : p = First(T)
      OBVIOUS
    <3>2. p \in T /\ f[p] \in Nat
      BY <2>3, <3>1, FirstIsIn
    <3>3. sum(T) = f[p] + sum(T \ {p})
      BY <2>1, <2>3, <3>1, SumUnfolds
    <3>4. T \ {p} \in P
      BY <1>1, <3>2
    <3> HIDE DEF sum
    <3>5. sum(T) \in Nat
      BY <3>2, <3>3, <3>4
    <3>6. ASSUME NEW x \in T, x # p PROVE sum(T) = f[x] + sum(T \ {x})
      <4>1. T \ {x} \in P
        BY <1>1
      <4>2. PICK rest : rest = sum((T \ {p}) \ {x})
        OBVIOUS
      <4>3. (T \ {x}) \ {p} = (T \ {p}) \ {x}
        OBVIOUS
      <4>4. sum(T \ {x}) = f[p] + rest
        BY <3>2, <3>6, <4>1, <4>2, <4>3
      <4>5. sum(T \ {p}) = f[x] + rest
        BY <3>4, <3>6, <4>2
      <4>6. rest \in Nat /\ f[x] \in Nat
        BY <1>1, <3>2, <4>2
      <4> QED BY <3>2, <3>3, <4>4, <4>5, <4>6
    <3> QED BY <3>3, <3>5, <3>6
  <2> QED BY <2>2, <2>3
<1>2. \A T \in SUBSET S : T \in P
  <2> HIDE DEF P
  <2> QED BY <1>1, FiniteInduction
<1> QED BY <1>2

(* A sum depends on the summands only.                                     *)
LEMMA SumOfSame ==
  ASSUME NEW S, IsFiniteSet(S), NEW f, NEW g, \A x \in S : f[x] = g[x]
  PROVE  SumFunctionOnSet(f, S) = SumFunctionOnSet(g, S)
<1> DEFINE P == {T \in SUBSET S : SumFunctionOnSet(f, T) = SumFunctionOnSet(g, T)}
<1>1. ASSUME NEW T \in SUBSET S, \A U \in SUBSET T : U # T => U \in P
      PROVE  T \in P
  <2>1. IsFiniteSet(T)
    BY FS_Subset
  <2>2. CASE T = {}
    BY <2>1, <2>2, SumUnfolds
  <2>3. CASE T # {}
    <3>1. First(T) \in T
      BY <2>3, FirstIsIn
    <3>2. T \ {First(T)} \in P
      BY <1>1, <3>1
    <3> QED BY <2>1, <2>3, <3>1, <3>2, SumUnfolds
  <2> QED BY <2>2, <2>3
<1>2. \A T \in SUBSET S : T \in P
  <2> HIDE DEF P
  <2> QED BY <1>1, FiniteInduction
<1> QED BY <1>2

(* When one summand changes, the sum changes by as much.                   *)
LEMMA SumChanges ==
  ASSUME NEW S, IsFiniteSet(S), NEW y \in S, NEW f, NEW g,
         \A x \in S : f[x] \in Nat /\ g[x] \in Nat,
         \A x \in S \ {y} : f[x] = g[x]
  PROVE  SumFunctionOnSet(f, S) + g[y] = SumFunctionOnSet(g, S) + f[y]
<1>1. IsFiniteSet(S \ {y})
  BY FS_RemoveElement
<1>2. SumFunctionOnSet(f, S \ {y}) = SumFunctionOnSet(g, S \ {y})
  BY <1>1, SumOfSame
<1>3. SumFunctionOnSet(f, S \ {y}) \in Nat
  BY <1>1, SumTakesOut
<1>4. SumFunctionOnSet(f, S) = f[y] + SumFunctionOnSet(f, S \ {y})
  BY SumTakesOut
<1>5. SumFunctionOnSet(g, S) = g[y] + SumFunctionOnSet(g, S \ {y})
  BY SumTakesOut
<1> QED BY <1>2, <1>3, <1>4, <1>5

-----------------------------------------------------------------------------
(* Numbers and battles.                                                    *)

(* What it means to be a quotient.                                         *)
LEMMA Quotient ==
  ASSUME NEW m \in Nat, NEW n \in Nat, n > 0
  PROVE  /\ m \div n \in Nat
         /\ (m \div n) * n <= m
         /\ m < (m \div n) * n + n
  OBVIOUS

(* Products of natural numbers.                                            *)
LEMMA ProductIsNat == ASSUME NEW m \in Nat, NEW n \in Nat PROVE m * n \in Nat
  OBVIOUS

(* Multiplication by a natural number is monotone, and reflects <.        *)
LEMMA ProductGrows ==
  ASSUME NEW m \in Nat, NEW n \in Nat, NEW k \in Nat, m <= n
  PROVE  m * k <= n * k
  OBVIOUS

(* The converse.                                                           *)
LEMMA ProductCancels ==
  ASSUME NEW m \in Nat, NEW n \in Nat, NEW k \in Nat, m * k < n * k
  PROVE  m < n
  BY ProductGrows, n <= m \/ m < n

(* The stronger side never loses more than it has.                         *)
LEMMA LossesBound ==
  ASSUME NEW n \in Nat, NEW s \in Nat, NEW e \in Nat, s > 0, e < s
  PROVE  Losses(n, s, e) \in 0..n
<1> DEFINE m == n * e + s - 1
           q == Losses(n, s, e)
<1>1. n * e \in Nat /\ m \in Nat
  BY ProductIsNat
<1>2. q \in Nat /\ q * s <= m
  BY <1>1, Quotient DEF Losses
<1>3. n * e <= n * s /\ n * s \in Nat
  BY ProductGrows, ProductIsNat
<1>4. (n + 1) * s = n * s + s
  OBVIOUS
<1>5. q * s < (n + 1) * s
  BY <1>1, <1>2, <1>3, <1>4
<1>6. q < n + 1
  <2> HIDE DEF q
  <2> QED
    BY <1>2, <1>5, ProductCancels
<1> QED
  BY <1>2, <1>6

(* A battle creates no soldier, and leaves soldiers on one side at most:   *)
(* resolve_combat returns counts between zero and those it was given.      *)
THEOREM BattleBounds ==
  ASSUME NEW a \in Nat, NEW d \in Nat
  PROVE  /\ AttackersLeft(a, d) \in 0..a
         /\ DefendersLeft(a, d) \in 0..d
         /\ (AttackersLeft(a, d) = 0 \/ DefendersLeft(a, d) = 0)
<1> USE DEF AttackPower, DefensePower, AttackerWins, DefenderWins
<1>1. CASE d # 0 /\ AttackerWins(a, d)
  <2>1. Losses(a, a * AttackPower, d * DefensePower) \in 0..a
    BY <1>1, LossesBound
  <2> QED
    BY <1>1, <2>1 DEF AttackersLeft, DefendersLeft
<1>2. CASE d # 0 /\ DefenderWins(a, d)
  <2>1. Losses(d, d * DefensePower, a * AttackPower) \in 0..d
    BY <1>2, LossesBound
  <2> QED
    BY <1>2, <2>1 DEF AttackersLeft, DefendersLeft
<1>3. CASE d = 0 \/ (~AttackerWins(a, d) /\ ~DefenderWins(a, d))
  BY <1>3 DEF AttackersLeft, DefendersLeft
<1> QED
  BY <1>1, <1>2, <1>3

(* A quotient is the only number with its two bounds.                      *)
LEMMA QuotientIs ==
  ASSUME NEW m \in Nat, NEW n \in Nat, n > 0, NEW q \in Nat, q * n <= m, m < q * n + n
  PROVE  m \div n = q
<1> DEFINE r == m \div n
<1>1. r \in Nat /\ r * n <= m /\ m < r * n + n
  BY Quotient
<1> HIDE DEF r
<1>2. (q + 1) * n = q * n + n /\ (r + 1) * n = r * n + n
  BY <1>1
<1>3. q * n \in Nat /\ r * n \in Nat
  BY <1>1, ProductIsNat
<1>4. q * n < (r + 1) * n /\ r * n < (q + 1) * n
  BY <1>1, <1>2, <1>3
<1>5. q < r + 1 /\ r < q + 1
  BY <1>1, <1>4, ProductCancels
<1>6. r = q
  BY <1>1, <1>5
<1> QED BY <1>6 DEF r

(* The winner's numbers cancel: what it loses is what the enemy's strength *)
(* is worth in soldiers of its own kind, each of power p, rounded up.      *)
LEMMA LossesCancel ==
  ASSUME NEW n \in Nat, NEW p \in Nat, NEW e \in Nat, n > 0, p > 0
  PROVE  Losses(n, n * p, e) = (e + p - 1) \div p
<1> DEFINE q == (e + p - 1) \div p
           s == n * p
<1>1. q \in Nat /\ q * p <= e + p - 1 /\ e + p - 1 < q * p + p
  <2>1. e + p - 1 \in Nat
    OBVIOUS
  <2> QED BY <2>1, Quotient
<1> HIDE DEF q
<1>2. s \in Nat /\ s > 0 /\ n * e \in Nat /\ q * p \in Nat
  <2>1. n * p > 0
    BY 0 < p, ProductGrows, 1 <= n, 1 * p = p
  <2> QED BY <1>1, <2>1, ProductIsNat
<1>3. (q * p) * n = q * s
  BY <1>1 DEF s
<1>4. q * s <= n * e + s - 1
  <2>1. (q * p) * n <= (e + p - 1) * n
    BY <1>1, <1>2, ProductGrows
  <2>2. (e + p - 1) * n = n * e + s - n
    BY DEF s
  <2> HIDE DEF s
  <2>3. q * s \in Nat
    BY <1>1, <1>2, ProductIsNat
  <2> QED BY <1>2, <1>3, <2>1, <2>2, <2>3
<1>5. n * e + s - 1 < q * s + s
  <2>1. e * n <= (q * p) * n
    BY <1>1, <1>2, ProductGrows
  <2> HIDE DEF s
  <2>2. q * s \in Nat /\ e * n = n * e
    BY <1>1, <1>2, ProductIsNat
  <2> QED BY <1>2, <1>3, <2>1, <2>2
<1>6. (n * e + s - 1) \div s = q
  <2> HIDE DEF s
  <2>1. n * e + s - 1 \in Nat
    BY <1>2
  <2> QED BY <1>1, <1>2, <1>4, <1>5, <2>1, QuotientIs
<1> QED BY <1>6 DEF Losses, q

(* What resolve_combat computes from the numbers of both sides comes to    *)
(* this: seven attackers are worth two defenders, and the winner loses     *)
(* what the loser was worth, however many it has brought.                  *)
THEOREM BattlePrice ==
  ASSUME NEW a \in Nat, NEW d \in Nat
  PROVE  /\ AttackersLeft(a, d) = IF 2 * a > 7 * d THEN a - (7 * d + 1) \div 2 ELSE 0
         /\ DefendersLeft(a, d) = IF 2 * a < 7 * d THEN d - (2 * a + 6) \div 7 ELSE 0
<1>1. /\ AttackerWins(a, d) <=> 2 * a > 7 * d
      /\ DefenderWins(a, d) <=> 2 * a < 7 * d
  BY DEF AttackerWins, DefenderWins, AttackPower, DefensePower
<1>2. (d * 35 + 10 - 1) \div 10 = (7 * d + 1) \div 2
  OBVIOUS
<1>3. (a * 10 + 35 - 1) \div 35 = (2 * a + 6) \div 7
  OBVIOUS
<1>4. a > 0 => Losses(a, a * AttackPower, d * DefensePower) = (7 * d + 1) \div 2
  BY <1>2, LossesCancel DEF AttackPower, DefensePower
<1>5. d > 0 => Losses(d, d * DefensePower, a * AttackPower) = (2 * a + 6) \div 7
  BY <1>3, LossesCancel DEF AttackPower, DefensePower
<1>6. d = 0 => (7 * d + 1) \div 2 = 0
  OBVIOUS
<1> QED BY <1>1, <1>4, <1>5, <1>6 DEF AttackersLeft, DefendersLeft

(* Reinforcements never hurt: whoever brings more keeps at least as many,  *)
(* and leaves the other side no more.                                      *)
THEOREM MoreIsBetter ==
  ASSUME NEW a \in Nat, NEW b \in Nat, NEW c \in Nat, NEW d \in Nat, a <= b, c <= d
  PROVE  /\ AttackersLeft(a, c) <= AttackersLeft(b, c)
         /\ AttackersLeft(a, d) <= AttackersLeft(a, c)
         /\ DefendersLeft(a, c) <= DefendersLeft(a, d)
         /\ DefendersLeft(b, c) <= DefendersLeft(a, c)
<1>1. AttackersLeft(a, c) <= AttackersLeft(b, c)
  <2>1. /\ AttackersLeft(a, c) = IF 2 * a > 7 * c THEN a - (7 * c + 1) \div 2 ELSE 0
        /\ AttackersLeft(b, c) = IF 2 * b > 7 * c THEN b - (7 * c + 1) \div 2 ELSE 0
    BY BattlePrice
  <2> QED BY <2>1
<1>2. AttackersLeft(a, d) <= AttackersLeft(a, c)
  <2>1. /\ AttackersLeft(a, c) = IF 2 * a > 7 * c THEN a - (7 * c + 1) \div 2 ELSE 0
        /\ AttackersLeft(a, d) = IF 2 * a > 7 * d THEN a - (7 * d + 1) \div 2 ELSE 0
    BY BattlePrice
  <2> QED BY <2>1
<1>3. DefendersLeft(a, c) <= DefendersLeft(a, d)
  <2>1. /\ DefendersLeft(a, c) = IF 2 * a < 7 * c THEN c - (2 * a + 6) \div 7 ELSE 0
        /\ DefendersLeft(a, d) = IF 2 * a < 7 * d THEN d - (2 * a + 6) \div 7 ELSE 0
    BY BattlePrice
  <2> QED BY <2>1
<1>4. DefendersLeft(b, c) <= DefendersLeft(a, c)
  <2>1. /\ DefendersLeft(a, c) = IF 2 * a < 7 * c THEN c - (2 * a + 6) \div 7 ELSE 0
        /\ DefendersLeft(b, c) = IF 2 * b < 7 * c THEN c - (2 * b + 6) \div 7 ELSE 0
    BY BattlePrice
  <2> QED BY <2>1
<1> QED BY <1>1, <1>2, <1>3, <1>4

-----------------------------------------------------------------------------
(* The loop of split_loot.                                                 *)

(* A proportional share is at most what is there, all of it only when all  *)
(* of everything is taken, and short of the exact share by less than one.  *)
LEMMA ShareBounds ==
  ASSUME NEW t \in Nat, NEW a \in Nat, NEW T \in Nat, T > 0, t <= T
  PROVE  /\ Share(t, a, T) \in Nat
         /\ Share(t, a, T) * T <= t * a
         /\ t * a < Share(t, a, T) * T + T
         /\ Share(t, a, T) <= a
         /\ t < T /\ a > 0 => Share(t, a, T) < a
         /\ t = T => Share(t, a, T) = a
<1> DEFINE s == Share(t, a, T)
<1>1. t * a \in Nat
  BY ProductIsNat
<1>2. s \in Nat /\ s * T <= t * a /\ t * a < s * T + T
  BY <1>1, Quotient DEF Share
<1>3. t * a <= T * a /\ T * a = a * T
  BY ProductGrows
<1>4. s < a + 1
  <2>1. (a + 1) * T = a * T + T
    OBVIOUS
  <2>2. s * T < (a + 1) * T
    BY <1>1, <1>2, <1>3, <2>1
  <2> HIDE DEF s
  <2> QED
    BY <1>2, <2>2, ProductCancels
<1>5. ASSUME t < T, a > 0 PROVE s < a
  <2>1. t * a < T * a
    BY <1>5
  <2>2. s * T < a * T
    BY <1>1, <1>2, <1>3, <2>1
  <2> HIDE DEF s
  <2> QED
    BY <1>2, <2>2, ProductCancels
<1>6. ASSUME t = T PROVE s = a
  <2>1. (s + 1) * T = s * T + T
    BY <1>2
  <2>2. a * T < (s + 1) * T
    BY <1>2, <1>3, <1>6, <2>1
  <2> HIDE DEF s
  <2>3. a < s + 1
    BY <1>2, <2>2, ProductCancels
  <2> QED
    BY <1>2, <1>4, <2>3
<1> QED
  BY <1>2, <1>4, <1>5, <1>6

(* ShareBounds without its products, for use in linear arguments.          *)
LEMMA ShareWithin ==
  ASSUME NEW t \in Nat, NEW a \in Nat, NEW T \in Nat, T > 0, t <= T
  PROVE  Share(t, a, T) \in 0..a
  BY ShareBounds

(* A share of part of everything is not the whole.                         *)
LEMMA ShareOfPart ==
  ASSUME NEW t \in Nat, NEW a \in Nat, NEW T \in Nat, t < T, a > 0
  PROVE  Share(t, a, T) < a
  BY ShareBounds

(* A share of everything is the whole.                                     *)
LEMMA ShareOfAll ==
  ASSUME NEW t \in Nat, NEW a \in Nat, t > 0
  PROVE  Share(t, a, t) = a
  BY ShareBounds

(* Can a resource of which s is taken give one of its a units more?        *)
HasRoom(s, a) == IF s < a THEN 1 ELSE 0

(* Rounding leaves no more units than there are resources with room.       *)
LEMMA Leftover ==
  ASSUME NEW t \in Nat, NEW w \in Nat, NEW c \in Nat, NEW i \in Nat,
         NEW T, T = w + c + i, T > 0, t <= T,
         NEW sw, sw = Share(t, w, T),
         NEW sc, sc = Share(t, c, T),
         NEW si, si = Share(t, i, T)
  PROVE  /\ t - sw - sc - si \in Nat
         /\ t - sw - sc - si <= HasRoom(sw, w) + HasRoom(sc, c) + HasRoom(si, i)
<1> DEFINE left == t - sw - sc - si
<1>1. T \in Nat
  OBVIOUS
<1>2. /\ sw \in Nat /\ sw * T <= t * w /\ t * w < sw * T + T
      /\ sc \in Nat /\ sc * T <= t * c /\ t * c < sc * T + T
      /\ si \in Nat /\ si * T <= t * i /\ t * i < si * T + T
  BY <1>1, ShareBounds
<1>3. /\ (t < T /\ w > 0 => sw < w) /\ (t = T => sw = w)
      /\ (t < T /\ c > 0 => sc < c) /\ (t = T => sc = c)
      /\ (t < T /\ i > 0 => si < i) /\ (t = T => si = i)
  <2>1. ASSUME t < T
        PROVE  (w > 0 => sw < w) /\ (c > 0 => sc < c) /\ (i > 0 => si < i)
    BY <1>1, <2>1, ShareOfPart
  <2>2. ASSUME t = T
        PROVE  sw = w /\ sc = c /\ si = i
    BY <1>1, <2>2, ShareOfAll
  <2> QED
    BY <2>1, <2>2
<1>4. t * w + t * c + t * i = t * T
  OBVIOUS
<1>5. /\ sw * T \in Nat /\ sc * T \in Nat /\ si * T \in Nat /\ t * T \in Nat
      /\ t * w \in Nat /\ t * c \in Nat /\ t * i \in Nat
  BY <1>1, <1>2, ProductIsNat
<1>6. left \in Int /\ left * T = t * T - sw * T - sc * T - si * T
  <2>1. left \in Int
    BY <1>2
  <2>2. left * T = t * T - sw * T - sc * T - si * T
    BY <1>1, <1>2
  <2> QED
    BY <2>1, <2>2
<1>7. left >= 0
  <2>1. left * T >= 0
    BY <1>2, <1>4, <1>5, <1>6
  <2> HIDE DEF left
  <2> QED
    BY <1>1, <1>6, <2>1
<1>8. CASE t < T
  <2> DEFINE room == HasRoom(0, w) + HasRoom(0, c) + HasRoom(0, i)
  <2>1. /\ HasRoom(sw, w) = HasRoom(0, w)
        /\ HasRoom(sc, c) = HasRoom(0, c)
        /\ HasRoom(si, i) = HasRoom(0, i)
    BY <1>2, <1>3, <1>8 DEF HasRoom
  <2>2. left * T <= room * T
    <3>1. ASSUME NEW a \in Nat, NEW s \in Nat, s * T <= t * a, t * a < s * T + T
          PROVE  t * a - s * T <= HasRoom(0, a) * T
      BY <1>1, <3>1 DEF HasRoom
    <3>2. room * T = HasRoom(0, w) * T + HasRoom(0, c) * T + HasRoom(0, i) * T
      BY <1>1 DEF HasRoom
    <3>3. /\ t * w - sw * T <= HasRoom(0, w) * T
          /\ t * c - sc * T <= HasRoom(0, c) * T
          /\ t * i - si * T <= HasRoom(0, i) * T
      BY <1>2, <3>1
    <3>4. /\ HasRoom(0, w) * T \in Int /\ HasRoom(0, c) * T \in Int
          /\ HasRoom(0, i) * T \in Int
      BY <1>1 DEF HasRoom
    <3> HIDE DEF left, room
    <3> QED
      BY <1>4, <1>5, <1>6, <3>2, <3>3, <3>4
  <2>3. room \in Nat
    BY DEF HasRoom
  <2>4. left <= room
    <3> HIDE DEF left, room
    <3>1. left \in Nat
      BY <1>6, <1>7
    <3>2. left <= room \/ room < left
      BY <3>1, <2>3
    <3>3. room < left => (room + 1) * T <= left * T
      BY <3>1, <2>3, <1>1, ProductGrows
    <3>4. (room + 1) * T = room * T + T /\ room * T \in Nat /\ left * T \in Nat
      BY <3>1, <2>3, <1>1, ProductIsNat
    <3> QED
      BY <3>2, <3>3, <3>4, <2>2, <1>1
  <2> QED
    BY <1>6, <1>7, <2>1, <2>4
<1>9. CASE t = T
  BY <1>3, <1>9 DEF HasRoom
<1> QED
  BY <1>1, <1>8, <1>9

-----------------------------------------------------------------------------
Room(k) == HasRoom(loot[k], available[k])

(* What is still to be handed out fits into the room from here on.         *)
RoomLeft ==
  CASE at = "wood" -> Room("wood") + Room("clay") + Room("iron")
    [] at = "clay" -> Room("clay") + Room("iron")
    [] at = "iron" -> Room("iron")
    [] OTHER -> 0

LootInv ==
  /\ LootTypeOK
  /\ NeverOverdraws
  /\ OnePassIsEnough
  /\ at = "share" => remaining = 0 /\ loot = [k \in Kinds |-> 0]
  /\ at \in Kinds => /\ remaining > 0
                     /\ remaining <= RoomLeft
                     /\ Taken + remaining = Take
  /\ TakesAllItCan

(* The arguments are natural numbers, so what is taken is one.             *)
LEMMA TakeIsNat ==
  ASSUME LootTypeOK
  PROVE  Take \in Nat /\ Total \in Nat /\ Take <= Total
  BY DEF LootTypeOK, Take, Total, AtMost, Kinds

(* The invariant holds before the shares are computed.                     *)
LEMMA LootInitInv == LootInit => LootInv
  BY BoundsAssumption DEF LootInit, LootInv, LootTypeOK, NeverOverdraws, OnePassIsEnough, TakesAllItCan, Kinds

(* Nothing to take: nothing taken.                                         *)
LEMMA TakeNothingInv == ASSUME LootInv, TakeNothing PROVE LootInv'
<1> USE DEF LootInv, TakeNothing, Kinds
<1>1. LootTypeOK' /\ NeverOverdraws' /\ OnePassIsEnough'
  BY DEF LootTypeOK, NeverOverdraws, OnePassIsEnough
<1>2. Taken' = Take'
  BY DEF LootTypeOK, Taken, Take, Total, AtMost
<1> QED
  BY <1>1, <1>2 DEF TakesAllItCan

(* The shares fit, and the leftover has room.                              *)
LEMMA TakeSharesInv == ASSUME LootInv, TakeShares PROVE LootInv'
<1> DEFINE w == available["wood"]
           c == available["clay"]
           i == available["iron"]
<1>1. /\ w \in Nat /\ c \in Nat /\ i \in Nat /\ Total = w + c + i /\ Total > 0
      /\ Take \in Nat /\ Total \in Nat /\ Take <= Total
  <2>1. LootTypeOK
    BY DEF LootInv
  <2> QED
    BY <2>1, TakeIsNat DEF LootTypeOK, TakeShares, Total, Kinds
<1>2. /\ remaining' \in Nat
      /\ remaining' <= HasRoom(Share(Take, w, Total), w)
                       + HasRoom(Share(Take, c, Total), c)
                       + HasRoom(Share(Take, i, Total), i)
  BY <1>1, Leftover DEF TakeShares
<1>3. /\ Share(Take, w, Total) \in 0..w
      /\ Share(Take, c, Total) \in 0..c
      /\ Share(Take, i, Total) \in 0..i
  BY <1>1, ShareWithin
<1>4. /\ loot' = [k \in Kinds |-> Share(Take, available[k], Total)]
      /\ available' = available /\ capacity' = capacity
      /\ at' = IF remaining' > 0 THEN "wood" ELSE "done"
      /\ remaining' = Take - Share(Take, w, Total) - Share(Take, c, Total)
                           - Share(Take, i, Total)
  BY DEF TakeShares
<1>5. /\ loot'["wood"] = Share(Take, w, Total)
      /\ loot'["clay"] = Share(Take, c, Total)
      /\ loot'["iron"] = Share(Take, i, Total)
  BY <1>4 DEF Kinds
<1>6. LootTypeOK' /\ NeverOverdraws' /\ OnePassIsEnough'
  BY <1>1, <1>2, <1>3, <1>4, <1>5
     DEF LootInv, LootTypeOK, NeverOverdraws, OnePassIsEnough, Kinds
<1>7. Taken' + remaining' = Take' /\ Taken' \in Nat
  BY <1>1, <1>3, <1>4, <1>5 DEF Taken, Take, Total
<1>8. at' = "wood" => remaining' > 0 /\ remaining' <= RoomLeft'
  BY <1>2, <1>4, <1>5 DEF RoomLeft, Room
<1>9. at' = "done" => remaining' = 0
  BY <1>2, <1>4
<1> QED
  BY <1>2, <1>4, <1>6, <1>7, <1>8, <1>9, TakeIsNat DEF LootInv, TakesAllItCan, Kinds

(* A unit handed out leaves room for the others.                           *)
LEMMA HandOutInv == ASSUME LootInv, NEW k \in Kinds, HandOut(k) PROVE LootInv'
<1> USE DEF LootInv, HandOut, Kinds, After
<1>1. LootTypeOK'
  BY DEF LootTypeOK
<1>2. NeverOverdraws'
  BY DEF NeverOverdraws, LootTypeOK
<1>3. Taken' + remaining' = Take'
  BY DEF LootTypeOK, Taken, Take, Total
<1>4. \/ remaining' > 0 /\ remaining' <= RoomLeft'
      \/ remaining' = 0 /\ at' = "done"
  BY DEF LootTypeOK, RoomLeft, Room, HasRoom
<1>5. OnePassIsEnough'
  BY <1>4 DEF OnePassIsEnough, RoomLeft, LootTypeOK
<1>6. TakesAllItCan'
  BY <1>3, <1>4, <1>1 DEF TakesAllItCan, LootTypeOK, Taken
<1> QED
  BY <1>1, <1>2, <1>3, <1>4, <1>5, <1>6 DEF LootTypeOK

(* Every step keeps the invariant.                                         *)
LEMMA LootNextInv == LootInv /\ [LootNext]_lootVars => LootInv'
<1>1. ASSUME LootInv, UNCHANGED lootVars
      PROVE  LootInv'
  BY <1>1 DEF lootVars, LootInv, LootTypeOK, NeverOverdraws, OnePassIsEnough,
     TakesAllItCan, RoomLeft, Room, Taken, Take, Total
<1> QED
  BY <1>1, TakeNothingInv, TakeSharesInv, HandOutInv DEF LootNext

LEMMA LootInvariance == LootSpec => []LootInv
  BY LootInitInv, LootNextInv, PTL DEF LootSpec

(* The arguments, the shares and the counter of split_loot keep their      *)
(* types; in particular none is ever negative.                             *)
THEOREM LootTypeCorrect == LootSpec => []LootTypeOK
  BY LootInvariance, PTL DEF LootInv

(* A raid never takes more of a resource than the village exposes.         *)
THEOREM Solvent == LootSpec => []NeverOverdraws
  BY LootInvariance, PTL DEF LootInv

(* Rounding loses nothing: all that fits is taken.                         *)
THEOREM Complete == LootSpec => []TakesAllItCan
  BY LootInvariance, PTL DEF LootInv

(* The loop of split_loot needs one pass; its give-up test never decides.  *)
THEOREM OnePass == LootSpec => []OnePassIsEnough
  BY LootInvariance, PTL DEF LootInv

-----------------------------------------------------------------------------
(* An army under way goes from one village to another, and its jobs are    *)
(* due within the bound; a returning one has survivors.                    *)
ArmiesInOrder ==
  \A q \in Orders : attacks[q].status \in {"outbound", "returning"} =>
    /\ attacks[q].source \in Villages
    /\ attacks[q].target \in Villages
    /\ attacks[q].source # attacks[q].target
    /\ attacks[q].sent > 0
    /\ ReturnDue(q) <= MaxTime
    /\ attacks[q].status = "returning" =>
         attacks[q].surviving > 0 /\ attacks[q].returns = ReturnDue(q)

(* A pending upgrade leads to a level that exists.                         *)
UpgradesPossible == \A v \in Villages : building[v] => farm[v] + 1 \in Levels

(* Every job brings on something that is under way.                        *)
JobsHaveRecords ==
  \A j \in jobs :
    /\ j.kind = "arrive"  => /\ j.of \in Orders
                             /\ attacks[j.of].status = "outbound"
                             /\ j.runAt = attacks[j.of].arrives
    /\ j.kind = "return"  => /\ j.of \in Orders
                             /\ attacks[j.of].status = "returning"
                             /\ j.runAt = ReturnDue(j.of)
    /\ j.kind = "recruit" => j.of \in Villages /\ training[j.of] > 0
    /\ j.kind = "upgrade" => j.of \in Villages /\ building[j.of]

(* Whatever is under way has its job.                                      *)
RecordsHaveJobs ==
  /\ \A q \in Orders :
       /\ attacks[q].status = "outbound" =>
            Job("arrive", q, attacks[q].arrives) \in jobs
       /\ attacks[q].status = "returning" =>
            Job("return", q, ReturnDue(q)) \in jobs
  /\ \A v \in Villages :
       /\ training[v] > 0 => \E j \in jobs : j.kind = "recruit" /\ j.of = v
       /\ building[v] => \E j \in jobs : j.kind = "upgrade" /\ j.of = v

OneJobEach == \A j, k \in jobs : j.kind = k.kind /\ j.of = k.of => j = k

(* A report holds the outcome of the battle it is about.                   *)
ReportsKept ==
  \A q \in Orders : attacks[q].status \in {"returning", "completed"} =>
    /\ attacks[q].sent > 0
    /\ attacks[q].surviving = AttackersLeft(attacks[q].sent, attacks[q].before)
    /\ attacks[q].after = DefendersLeft(attacks[q].sent, attacks[q].before)

IInv == /\ TypeOK
        /\ ArmiesInOrder
        /\ UpgradesPossible
        /\ JobsHaveRecords
        /\ RecordsHaveJobs
        /\ OneJobEach
        /\ ReportsKept

-----------------------------------------------------------------------------
(* Numbers.                                                                *)

(* Players ask for at least one spear.                                     *)
LEMMA CountsArePositive == \A n \in Counts : n \in Nat /\ n > 0
  BY MilitaryAssumption DEF Counts

(* Levels are numbered from 1.                                             *)
LEMMA LevelsAreNat == Levels \subseteq Nat
  BY FarmAssumption DEF Levels

(* A way takes a positive number of units of time.                         *)
LEMMA TravelIsNat ==
  ASSUME NEW v \in Villages, NEW w \in Villages
  PROVE  Travel[<<v, w>>] \in Nat /\ Travel[<<v, w>>] > 0
  BY MilitaryAssumption

(* Loot is what the survivors can carry of what is not hidden.             *)
LEMMA LootBounds ==
  ASSUME NEW n \in Nat, NEW w \in Villages, stock \in [Villages -> Nat]
  PROVE  /\ Loot(n, w) \in Nat
         /\ Loot(n, w) <= stock[w]
         /\ Loot(n, w) <= n * SpearCarry
         /\ Loot(n, w) > 0 => stock[w] - Loot(n, w) >= Hidden
<1> DEFINE c == n * SpearCarry
<1>1. c \in Nat
  BY MilitaryAssumption, ProductIsNat
<1>2. stock[w] \in Nat /\ Hidden \in Nat
  BY MilitaryAssumption
<1>3. Loot(n, w) = AtMost(c, Exposed(stock[w], Hidden))
  BY DEF Loot
<1> HIDE DEF c
<1>4. /\ Loot(n, w) \in Nat
      /\ Loot(n, w) <= stock[w]
      /\ Loot(n, w) <= c
      /\ Loot(n, w) > 0 => stock[w] - Loot(n, w) >= Hidden
  BY <1>1, <1>2, <1>3 DEF AtMost, Exposed
<1> QED BY <1>4 DEF c

(* The winner's losses are the least that cover the enemy's strength.      *)
LEMMA LossesAreLeast ==
  ASSUME NEW n \in Nat, NEW s \in Nat, NEW e \in Nat, s > 0
  PROVE  Proportional(Losses(n, s, e), n, s, e)
<1> DEFINE p == n * e
           q == Losses(n, s, e)
           r == q * s
<1>1. p \in Nat
  BY ProductIsNat
<1>2. /\ q \in Nat
      /\ r <= p + s - 1
      /\ p + s - 1 < r + s
  <2>1. p + s - 1 \in Nat
    BY <1>1
  <2> QED BY <2>1, Quotient DEF Losses
<1>3. r \in Nat /\ (q > 0 => (q - 1) * s = r - s)
  BY <1>2, ProductIsNat
<1> HIDE DEF p, q, r
<1>4. r >= p /\ (q > 0 => (q - 1) * s < p)
  BY <1>1, <1>2, <1>3
<1> QED BY <1>4 DEF Proportional, p, q, r

-----------------------------------------------------------------------------
(* The invariant holds initially.                                          *)
LEMMA InitInv == ASSUME Init PROVE IInv
<1>1. TypeOK
  <2>1. stock \in [Villages -> Nat] /\ spears \in [Villages -> Nat]
    BY MilitaryAssumption DEF Init
  <2>2. farm \in [Villages -> Levels]
    BY MilitaryAssumption DEF Init
  <2>3. now \in 0..MaxTime
    BY MilitaryAssumption DEF Init
  <2>4. attacks \in [Orders -> Attacks]
    BY DEF Init, NoAttack, Attacks, Statuses
  <2>5. /\ building \in [Villages -> BOOLEAN] /\ training \in [Villages -> Nat]
        /\ jobs \subseteq AllJobs
    BY DEF Init
  <2> QED BY <2>1, <2>2, <2>3, <2>4, <2>5 DEF TypeOK
<1>2. \A q \in Orders : attacks[q].status = "none"
  BY DEF Init, NoAttack
<1>3. jobs = {} /\ \A v \in Villages : training[v] = 0 /\ building[v] = FALSE
  BY DEF Init
<1> QED BY <1>1, <1>2, <1>3 DEF IInv, ArmiesInOrder, UpgradesPossible,
                                JobsHaveRecords, RecordsHaveJobs, OneJobEach, ReportsKept

(* Time passes, villages produce.                                          *)
LEMMA TickInv == ASSUME IInv, Tick PROVE IInv'
<1> USE DEF IInv, Tick
<1>1. now' \in 0..MaxTime
  BY MilitaryAssumption DEF TypeOK
<1>2. stock' \in [Villages -> Nat]
  BY MilitaryAssumption DEF TypeOK
<1>3. TypeOK'
  BY <1>1, <1>2 DEF TypeOK
<1>4. ArmiesInOrder' /\ UpgradesPossible'
  BY DEF ArmiesInOrder, UpgradesPossible, ReturnDue
<1>5. JobsHaveRecords' /\ RecordsHaveJobs' /\ OneJobEach' /\ ReportsKept'
  BY DEF JobsHaveRecords, RecordsHaveJobs, OneJobEach, ReportsKept, ReturnDue
<1> QED BY <1>3, <1>4, <1>5

(* A training is ordered.                                                  *)
LEMMA RecruitInv ==
  ASSUME IInv, NEW v \in Villages, NEW n \in Counts, Recruit(v, n)
  PROVE  IInv'
<1> DEFINE j == Job("recruit", v, now + n * TrainTime)
<1> USE DEF IInv, Recruit
<1>0. n \in Nat /\ n > 0 /\ n * SpearCost \in Nat /\ n * TrainTime \in Nat
  BY CountsArePositive, MilitaryAssumption, ProductIsNat
<1>1. j \in AllJobs
  <2> DEFINE d == n * TrainTime
  <2>0. d \in Nat /\ now \in Nat /\ MaxTime \in Nat /\ now + d <= MaxTime
    BY <1>0, MilitaryAssumption DEF TypeOK
  <2> HIDE DEF d
  <2>1. now + d \in 0..MaxTime
    BY <2>0
  <2> USE DEF d
  <2> QED BY <2>1 DEF Job, AllJobs, JobKinds
<1>2. stock' \in [Villages -> Nat]
  BY <1>0 DEF TypeOK
<1>3. TypeOK'
  BY <1>0, <1>1, <1>2 DEF TypeOK
<1>4. ArmiesInOrder' /\ UpgradesPossible' /\ ReportsKept'
  BY DEF ArmiesInOrder, UpgradesPossible, ReturnDue, ReportsKept
<1>5. jobs' = jobs \cup {j} /\ j.kind = "recruit" /\ j.of = v
  BY DEF Job
<1>6. \A k \in jobs : k.kind = "recruit" => k.of # v
  BY DEF JobsHaveRecords
<1>7. training' = [training EXCEPT ![v] = n] /\ training \in [Villages -> Nat]
  BY DEF TypeOK
<1> HIDE DEF j
<1>8. JobsHaveRecords'
  BY <1>0, <1>5, <1>6, <1>7 DEF JobsHaveRecords, ReturnDue
<1>9. RecordsHaveJobs'
  BY <1>5, <1>7 DEF RecordsHaveJobs, ReturnDue
<1>10. OneJobEach'
  BY <1>5, <1>6 DEF OneJobEach
<1> QED BY <1>3, <1>4, <1>8, <1>9, <1>10

(* An upgrade is ordered.                                                  *)
LEMMA UpgradeInv ==
  ASSUME IInv, NEW v \in Villages, UpgradeFarm(v)
  PROVE  IInv'
<1> DEFINE j == Job("upgrade", v, now + BuildTime)
<1> USE DEF IInv, UpgradeFarm
<1>1. j \in AllJobs
  BY MilitaryAssumption DEF TypeOK, Job, AllJobs, JobKinds
<1>2. stock' \in [Villages -> Nat]
  BY MilitaryAssumption DEF TypeOK
<1>3. TypeOK'
  BY <1>1, <1>2 DEF TypeOK
<1>4. ArmiesInOrder' /\ UpgradesPossible' /\ ReportsKept'
  BY DEF TypeOK, ArmiesInOrder, UpgradesPossible, ReturnDue, ReportsKept
<1>5. jobs' = jobs \cup {j} /\ j.kind = "upgrade" /\ j.of = v
  BY DEF Job
<1>6. \A k \in jobs : k.kind = "upgrade" => k.of # v
  BY DEF JobsHaveRecords
<1>7. building' = [building EXCEPT ![v] = TRUE] /\ building \in [Villages -> BOOLEAN]
  BY DEF TypeOK
<1> HIDE DEF j
<1>8. JobsHaveRecords'
  BY <1>5, <1>6, <1>7 DEF JobsHaveRecords, ReturnDue
<1>9. RecordsHaveJobs'
  BY <1>5, <1>7 DEF RecordsHaveJobs, ReturnDue
<1>10. OneJobEach'
  BY <1>5, <1>6 DEF OneJobEach
<1> QED BY <1>3, <1>4, <1>8, <1>9, <1>10
(* An army leaves.                                                         *)
LEMMA SendInv ==
  ASSUME IInv, NEW q \in Orders, NEW v \in Villages, NEW w \in Villages,
         NEW n \in Counts, SendAttack(q, v, w, n)
  PROVE  IInv'
<1> DEFINE a == Outbound(v, w, n)
           j == Job("arrive", q, now + Travel[<<v, w>>])
<1> USE DEF IInv, SendAttack
<1>0. n \in Nat /\ n > 0 /\ Travel[<<v, w>>] \in Nat /\ now \in Nat /\ MaxTime \in Nat
  BY CountsArePositive, TravelIsNat, MilitaryAssumption DEF TypeOK
<1>1. /\ a \in Attacks /\ a.status = "outbound" /\ a.source = v /\ a.target = w
      /\ a.sent = n /\ a.arrives = now + Travel[<<v, w>>]
  <2>1. now + Travel[<<v, w>>] \in Nat
    BY <1>0
  <2> QED BY <1>0, <2>1 DEF Outbound, Attacks, Statuses
<1>2. /\ j \in AllJobs /\ j.kind = "arrive" /\ j.of = q
      /\ j.runAt = a.arrives
  <2>1. now + Travel[<<v, w>>] \in 0..MaxTime
    BY <1>0
  <2> QED BY <1>1, <2>1 DEF Job, AllJobs, JobKinds
<1>3. /\ attacks' = [attacks EXCEPT ![q] = a] /\ jobs' = jobs \cup {j}
      /\ attacks \in [Orders -> Attacks] /\ attacks[q].status = "none"
      /\ Job("arrive", q, a.arrives) = j
  BY <1>1 DEF TypeOK
<1> HIDE DEF a, j
<1>4. spears' \in [Villages -> Nat]
  BY <1>0 DEF TypeOK
<1>5. TypeOK'
  BY <1>1, <1>2, <1>3, <1>4 DEF TypeOK
<1>6. \A p \in Orders : /\ p # q => attacks'[p] = attacks[p]
                        /\ p = q => attacks'[p] = a
  BY <1>3
<1>7. \A p \in Orders : /\ p # q => ReturnDue(p)' = ReturnDue(p)
                        /\ p = q => ReturnDue(p)' <= MaxTime
  BY <1>0, <1>1, <1>6 DEF ReturnDue
<1>8. ArmiesInOrder'
  BY <1>0, <1>1, <1>6, <1>7 DEF ArmiesInOrder
<1>9. UpgradesPossible' /\ ReportsKept'
  BY <1>1, <1>6 DEF UpgradesPossible, ReportsKept
<1>10. \A k \in jobs : k.kind \in {"arrive", "return"} => k.of # q
  BY <1>3 DEF JobsHaveRecords
<1>11. JobsHaveRecords'
  BY <1>1, <1>2, <1>3, <1>6, <1>7, <1>10 DEF JobsHaveRecords
<1>12. RecordsHaveJobs'
  BY <1>1, <1>3, <1>6, <1>7 DEF RecordsHaveJobs
<1>13. OneJobEach'
  BY <1>2, <1>3, <1>10 DEF OneJobEach
<1> QED BY <1>5, <1>8, <1>9, <1>11, <1>12, <1>13

(* What is left of the job set once a job is done.                         *)
LEMMA FinishRecruitInv ==
  ASSUME IInv, NEW j \in jobs, FinishRecruit(j)
  PROVE  IInv'
<1> USE DEF IInv, FinishRecruit
<1>1. /\ j.of \in Villages /\ training \in [Villages -> Nat]
      /\ training' = [training EXCEPT ![j.of] = 0]
  BY DEF TypeOK, JobsHaveRecords
<1>2. TypeOK'
  BY <1>1 DEF TypeOK
<1>3. ArmiesInOrder' /\ UpgradesPossible' /\ ReportsKept'
  BY DEF ArmiesInOrder, UpgradesPossible, ReturnDue, ReportsKept
<1>4. \A k \in jobs \ {j} : k.kind = "recruit" => k.of # j.of
  BY DEF OneJobEach
<1>5. JobsHaveRecords'
  BY <1>1, <1>4 DEF JobsHaveRecords, ReturnDue
<1>6. RecordsHaveJobs'
  BY <1>1 DEF RecordsHaveJobs, ReturnDue, Job
<1>7. OneJobEach'
  BY DEF OneJobEach
<1> QED BY <1>2, <1>3, <1>5, <1>6, <1>7

(* A farm is built.                                                        *)
LEMMA FinishUpgradeInv ==
  ASSUME IInv, NEW j \in jobs, FinishUpgrade(j)
  PROVE  IInv'
<1> USE DEF IInv, FinishUpgrade
<1>1. /\ j.of \in Villages /\ building \in [Villages -> BOOLEAN]
      /\ building' = [building EXCEPT ![j.of] = FALSE]
  BY DEF TypeOK, JobsHaveRecords
<1>2. TypeOK'
  BY <1>1 DEF TypeOK, UpgradesPossible
<1>3. UpgradesPossible'
  BY <1>1 DEF UpgradesPossible, TypeOK
<1>4. ArmiesInOrder' /\ ReportsKept'
  BY DEF ArmiesInOrder, ReturnDue, ReportsKept
<1>5. \A k \in jobs \ {j} : k.kind = "upgrade" => k.of # j.of
  BY DEF OneJobEach
<1>6. JobsHaveRecords'
  BY <1>1, <1>5 DEF JobsHaveRecords, ReturnDue
<1>7. RecordsHaveJobs'
  BY <1>1 DEF RecordsHaveJobs, ReturnDue, Job
<1>8. OneJobEach'
  BY DEF OneJobEach
<1> QED BY <1>2, <1>3, <1>4, <1>6, <1>7, <1>8
(* The survivors come home.                                                *)
LEMMA ReturnInv ==
  ASSUME IInv, NEW j \in jobs, Return(j)
  PROVE  IInv'
<1> DEFINE q == j.of
           b == [attacks[q] EXCEPT !.status = "completed"]
<1> USE DEF IInv, Return
<1>1. /\ q \in Orders /\ attacks \in [Orders -> Attacks] /\ attacks[q] \in Attacks
      /\ attacks[q].status = "returning" /\ attacks[q].source \in Villages
  BY DEF TypeOK, JobsHaveRecords, ArmiesInOrder
<1>2. /\ b \in Attacks /\ b.status = "completed" /\ b.sent = attacks[q].sent
      /\ b.surviving = attacks[q].surviving /\ b.before = attacks[q].before
      /\ b.after = attacks[q].after
  BY <1>1 DEF Attacks, Statuses
<1>3. attacks' = [attacks EXCEPT ![q] = b] /\ jobs' = jobs \ {j}
  BY <1>1
<1>4. spears' \in [Villages -> Nat] /\ stock' \in [Villages -> Nat]
  BY <1>1 DEF TypeOK, Attacks
<1> HIDE DEF b
<1>5. TypeOK'
  BY <1>1, <1>2, <1>3, <1>4 DEF TypeOK
<1>6. \A p \in Orders : /\ p # q => attacks'[p] = attacks[p] /\ ReturnDue(p)' = ReturnDue(p)
                        /\ p = q => attacks'[p] = b
  BY <1>1, <1>3 DEF ReturnDue
<1>7. ArmiesInOrder' /\ UpgradesPossible' /\ ReportsKept'
  BY <1>1, <1>2, <1>6 DEF ArmiesInOrder, UpgradesPossible, ReportsKept
<1>8. \A k \in jobs' : k.kind \in {"arrive", "return"} => k.of # q
  <2>1. \A k \in jobs' : k.kind = "return" => k.of # q
    BY <1>3 DEF OneJobEach
  <2>2. \A k \in jobs : k.kind = "arrive" => k.of # q
    BY <1>1 DEF JobsHaveRecords
  <2> QED BY <1>3, <2>1, <2>2
<1>9. JobsHaveRecords'
  BY <1>3, <1>6, <1>8 DEF JobsHaveRecords
<1>10. RecordsHaveJobs'
  <2>1. \A p \in Orders : p # q => \A t : Job("arrive", p, t) # j /\ Job("return", p, t) # j
    BY DEF Job
  <2>2. \A k \in jobs : k.kind \in {"recruit", "upgrade"} => k \in jobs'
    BY <1>3
  <2> QED BY <1>2, <1>3, <1>6, <2>1, <2>2 DEF RecordsHaveJobs
<1>11. OneJobEach'
  BY <1>3 DEF OneJobEach
<1> QED BY <1>5, <1>7, <1>9, <1>10, <1>11

(* What the arrival of an army does, in terms of the battle.               *)
LEMMA ArriveFacts ==
  ASSUME IInv, NEW j \in jobs, Arrive(j),
         NEW q, q = j.of,
         NEW left, left = AttackersLeft(attacks[q].sent, spears[attacks[q].target]),
         NEW taken, taken = IF left > 0 THEN Loot(left, attacks[q].target) ELSE 0
  PROVE  /\ q \in Orders /\ attacks[q] \in Attacks
         /\ attacks[q].status = "outbound" /\ attacks[q].sent > 0
         /\ attacks[q].source \in Villages /\ attacks[q].target \in Villages
         /\ attacks[q].source # attacks[q].target
         /\ left \in 0..attacks[q].sent
         /\ DefendersLeft(attacks[q].sent, spears[attacks[q].target])
              \in 0..spears[attacks[q].target]
         /\ taken \in Nat /\ taken <= stock[attacks[q].target]
         /\ taken <= left * SpearCarry
         /\ taken > 0 => stock[attacks[q].target] - taken >= Hidden
<1>1. /\ q \in Orders /\ attacks[q] \in Attacks
      /\ attacks[q].status = "outbound"
      /\ attacks[q].source \in Villages /\ attacks[q].target \in Villages
      /\ attacks[q].source # attacks[q].target
      /\ attacks[q].sent > 0
  BY DEF IInv, Arrive, TypeOK, JobsHaveRecords, ArmiesInOrder
<1>2. attacks[q].sent \in Nat /\ spears[attacks[q].target] \in Nat
  BY <1>1 DEF IInv, TypeOK, Attacks
<1>3. /\ left \in 0..attacks[q].sent
      /\ DefendersLeft(attacks[q].sent, spears[attacks[q].target])
           \in 0..spears[attacks[q].target]
  BY <1>2, BattleBounds
<1>4. left \in Nat /\ stock \in [Villages -> Nat] /\ stock[attacks[q].target] \in Nat
  BY <1>1, <1>2, <1>3 DEF IInv, TypeOK
<1>5. CASE left > 0
  <2>1. taken = Loot(left, attacks[q].target)
    BY <1>5
  <2> QED BY <1>1, <1>3, <1>4, <2>1, LootBounds
<1>6. CASE ~(left > 0)
  <2>1. taken = 0 /\ left * SpearCarry \in Nat
    BY <1>4, <1>6, ProductIsNat, MilitaryAssumption
  <2> QED BY <1>1, <1>3, <1>4, <2>1
<1> QED BY <1>5, <1>6
(* An army arrives.                                                        *)
LEMMA ArriveInv ==
  ASSUME IInv, NEW j \in jobs, Arrive(j)
  PROVE  IInv'
<1> DEFINE q == j.of
           a == attacks[q]
           left == AttackersLeft(a.sent, spears[a.target])
           taken == IF left > 0 THEN Loot(left, a.target) ELSE 0
           b == Fought(a, left, taken)
           home == DefendersLeft(a.sent, spears[a.target])
<1>1. /\ q \in Orders /\ a \in Attacks
      /\ a.status = "outbound" /\ a.sent > 0
      /\ a.source \in Villages /\ a.target \in Villages
      /\ a.source # a.target
      /\ left \in 0..a.sent
      /\ home \in 0..spears[a.target]
      /\ taken \in Nat /\ taken <= stock[a.target]
  BY ArriveFacts
<1>2. /\ attacks' = [attacks EXCEPT ![q] = b]
      /\ attacks \in [Orders -> Attacks]
      /\ spears' = [spears EXCEPT ![a.target] = home]
      /\ spears \in [Villages -> Nat]
      /\ stock' = [stock EXCEPT ![a.target] = @ - taken]
      /\ stock \in [Villages -> Nat]
      /\ jobs' = (jobs \ {j}) \cup ReturnJobs(q, left)
      /\ UNCHANGED <<now, farm, building, training>>
  BY DEF Arrive, IInv, TypeOK
<1>3. /\ a.sent \in Nat /\ a.arrives \in Nat /\ left \in Nat /\ home \in Nat
      /\ spears[a.target] \in Nat
      /\ ReturnTime(a) \in Nat /\ ReturnTime(a) = ReturnDue(q) /\ ReturnDue(q) <= MaxTime
  <2>1. a.sent \in Nat /\ a.arrives \in Nat /\ spears[a.target] \in Nat
    BY <1>1, <1>2 DEF Attacks
  <2>2. left \in Nat /\ home \in Nat
    BY <1>1, <2>1
  <2>3. ReturnTime(a) \in Nat /\ ReturnTime(a) = ReturnDue(q)
    BY <1>1, <2>1, TravelIsNat DEF ReturnTime, ReturnDue
  <2>4. ReturnDue(q) <= MaxTime
    BY <1>1 DEF IInv, ArmiesInOrder
  <2> QED BY <2>1, <2>2, <2>3, <2>4
<1>4. /\ b.source = a.source /\ b.target = a.target /\ b.sent = a.sent
      /\ b.arrives = a.arrives /\ b.surviving = left
      /\ b.before = spears[a.target] /\ b.after = home
      /\ b.status = IF left > 0 THEN "returning" ELSE "completed"
      /\ b.returns = IF left > 0 THEN ReturnTime(a) ELSE 0
  BY DEF Fought
<1>5. b \in Attacks
  BY <1>1, <1>3 DEF Fought, Attacks, Statuses
<1>6. \A p \in Orders : /\ p # q => attacks'[p] = attacks[p]
                        /\ p = q => attacks'[p] = b
                        /\ ReturnDue(p)' = ReturnDue(p)
  BY <1>1, <1>2, <1>4 DEF ReturnDue
<1>7. jobs' = (jobs \ {j}) \cup (IF left > 0 THEN {Job("return", q, ReturnDue(q))} ELSE {})
  BY <1>2, <1>3 DEF ReturnJobs
<1>8. left = AttackersLeft(a.sent, spears[a.target]) /\ j.of = q
      /\ home = DefendersLeft(a.sent, spears[a.target])
  OBVIOUS
<1> DEFINE r == Job("return", q, ReturnDue(q))
<1>9. /\ r.kind = "return" /\ r.of = q /\ r.runAt = ReturnDue(q)
      /\ r \in AllJobs
  <2>1. ReturnDue(q) \in 0..MaxTime
    BY <1>3, MilitaryAssumption
  <2> QED BY <1>1, <2>1 DEF Job, AllJobs, JobKinds
<1> HIDE DEF b, left, taken, home, r, a, q
<1>10. TypeOK'
  <2>1. stock' \in [Villages -> Nat]
    BY <1>1, <1>2
  <2>2. spears' \in [Villages -> Nat]
    BY <1>2, <1>3
  <2>3. jobs' \subseteq AllJobs
    BY <1>7, <1>9 DEF IInv, TypeOK, r
  <2> QED BY <1>1, <1>2, <1>5, <2>1, <2>2, <2>3 DEF IInv, TypeOK
<1>11. ArmiesInOrder'
  BY <1>1, <1>3, <1>4, <1>6 DEF IInv, ArmiesInOrder, a
<1>12. UpgradesPossible'
  BY <1>2 DEF IInv, UpgradesPossible
<1>13. ReportsKept'
  BY <1>1, <1>4, <1>6, <1>8 DEF IInv, ReportsKept
<1>14. \A k \in jobs \ {j} : k.kind \in {"arrive", "return"} => k.of # q
  <2>1. j.kind = "arrive"
    BY DEF Arrive
  <2>2. \A k \in jobs \ {j} : k.kind = "arrive" => k.of # q
    BY <1>8, <2>1 DEF IInv, OneJobEach
  <2>3. \A k \in jobs : k.kind = "return" => k.of # q
    BY <1>1 DEF IInv, JobsHaveRecords, a
  <2> QED BY <2>2, <2>3
<1>15. JobsHaveRecords'
  <2> SUFFICES ASSUME NEW k \in jobs'
               PROVE  JobsHaveRecords!(k)'
    BY DEF JobsHaveRecords
  <2>1. CASE k \in jobs \ {j}
    BY <1>2, <1>6, <1>14, <2>1 DEF IInv, JobsHaveRecords
  <2>2. CASE left > 0 /\ k = r
    BY <1>1, <1>4, <1>6, <1>9, <2>2
  <2> QED BY <1>7, <2>1, <2>2 DEF r
<1>16. RecordsHaveJobs'
  <2>1. \A p \in Orders : p # q => \A t : Job("arrive", p, t) # j /\ Job("return", p, t) # j
    BY <1>8 DEF Job
  <2>2. \A k \in jobs : k.kind \in {"recruit", "upgrade"} => k \in jobs'
    BY <1>7 DEF Arrive
  <2>3. \A p \in Orders : p # q =>
          /\ attacks'[p].status = "outbound" =>
               Job("arrive", p, attacks'[p].arrives) \in jobs'
          /\ attacks'[p].status = "returning" =>
               Job("return", p, ReturnDue(p)') \in jobs'
    BY <1>6, <1>7, <2>1 DEF IInv, RecordsHaveJobs
  <2>4. /\ attacks'[q].status # "outbound"
        /\ attacks'[q].status = "returning" => Job("return", q, ReturnDue(q)') \in jobs'
    BY <1>1, <1>4, <1>6, <1>7
  <2>5. \A v \in Villages :
          /\ training'[v] > 0 => \E k \in jobs' : k.kind = "recruit" /\ k.of = v
          /\ building'[v] => \E k \in jobs' : k.kind = "upgrade" /\ k.of = v
    BY <1>2, <2>2 DEF IInv, RecordsHaveJobs
  <2> QED BY <2>3, <2>4, <2>5 DEF RecordsHaveJobs
<1>17. OneJobEach'
  BY <1>7, <1>9, <1>14 DEF IInv, OneJobEach, r
<1> QED BY <1>10, <1>11, <1>12, <1>13, <1>15, <1>16, <1>17 DEF IInv

-----------------------------------------------------------------------------
(* Every step preserves the invariant.                                     *)
LEMMA NextInv == ASSUME IInv, [Next]_vars PROVE IInv'
<1>1. CASE Tick
  BY <1>1, TickInv
<1>2. CASE Command
  BY <1>2, UpgradeInv, RecruitInv, SendInv DEF Command
<1>3. CASE \E j \in jobs : Execute(j)
  BY <1>3, ArriveInv, ReturnInv, FinishRecruitInv, FinishUpgradeInv DEF Execute
<1>4. CASE UNCHANGED vars
  BY <1>4 DEF vars, IInv, TypeOK, ArmiesInOrder, UpgradesPossible, JobsHaveRecords,
              RecordsHaveJobs, OneJobEach, ReportsKept, ReturnDue
<1> QED BY <1>1, <1>2, <1>3, <1>4 DEF Next

(* The inductive invariant.                                                *)
THEOREM Invariance == Spec => []IInv
<1>1. Init => IInv
  BY InitInv
<1>2. IInv /\ [Next]_vars => IInv'
  BY NextInv
<1> QED BY <1>1, <1>2, PTL DEF Spec

(* Every variable keeps its type: in particular no stock and no number of  *)
(* soldiers is ever negative, and no job is due later than the bound.      *)
THEOREM TypeCorrect == Spec => []TypeOK
<1>1. IInv => TypeOK
  BY DEF IInv
<1> QED BY <1>1, Invariance, PTL

(* Every army, training and upgrade under way has exactly one job, which   *)
(* is due at the right time, and every job has something to bring on.      *)
THEOREM JobsAndRecordsAgree == Spec => []JobsMatchRecords
<1>1. IInv => JobsMatchRecords
  <2> SUFFICES ASSUME IInv PROVE JobsMatchRecords
    OBVIOUS
  <2> DEFINE out == {Job("arrive", q, attacks[q].arrives) :
                       q \in {p \in Orders : attacks[p].status = "outbound"}}
             back == {Job("return", q, ReturnDue(q)) :
                       q \in {p \in Orders : attacks[p].status = "returning"}}
  <2>1. ASSUME NEW j \in jobs, j.kind \in {"arrive", "return"}
        PROVE  j \in out \cup back
    <3>1. j \in AllJobs
      BY DEF IInv, TypeOK
    <3>2. j = Job(j.kind, j.of, j.runAt)
      BY <3>1 DEF Job, AllJobs
    <3> QED BY <2>1, <3>2 DEF IInv, JobsHaveRecords
  <2>2. out \cup back \subseteq {j \in jobs : j.kind \in {"arrive", "return"}}
    <3>1. out \subseteq jobs /\ back \subseteq jobs
      BY DEF IInv, RecordsHaveJobs
    <3>2. /\ \A j \in out : j.kind = "arrive"
          /\ \A j \in back : j.kind = "return"
      BY DEF Job
    <3> QED BY <3>1, <3>2
  <2>3. \A v \in Villages :
          /\ training[v] > 0 <=> \E j \in jobs : j.kind = "recruit" /\ j.of = v
          /\ building[v] <=> \E j \in jobs : j.kind = "upgrade" /\ j.of = v
    BY DEF IInv, RecordsHaveJobs, JobsHaveRecords
  <2> QED BY <2>1, <2>2, <2>3 DEF JobsMatchRecords, IInv, OneJobEach
<1> QED BY <1>1, Invariance, PTL
(* Battle reports tell who lost what, by the rule of resolve_combat.       *)
THEOREM ReportsCorrect == Spec => []ReportsAreRight
<1>1. IInv => ReportsAreRight
  <2> SUFFICES ASSUME IInv, NEW q \in Orders,
                      attacks[q].status \in {"returning", "completed"}
               PROVE  /\ attacks[q].sent * AttackPower >= attacks[q].before * DefensePower
                           => attacks[q].after = 0
                      /\ attacks[q].sent * AttackPower <= attacks[q].before * DefensePower
                           => attacks[q].surviving = 0
                      /\ attacks[q].sent * AttackPower > attacks[q].before * DefensePower
                           => Proportional(attacks[q].sent - attacks[q].surviving,
                                           attacks[q].sent,
                                           attacks[q].sent * AttackPower,
                                           attacks[q].before * DefensePower)
                      /\ attacks[q].sent * AttackPower < attacks[q].before * DefensePower
                           => Proportional(attacks[q].before - attacks[q].after,
                                           attacks[q].before,
                                           attacks[q].before * DefensePower,
                                           attacks[q].sent * AttackPower)
    BY DEF ReportsAreRight
  <2>1. PICK n, d, s, k :
          /\ n = attacks[q].sent /\ d = attacks[q].before
          /\ s = attacks[q].surviving /\ k = attacks[q].after
    OBVIOUS
  <2>2. n \in Nat /\ d \in Nat /\ n > 0
    BY <2>1 DEF IInv, TypeOK, Attacks, ReportsKept
  <2>3. s = AttackersLeft(n, d) /\ k = DefendersLeft(n, d)
    BY <2>1 DEF IInv, ReportsKept
  <2>4. /\ n * AttackPower \in Nat /\ n * AttackPower > 0
        /\ d * DefensePower \in Nat /\ (d > 0 => d * DefensePower > 0)
        /\ (d = 0 => d * DefensePower = 0)
    BY <2>2 DEF AttackPower, DefensePower
  <2> DEFINE A == n * AttackPower
             D == d * DefensePower
  <2>5. A >= D => k = 0
    BY <2>2, <2>3, <2>4 DEF DefendersLeft, DefenderWins
  <2>6. A <= D => s = 0
    BY <2>2, <2>3, <2>4 DEF AttackersLeft, AttackerWins
  <2>7. ASSUME A > D PROVE Proportional(n - s, n, A, D)
    <3>1. CASE d = 0
      <4>1. s = n /\ n - s = 0 /\ D = 0
        BY <2>2, <2>3, <2>4, <3>1 DEF AttackersLeft
      <4>2. 0 * A >= n * 0
        BY <2>2, <2>4
      <4> QED BY <4>1, <4>2 DEF Proportional
    <3>2. CASE d # 0
      <4>1. s = n - Losses(n, A, D)
        BY <2>3, <2>7, <3>2 DEF AttackersLeft, AttackerWins
      <4>2. Losses(n, A, D) \in 0..n
        BY <2>2, <2>4, <2>7, LossesBound
      <4>3. n - s = Losses(n, A, D)
        BY <2>2, <4>1, <4>2
      <4> QED BY <2>2, <2>4, <4>3, LossesAreLeast
    <3> QED BY <3>1, <3>2
  <2>8. ASSUME A < D PROVE Proportional(d - k, d, D, A)
    <3>1. d # 0
      BY <2>2, <2>4, <2>8
    <3>2. k = d - Losses(d, D, A)
      BY <2>3, <2>8, <3>1 DEF DefendersLeft, DefenderWins
    <3>3. Losses(d, D, A) \in 0..d
      BY <2>2, <2>4, <2>8, <3>1, LossesBound
    <3>4. d - k = Losses(d, D, A)
      BY <2>2, <3>2, <3>3
    <3> QED BY <2>2, <2>4, <2>8, <3>4, LossesAreLeast
  <2> HIDE DEF A, D
  <2> QED BY <2>1, <2>5, <2>6, <2>7, <2>8 DEF A, D
<1> QED BY <1>1, Invariance, PTL

-----------------------------------------------------------------------------
(* Which step ends the way out of an army.                                 *)
LEMMA OnlyArrivalsEndIt ==
  ASSUME IInv, [Next]_vars, NEW q \in Orders,
         attacks[q].status = "outbound", attacks'[q].status # "outbound"
  PROVE  \E j \in jobs : Arrive(j) /\ j.of = q
<1>1. attacks \in [Orders -> Attacks]
  BY DEF IInv, TypeOK
<1>2. ~(Tick \/ UNCHANGED vars)
  BY DEF Tick, vars
<1>3. ~Command
  <2>1. ASSUME NEW p \in Orders, NEW v \in Villages, NEW w \in Villages,
               NEW n \in Counts, SendAttack(p, v, w, n)
        PROVE  FALSE
    BY <1>1, <2>1 DEF SendAttack
  <2> QED BY <2>1 DEF Command, Recruit, UpgradeFarm
<1>4. PICK j \in jobs : Execute(j)
  BY <1>2, <1>3 DEF Next
<1>5. ~(FinishRecruit(j) \/ FinishUpgrade(j))
  BY DEF FinishRecruit, FinishUpgrade
<1>6. ~Return(j)
  BY <1>1 DEF Return
<1>7. Arrive(j)
  BY <1>4, <1>5, <1>6 DEF Execute
<1> QED BY <1>1, <1>7 DEF Arrive

(* A raid leaves the target what its hiding place protects, and takes no   *)
(* more than the survivors can carry.                                      *)
THEOREM RaidsKeepLimits == Spec => RaidsRespectLimits
<1>1. ASSUME IInv, [Next]_vars, NEW q \in Orders,
             attacks[q].status = "outbound", attacks'[q].status # "outbound"
      PROVE  /\ stock'[attacks[q].target] < stock[attacks[q].target]
                  => stock'[attacks[q].target] >= Hidden
             /\ attacks'[q].loot <= attacks'[q].surviving * SpearCarry
  <2>1. PICK j \in jobs : Arrive(j) /\ j.of = q
    BY <1>1, OnlyArrivalsEndIt
  <2>2. PICK left : left = AttackersLeft(attacks[q].sent, spears[attacks[q].target])
    OBVIOUS
  <2>3. PICK taken : taken = IF left > 0 THEN Loot(left, attacks[q].target) ELSE 0
    OBVIOUS
  <2>4. /\ attacks[q].target \in Villages
        /\ taken \in Nat /\ taken <= stock[attacks[q].target]
        /\ taken <= left * SpearCarry
        /\ taken > 0 => stock[attacks[q].target] - taken >= Hidden
    BY <1>1, <2>1, <2>2, <2>3, ArriveFacts
  <2>5. /\ attacks' = [attacks EXCEPT ![q] = Fought(attacks[q], left, taken)]
        /\ stock' = [stock EXCEPT ![attacks[q].target] = stock[attacks[q].target] - taken]
    BY <2>1, <2>2, <2>3 DEF Arrive
  <2>6. attacks \in [Orders -> Attacks] /\ stock \in [Villages -> Nat]
    BY <1>1 DEF IInv, TypeOK
  <2>7. attacks'[q].loot = taken /\ attacks'[q].surviving = left
    BY <2>5, <2>6 DEF Fought
  <2>8. stock'[attacks[q].target] = stock[attacks[q].target] - taken
        /\ stock[attacks[q].target] \in Nat
    BY <2>4, <2>5, <2>6
  <2> QED BY <2>4, <2>7, <2>8
<1>2. IInv /\ [Next]_vars =>
        [\A q \in Orders :
           attacks[q].status = "outbound" /\ attacks'[q].status # "outbound" =>
             /\ LET w == attacks[q].target
                IN  stock'[w] < stock[w] => stock'[w] >= Hidden
             /\ attacks'[q].loot <= attacks'[q].surviving * SpearCarry]_vars
  BY <1>1
<1> QED BY <1>2, Invariance, PTL DEF Spec, RaidsRespectLimits
-----------------------------------------------------------------------------
(* Spears away and resources under way, as sums.                           *)

(* The spears that order q keeps away from village v.                      *)
AwayWith(q, v) == IF attacks[q].source = v THEN InField(q) ELSE 0

(* Armies in the field are counted in natural numbers.                     *)
LEMMA FieldIsNat == ASSUME TypeOK, NEW q \in Orders PROVE InField(q) \in Nat
  BY DEF TypeOK, Attacks, InField

(* Of the spears away from a village, those of one order can be told apart *)
(* from those of all others.                                               *)
LEMMA AwaySplits ==
  ASSUME NEW f, \A p \in Orders : f[p] \in Nat,
         NEW S \in SUBSET Orders, NEW q \in Orders
  PROVE  /\ SumFunctionOnSet(f, S) \in Nat
         /\ SumFunctionOnSet(f, S \ {q}) \in Nat
         /\ SumFunctionOnSet(f, S) =
              SumFunctionOnSet(f, S \ {q}) + IF q \in S THEN f[q] ELSE 0
<1>1. IsFiniteSet(S) /\ IsFiniteSet(S \ {q})
  BY FinitenessAssumption, FS_Subset, FS_RemoveElement
<1>2. SumFunctionOnSet(f, S) \in Nat /\ SumFunctionOnSet(f, S \ {q}) \in Nat
  BY <1>1, SumTakesOut
<1>3. CASE q \in S
  <2>1. SumFunctionOnSet(f, S) = f[q] + SumFunctionOnSet(f, S \ {q})
    BY <1>1, <1>3, SumTakesOut
  <2> QED BY <1>2, <1>3, <2>1
<1>4. CASE q \notin S
  <2>1. S \ {q} = S
    BY <1>4
  <2> QED BY <1>2, <1>4, <2>1
<1> QED BY <1>3, <1>4

(* What a village has away is a natural number.                            *)
LEMMA AwayIsNat == ASSUME TypeOK, NEW v PROVE Away(v) \in Nat
<1>1. \A q \in Orders : Field[q] \in Nat
  BY FieldIsNat DEF Field
<1>2. IsFiniteSet({q \in Orders : attacks[q].source = v})
  BY FinitenessAssumption, FS_Subset
<1> QED BY <1>1, <1>2, SumTakesOut DEF Away

(* When one attack changes, the spears away change by what it does.        *)
LEMMA AwayChanges ==
  ASSUME TypeOK, TypeOK', NEW q \in Orders, NEW v,
         \A p \in Orders : p # q => attacks'[p] = attacks[p]
  PROVE  /\ Away(v)' + AwayWith(q, v) = Away(v) + AwayWith(q, v)'
         /\ Away(v)' \in Nat
<1> DEFINE S == {p \in Orders : attacks[p].source = v}
           T == {p \in Orders : attacks'[p].source = v}
<1>1. \A p \in Orders : Field[p] \in Nat /\ Field'[p] \in Nat
  BY FieldIsNat DEF TypeOK, Attacks, Field, InField
<1>2. S \ {q} = T \ {q}
  OBVIOUS
<1>3. SumFunctionOnSet(Field, S \ {q}) = SumFunctionOnSet(Field', S \ {q})
  <2>1. IsFiniteSet(S \ {q})
    BY FinitenessAssumption, FS_Subset
  <2>2. \A p \in S \ {q} : Field[p] = Field'[p]
    BY DEF Field, InField
  <2> QED BY <2>1, <2>2, SumOfSame
<1>4. /\ Away(v) = SumFunctionOnSet(Field, S)
      /\ Away(v)' = SumFunctionOnSet(Field', T)
  BY DEF Away
<1>5. /\ AwayWith(q, v) = IF q \in S THEN Field[q] ELSE 0
      /\ AwayWith(q, v)' = IF q \in T THEN Field'[q] ELSE 0
  BY DEF AwayWith, Field
<1> HIDE DEF S, T
<1>6. S \in SUBSET Orders /\ T \in SUBSET Orders
  BY DEF S, T
<1>7. /\ SumFunctionOnSet(Field, S \ {q}) \in Nat
      /\ SumFunctionOnSet(Field, S) =
           SumFunctionOnSet(Field, S \ {q}) + IF q \in S THEN Field[q] ELSE 0
  BY <1>1, <1>6, AwaySplits
<1>8. /\ SumFunctionOnSet(Field', T) \in Nat
      /\ SumFunctionOnSet(Field', T) =
           SumFunctionOnSet(Field', T \ {q}) + IF q \in T THEN Field'[q] ELSE 0
  BY <1>1, <1>6, AwaySplits
<1>9. Away(v)' \in Nat
  BY <1>4, <1>8
<1>10. Away(v)' + AwayWith(q, v) = Away(v) + AwayWith(q, v)'
  <2>1. PICK rest : rest = SumFunctionOnSet(Field, S \ {q})
    OBVIOUS
  <2>2. rest \in Nat /\ Away(v) = rest + AwayWith(q, v)
    BY <1>4, <1>5, <1>7, <2>1
  <2>3. Away(v)' = rest + AwayWith(q, v)'
    BY <1>2, <1>3, <1>4, <1>5, <1>8, <2>1
  <2>4. AwayWith(q, v) \in Nat /\ AwayWith(q, v)' \in Nat
    BY <1>1, <1>5
  <2> QED BY <2>2, <2>3, <2>4
<1> QED BY <1>9, <1>10

(* What is fed, and what can be, are natural numbers.                      *)
LEMMA FedIsNat ==
  ASSUME TypeOK, NEW v \in Villages
  PROVE  /\ spears[v] \in Nat /\ Away(v) \in Nat /\ training[v] \in Nat
         /\ FarmCapacity[farm[v]] \in Nat
<1>1. Away(v) \in Nat
  BY AwayIsNat
<1>2. farm[v] \in Levels /\ FarmCapacity \in Seq(Nat)
  BY FarmAssumption DEF TypeOK
<1>3. FarmCapacity[farm[v]] \in Nat
  BY <1>2 DEF Levels
<1> QED BY <1>1, <1>3 DEF TypeOK

(* While no attack changes, nobody leaves and nobody comes home.           *)
LEMMA AwayStays == ASSUME UNCHANGED attacks, NEW v PROVE Away(v)' = Away(v)
  BY DEF Away, Field, InField

(* What a step may do to the army of a village: a farm feeds no fewer than *)
(* before, and the army ends up within the farm, or it has not grown and   *)
(* no training was started for it.                                         *)
KeepsToFarm ==
  \A v \in Villages :
    /\ FarmCapacity[farm[v]] <= FarmCapacity[farm'[v]]
    /\ \/ Army(v)' <= FarmCapacity[farm'[v]]
       \/ Army(v)' <= Army(v) /\ (training[v] = 0 => training'[v] = 0)

(* Nobody is away or in training at the start.                             *)
LEMMA InitFits == ASSUME Init PROVE FarmBound
<1>1. \A q \in Orders : Field[q] = 0
  BY DEF Init, NoAttack, Field, InField
<1>2. ASSUME NEW v \in Villages PROVE Away(v) = 0
  <2>1. {q \in Orders : attacks[q].source = v} = {}
    BY <1>2, MilitaryAssumption DEF Init, NoAttack
  <2> QED BY <2>1, FS_EmptySet, SumUnfolds DEF Away
<1>3. ASSUME NEW v \in Villages PROVE Army(v) <= StartSpears[v] /\ training[v] = 0
  <2>1. spears[v] = StartSpears[v] /\ StartSpears[v] \in Nat /\ training[v] = 0
    BY MilitaryAssumption DEF Init
  <2> QED BY <1>2, <2>1 DEF Army
<1> QED BY <1>3 DEF FarmBound

(* A step that changes no farm and lets no army grow.                      *)
LEMMA NobodyAdded ==
  ASSUME TypeOK, farm' = farm,
         \A u \in Villages : /\ Army(u)' <= Army(u)
                             /\ training[u] = 0 => training'[u] = 0
  PROVE  KeepsToFarm
  BY FedIsNat DEF KeepsToFarm

(* start_recruit asks for room for the recruits.                           *)
LEMMA RecruitFits ==
  ASSUME IInv, NEW v \in Villages, NEW n \in Counts, Recruit(v, n)
  PROVE  KeepsToFarm
<1>1. /\ training' = [training EXCEPT ![v] = n] /\ training[v] = 0
      /\ n <= FarmFree(v) /\ UNCHANGED <<spears, farm, attacks>>
      /\ training \in [Villages -> Nat]
  BY DEF Recruit, IInv, TypeOK
<1>2. spears[v] + Away(v) + n <= FarmCapacity[farm[v]]
  BY <1>1, CountsArePositive, FedIsNat DEF FarmFree, IInv
<1>3. ASSUME NEW w \in Villages
      PROVE  /\ FarmCapacity[farm[w]] <= FarmCapacity[farm'[w]]
             /\ \/ Army(w)' <= FarmCapacity[farm'[w]]
                \/ Army(w)' <= Army(w) /\ (training[w] = 0 => training'[w] = 0)
  <2>1. Away(w)' = Away(w)
    BY <1>1, AwayStays
  <2>2. CASE w = v
    BY <1>1, <1>2, <2>1, <2>2, FedIsNat DEF Army, IInv
  <2>3. CASE w # v
    BY <1>1, <2>1, <2>3, FedIsNat DEF Army, IInv
  <2> QED BY <2>2, <2>3
<1> QED BY <1>3 DEF KeepsToFarm

(* Who leaves is fed as before.                                            *)
LEMMA SendFits ==
  ASSUME IInv, IInv', NEW q \in Orders, NEW v \in Villages,
         NEW w \in Villages, NEW n \in Counts, SendAttack(q, v, w, n)
  PROVE  KeepsToFarm
<1>1. /\ attacks' = [attacks EXCEPT ![q] = Outbound(v, w, n)]
      /\ attacks[q].status = "none"
      /\ spears' = [spears EXCEPT ![v] = @ - n]
      /\ n \in Nat
      /\ spears \in [Villages -> Nat] /\ attacks \in [Orders -> Attacks]
      /\ UNCHANGED <<farm, training>>
  BY CountsArePositive DEF SendAttack, IInv, TypeOK
<1>2. /\ \A p \in Orders : p # q => attacks'[p] = attacks[p]
      /\ attacks'[q] = Outbound(v, w, n)
  BY <1>1
<1>3. ASSUME NEW u \in Villages
      PROVE  Army(u)' <= Army(u) /\ (training[u] = 0 => training'[u] = 0)
  <2>1. /\ Away(u)' + AwayWith(q, u) = Away(u) + AwayWith(q, u)'
        /\ Away(u)' \in Nat
    BY <1>2, AwayChanges DEF IInv
  <2>2. AwayWith(q, u) = 0
    BY <1>1 DEF AwayWith, InField
  <2>3. AwayWith(q, u)' = IF u = v THEN n ELSE 0
    BY <1>2 DEF AwayWith, InField, Outbound
  <2>4. spears'[u] = IF u = v THEN spears[u] - n ELSE spears[u]
    BY <1>1
  <2> QED BY <1>1, <2>1, <2>2, <2>3, <2>4, FedIsNat DEF Army, IInv
<1> QED BY <1>3, <1>1, NobodyAdded DEF IInv

(* The dead are fed no more.                                               *)
LEMMA ArriveFits ==
  ASSUME IInv, IInv', NEW j \in jobs, Arrive(j)
  PROVE  KeepsToFarm
<1>1. PICK q : q = j.of
  OBVIOUS
<1>2. PICK left : left = AttackersLeft(attacks[q].sent, spears[attacks[q].target])
  OBVIOUS
<1>3. PICK taken : taken = IF left > 0 THEN Loot(left, attacks[q].target) ELSE 0
  OBVIOUS
<1>4. PICK home, t : /\ t = attacks[q].target
                     /\ home = DefendersLeft(attacks[q].sent, spears[t])
  OBVIOUS
<1>5. /\ q \in Orders /\ attacks[q] \in Attacks
      /\ attacks[q].status = "outbound" /\ t \in Villages
      /\ left \in 0..attacks[q].sent /\ home \in 0..spears[t]
  BY <1>1, <1>2, <1>3, <1>4, ArriveFacts
<1>6. /\ attacks' = [attacks EXCEPT ![q] = Fought(attacks[q], left, taken)]
      /\ spears' = [spears EXCEPT ![t] = home]
      /\ attacks \in [Orders -> Attacks] /\ spears \in [Villages -> Nat]
      /\ UNCHANGED <<farm, training>>
  BY <1>1, <1>2, <1>3, <1>4 DEF Arrive, IInv, TypeOK
<1>7. /\ \A p \in Orders : p # q => attacks'[p] = attacks[p]
      /\ attacks'[q] = Fought(attacks[q], left, taken)
  BY <1>5, <1>6
<1>8. left \in Nat /\ attacks[q].sent \in Nat /\ left <= attacks[q].sent
  BY <1>5 DEF Attacks
<1>9. ASSUME NEW u \in Villages
      PROVE  Army(u)' <= Army(u) /\ (training[u] = 0 => training'[u] = 0)
  <2>1. /\ Away(u)' + AwayWith(q, u) = Away(u) + AwayWith(q, u)'
        /\ Away(u)' \in Nat
    BY <1>5, <1>7, AwayChanges DEF IInv
  <2>2. AwayWith(q, u) = IF attacks[q].source = u THEN attacks[q].sent ELSE 0
    BY <1>5 DEF AwayWith, InField
  <2>3. AwayWith(q, u)' = IF attacks[q].source = u THEN left ELSE 0
    BY <1>7, <1>8 DEF AwayWith, InField, Fought
  <2>4. spears'[u] \in Nat /\ spears'[u] <= spears[u]
    BY <1>5, <1>6
  <2> QED BY <1>6, <1>8, <2>1, <2>2, <2>3, <2>4, FedIsNat DEF Army, IInv
<1> QED BY <1>9, <1>6, NobodyAdded DEF IInv

(* Who comes home was fed before.                                          *)
LEMMA ReturnFits ==
  ASSUME IInv, IInv', NEW j \in jobs, Return(j)
  PROVE  KeepsToFarm
<1>1. PICK q, b : q = j.of /\ b = [attacks[q] EXCEPT !.status = "completed"]
  OBVIOUS
<1>2. /\ q \in Orders /\ attacks[q] \in Attacks /\ attacks \in [Orders -> Attacks]
      /\ attacks[q].status = "returning" /\ attacks[q].source \in Villages
      /\ spears \in [Villages -> Nat]
  BY <1>1 DEF IInv, Return, TypeOK, JobsHaveRecords, ArmiesInOrder
<1>3. /\ attacks' = [attacks EXCEPT ![q] = b]
      /\ spears' = [spears EXCEPT ![attacks[q].source] = @ + attacks[q].surviving]
      /\ UNCHANGED <<farm, training>>
  BY <1>1, <1>2 DEF Return
<1>4. /\ \A p \in Orders : p # q => attacks'[p] = attacks[p]
      /\ attacks'[q].status = "completed" /\ attacks[q].surviving \in Nat
  BY <1>1, <1>2, <1>3 DEF Attacks
<1>5. ASSUME NEW u \in Villages
      PROVE  Army(u)' <= Army(u) /\ (training[u] = 0 => training'[u] = 0)
  <2>1. /\ Away(u)' + AwayWith(q, u) = Away(u) + AwayWith(q, u)'
        /\ Away(u)' \in Nat
    BY <1>2, <1>4, AwayChanges DEF IInv
  <2>2. AwayWith(q, u) = IF attacks[q].source = u THEN attacks[q].surviving ELSE 0
    BY <1>2 DEF AwayWith, InField
  <2>3. AwayWith(q, u)' = 0
    BY <1>4 DEF AwayWith, InField
  <2>4. spears'[u] = IF attacks[q].source = u THEN spears[u] + attacks[q].surviving
                     ELSE spears[u]
    BY <1>2, <1>3
  <2> QED BY <1>3, <1>4, <2>1, <2>2, <2>3, <2>4, FedIsNat DEF Army, IInv
<1> QED BY <1>5, <1>3, NobodyAdded DEF IInv

(* Recruits were fed since they were ordered.                              *)
LEMMA FinishRecruitFits ==
  ASSUME IInv, NEW j \in jobs, FinishRecruit(j)
  PROVE  KeepsToFarm
<1>1. /\ j.of \in Villages
      /\ training \in [Villages -> Nat] /\ spears \in [Villages -> Nat]
      /\ training' = [training EXCEPT ![j.of] = 0]
      /\ spears' = [spears EXCEPT ![j.of] = @ + training[j.of]]
      /\ UNCHANGED <<farm, attacks>>
  BY DEF FinishRecruit, IInv, TypeOK, JobsHaveRecords
<1>2. ASSUME NEW u \in Villages
      PROVE  Army(u)' <= Army(u) /\ (training[u] = 0 => training'[u] = 0)
  <2>1. Away(u)' = Away(u)
    BY <1>1, AwayStays
  <2> QED BY <1>1, <2>1, FedIsNat DEF Army, IInv
<1> QED BY <1>2, <1>1, NobodyAdded DEF IInv

(* A higher farm feeds more.                                               *)
LEMMA FinishUpgradeFits ==
  ASSUME IInv, NEW j \in jobs, FinishUpgrade(j)
  PROVE  KeepsToFarm
<1>1. /\ j.of \in Villages /\ farm \in [Villages -> Levels]
      /\ farm' = [farm EXCEPT ![j.of] = @ + 1]
      /\ farm[j.of] + 1 \in Levels
      /\ UNCHANGED <<spears, training, attacks>>
  BY DEF FinishUpgrade, IInv, TypeOK, JobsHaveRecords, UpgradesPossible
<1>2. ASSUME NEW u \in Villages
      PROVE  /\ FarmCapacity[farm[u]] <= FarmCapacity[farm'[u]]
             /\ Army(u)' <= Army(u) /\ (training[u] = 0 => training'[u] = 0)
  <2>1. Away(u)' = Away(u)
    BY <1>1, AwayStays
  <2>2. farm'[u] = IF u = j.of THEN farm[u] + 1 ELSE farm[u]
    BY <1>1
  <2>3. u = j.of => FarmCapacity[farm[u]] < FarmCapacity[farm[u] + 1]
    <3>1. PICK l, m : l = farm[u] /\ m = farm[u] + 1
      OBVIOUS
    <3>2. u = j.of => l \in Levels /\ m \in Levels /\ l < m
      BY <1>1, <3>1, LevelsAreNat
    <3>3. u = j.of => FarmCapacity[l] < FarmCapacity[m]
      BY <3>2, FarmAssumption
    <3> QED BY <3>1, <3>3
  <2>4. u = j.of => FarmCapacity[farm[u] + 1] \in Nat
    BY <1>1, FarmAssumption DEF Levels
  <2> QED BY <1>1, <2>1, <2>2, <2>3, <2>4, FedIsNat DEF Army, IInv
<1> QED BY <1>2 DEF KeepsToFarm

(* Steps that touch neither soldiers nor farms.                            *)
LEMMA OthersFit ==
  ASSUME IInv, UNCHANGED <<spears, training, farm, attacks>>
  PROVE  KeepsToFarm
  BY AwayStays, FedIsNat, NobodyAdded DEF Army, IInv

(* Armies and capacities are natural numbers, before a step and after it.  *)
LEMMA ArmyIsNat ==
  ASSUME IInv, IInv', NEW v \in Villages
  PROVE  /\ Army(v) \in Nat /\ Army(v)' \in Nat /\ StartSpears[v] \in Nat
         /\ FarmCapacity[farm[v]] \in Nat /\ FarmCapacity[farm'[v]] \in Nat
<1>1. Away(v) \in Nat
  BY AwayIsNat DEF IInv
<1>2. Away(v)' \in Nat
  <2>1. \A q \in Orders : Field'[q] \in Nat
    BY DEF IInv, TypeOK, Attacks, Field, InField
  <2>2. IsFiniteSet({q \in Orders : attacks'[q].source = v})
    BY FinitenessAssumption, FS_Subset
  <2> QED BY <2>1, <2>2, SumTakesOut DEF Away
<1>3. /\ spears[v] \in Nat /\ training[v] \in Nat /\ farm[v] \in Levels
      /\ spears'[v] \in Nat /\ training'[v] \in Nat /\ farm'[v] \in Levels
  BY DEF IInv, TypeOK
<1>4. \A l \in Levels : FarmCapacity[l] \in Nat
  BY FarmAssumption DEF Levels
<1>5. StartSpears[v] \in Nat
  BY MilitaryAssumption
<1> QED BY <1>1, <1>2, <1>3, <1>4, <1>5 DEF Army

(* Every step keeps to the farms.                                          *)
LEMMA NextFits == ASSUME IInv, IInv', [Next]_vars PROVE KeepsToFarm
<1>1. CASE Tick \/ UNCHANGED vars
  BY <1>1, OthersFit DEF Tick, vars
<1>2. CASE Command
  <2>1. CASE \E v \in Villages : UpgradeFarm(v)
    BY <2>1, OthersFit DEF UpgradeFarm
  <2> QED BY <1>2, <2>1, RecruitFits, SendFits DEF Command
<1>3. CASE \E j \in jobs : Execute(j)
  BY <1>3, ArriveFits, ReturnFits, FinishRecruitFits, FinishUpgradeFits DEF Execute
<1> QED BY <1>1, <1>2, <1>3 DEF Next

(* An army grows only by a training, and never beyond what the farm feeds, *)
(* whatever army its village has: at home, under way or in training.       *)
THEOREM ArmyGrowsWithinFarm == Spec => [][KeepsToFarm]_vars
<1>1. IInv /\ IInv' /\ [Next]_vars => [KeepsToFarm]_vars
  BY NextFits
<1> QED BY <1>1, Invariance, PTL DEF Spec

(* No training makes a village exceed its farm, whatever army the village  *)
(* had at the start; one that was over its farm from the start trains      *)
(* nobody and does not grow.                                               *)
THEOREM ArmyFitsFarm == Spec => []FarmBound
<1>1. Init => FarmBound
  BY InitFits
<1>2. IInv /\ IInv' /\ FarmBound /\ [Next]_vars => FarmBound'
  <2> SUFFICES ASSUME IInv, IInv', FarmBound, KeepsToFarm PROVE FarmBound'
    BY NextFits
  <2>1. ASSUME NEW v \in Villages
        PROVE  \/ Army(v)' <= FarmCapacity[farm'[v]]
               \/ training'[v] = 0 /\ Army(v)' <= StartSpears[v]
    <3>1. /\ Army(v) \in Nat /\ Army(v)' \in Nat /\ StartSpears[v] \in Nat
          /\ FarmCapacity[farm[v]] \in Nat /\ FarmCapacity[farm'[v]] \in Nat
      BY ArmyIsNat
    <3> QED BY <3>1 DEF FarmBound, KeepsToFarm
  <2> QED BY <2>1 DEF FarmBound
<1> QED BY <1>1, <1>2, Invariance, PTL DEF Spec

(* Loot changes hands: when one stock and what one army carries change by  *)
(* opposite amounts, wealth stays.                                         *)
LEMMA WealthMoves ==
  ASSUME TypeOK, TypeOK', NEW v \in Villages, NEW q \in Orders,
         \A w \in Villages : w # v => stock'[w] = stock[w],
         \A p \in Orders : p # q => attacks'[p] = attacks[p],
         stock'[v] + Carried'[q] = stock[v] + Carried[q]
  PROVE  Wealth' = Wealth
<1>1. \A w \in Villages : stock[w] \in Nat /\ stock'[w] \in Nat
  BY DEF TypeOK
<1>2. \A p \in Orders : Carried[p] \in Nat /\ Carried'[p] \in Nat
  BY DEF TypeOK, Attacks, Carried
<1>3. \A p \in Orders \ {q} : Carried[p] = Carried'[p]
  BY DEF Carried
<1>4. /\ SumFunctionOnSet(stock, Villages) \in Nat
      /\ SumFunctionOnSet(stock', Villages) \in Nat
      /\ SumFunctionOnSet(Carried, Orders) \in Nat
      /\ SumFunctionOnSet(Carried', Orders) \in Nat
  BY <1>1, <1>2, FinitenessAssumption, SumTakesOut
<1>5. SumFunctionOnSet(stock, Villages) + stock'[v]
        = SumFunctionOnSet(stock', Villages) + stock[v]
  BY <1>1, FinitenessAssumption, SumChanges
<1>6. SumFunctionOnSet(Carried, Orders) + Carried'[q]
        = SumFunctionOnSet(Carried', Orders) + Carried[q]
  BY <1>2, <1>3, FinitenessAssumption, SumChanges
<1>7. Wealth' = SumFunctionOnSet(stock', Villages) + SumFunctionOnSet(Carried', Orders)
  BY DEF Wealth
<1> QED BY <1>1, <1>2, <1>4, <1>5, <1>6, <1>7 DEF Wealth

(* An army that leaves takes nothing along.                                *)
LEMMA SendConserves ==
  ASSUME IInv, IInv', NEW q \in Orders, NEW v \in Villages, NEW w \in Villages,
         NEW n \in Counts, SendAttack(q, v, w, n)
  PROVE  Wealth' = Wealth
<1>1. /\ attacks' = [attacks EXCEPT ![q] = Outbound(v, w, n)]
      /\ attacks[q].status = "none" /\ attacks \in [Orders -> Attacks]
      /\ stock' = stock
  BY DEF SendAttack, IInv, TypeOK
<1>2. Carried'[q] = Carried[q]
  BY <1>1 DEF Carried, Outbound
<1> QED BY <1>1, <1>2, WealthMoves DEF IInv, TypeOK

(* What a battle takes is what the army carries.                           *)
LEMMA ArriveConserves ==
  ASSUME IInv, IInv', NEW j \in jobs, Arrive(j)
  PROVE  Wealth' = Wealth
<1>1. PICK q : q = j.of
  OBVIOUS
<1>2. PICK left : left = AttackersLeft(attacks[q].sent, spears[attacks[q].target])
  OBVIOUS
<1>3. PICK taken : taken = IF left > 0 THEN Loot(left, attacks[q].target) ELSE 0
  OBVIOUS
<1>4. PICK t : t = attacks[q].target
  OBVIOUS
<1>5. /\ q \in Orders /\ attacks[q] \in Attacks
      /\ attacks[q].status = "outbound" /\ t \in Villages
      /\ left \in 0..attacks[q].sent
      /\ taken \in Nat /\ taken <= stock[t]
  BY <1>1, <1>2, <1>3, <1>4, ArriveFacts
<1>6. /\ attacks' = [attacks EXCEPT ![q] = Fought(attacks[q], left, taken)]
      /\ stock' = [stock EXCEPT ![t] = @ - taken]
      /\ attacks \in [Orders -> Attacks] /\ stock \in [Villages -> Nat]
  BY <1>1, <1>2, <1>3, <1>4 DEF Arrive, IInv, TypeOK
<1>7. /\ \A p \in Orders : p # q => attacks'[p] = attacks[p]
      /\ attacks'[q] = Fought(attacks[q], left, taken)
      /\ \A w \in Villages : w # t => stock'[w] = stock[w]
      /\ stock'[t] = stock[t] - taken
  BY <1>5, <1>6
<1>8. Carried[q] = 0
  BY <1>5 DEF Carried
<1>9. Carried'[q] = taken
  <2>1. ~(left > 0) => taken = 0
    BY <1>3
  <2> QED BY <1>5, <1>7, <2>1 DEF Carried, Fought
<1>10. stock'[t] + Carried'[q] = stock[t] + Carried[q]
  BY <1>5, <1>6, <1>7, <1>8, <1>9
<1> QED BY <1>5, <1>7, <1>10, WealthMoves DEF IInv

(* What the army carries is what it brings home.                           *)
LEMMA ReturnConserves ==
  ASSUME IInv, IInv', NEW j \in jobs, Return(j)
  PROVE  Wealth' = Wealth
<1>1. PICK q, b, v : /\ q = j.of /\ b = [attacks[q] EXCEPT !.status = "completed"]
                     /\ v = attacks[q].source
  OBVIOUS
<1>2. /\ q \in Orders /\ attacks[q] \in Attacks /\ attacks \in [Orders -> Attacks]
      /\ attacks[q].status = "returning" /\ v \in Villages
      /\ stock \in [Villages -> Nat]
  BY <1>1 DEF IInv, Return, TypeOK, JobsHaveRecords, ArmiesInOrder
<1>3. /\ attacks' = [attacks EXCEPT ![q] = b]
      /\ stock' = [stock EXCEPT ![v] = @ + attacks[q].loot]
  BY <1>1, <1>2 DEF Return
<1>4. /\ \A p \in Orders : p # q => attacks'[p] = attacks[p]
      /\ attacks'[q].status = "completed" /\ attacks[q].loot \in Nat
      /\ \A w \in Villages : w # v => stock'[w] = stock[w]
      /\ stock'[v] = stock[v] + attacks[q].loot
  BY <1>1, <1>2, <1>3 DEF Attacks
<1>5. Carried[q] = attacks[q].loot /\ Carried'[q] = 0
  BY <1>2, <1>4 DEF Carried
<1>6. stock'[v] + Carried'[q] = stock[v] + Carried[q]
  BY <1>2, <1>4, <1>5
<1> QED BY <1>2, <1>4, <1>6, WealthMoves DEF IInv

(* Raids move resources; they neither make nor lose any.                   *)
THEOREM RaidsConserve == Spec => RaidsConserveWealth
<1>1. ASSUME IInv, IInv', [Next]_vars, attacks' # attacks PROVE Wealth' = Wealth
  <2>1. ~(Tick \/ UNCHANGED vars)
    BY <1>1 DEF Tick, vars
  <2>2. CASE Command
    <3>1. PICK q \in Orders, v \in Villages, w \in Villages, n \in Counts :
            SendAttack(q, v, w, n)
      BY <1>1, <2>2 DEF Command, Recruit, UpgradeFarm
    <3> QED BY <1>1, <3>1, SendConserves
  <2>3. CASE \E j \in jobs : Execute(j)
    <3>1. PICK j \in jobs : Arrive(j) \/ Return(j)
      BY <1>1, <2>3 DEF Execute, FinishRecruit, FinishUpgrade
    <3> QED BY <1>1, <3>1, ArriveConserves, ReturnConserves
  <2> QED BY <1>1, <2>1, <2>2, <2>3 DEF Next
<1>2. IInv /\ IInv' /\ [Next]_vars => [attacks' # attacks => Wealth' = Wealth]_vars
  BY <1>1
<1> QED BY <1>2, Invariance, PTL DEF Spec, RaidsConserveWealth

-----------------------------------------------------------------------------
(* The soldiers of Military as Expeditions sees them.                      *)
Phase == [q \in Orders |-> attacks[q].status]
From  == [q \in Orders |-> attacks[q].source]

(* What changes for Expeditions when one attack changes.                   *)
LEMMA OneAttackChanges ==
  ASSUME NEW q \in Orders,
         \A p \in Orders : p # q => attacks'[p] = attacks[p]
  PROVE  /\ Field' = [Field EXCEPT ![q] = InField(q)']
         /\ Phase' = [Phase EXCEPT ![q] = attacks'[q].status]
         /\ From' = [From EXCEPT ![q] = attacks'[q].source]
<1>1. \A p \in Orders : p # q => InField(p)' = InField(p)
  BY DEF InField
<1>2. Phase' = [Phase EXCEPT ![q] = attacks'[q].status]
  BY DEF Phase
<1>3. From' = [From EXCEPT ![q] = attacks'[q].source]
  BY DEF From
<1>4. Field' = [Field EXCEPT ![q] = InField(q)']
  BY <1>1 DEF Field
<1> QED BY <1>2, <1>3, <1>4

(* Nothing else moves soldiers.                                            *)
LEMMA NoAttackChanges ==
  ASSUME UNCHANGED attacks
  PROVE  UNCHANGED <<Field, Phase, From>>
  BY DEF Field, Phase, From, InField

(* Sending an army is a departure.                                         *)
LEMMA SendDeparts ==
  ASSUME IInv, NEW q \in Orders, NEW v \in Villages, NEW w \in Villages,
         NEW n \in Counts, SendAttack(q, v, w, n)
  PROVE  Soldiers!Depart(q, v)
<1>1. attacks' = [attacks EXCEPT ![q] = Outbound(v, w, n)]
  BY DEF SendAttack
<1>2. /\ Outbound(v, w, n).status = "outbound" /\ Outbound(v, w, n).sent = n
      /\ Outbound(v, w, n).source = v
  BY DEF Outbound
<1>3. /\ Field' = [Field EXCEPT ![q] = n]
      /\ Phase' = [Phase EXCEPT ![q] = "outbound"]
      /\ From' = [From EXCEPT ![q] = v]
  <2>1. attacks \in [Orders -> Attacks]
    BY DEF IInv, TypeOK
  <2>2. /\ attacks'[q] = Outbound(v, w, n)
        /\ \A p \in Orders : p # q => attacks'[p] = attacks[p]
    BY <1>1, <2>1
  <2>3. InField(q)' = n
    BY <1>2, <2>2 DEF InField
  <2> QED BY <1>2, <2>2, <2>3, OneAttackChanges
<1>4. n \in 1..spears[v]
  BY CountsArePositive DEF SendAttack, IInv, TypeOK
<1>5. Phase[q] = "none" /\ spears' = [spears EXCEPT ![v] = @ - n]
  BY DEF SendAttack, Phase
<1> QED BY <1>3, <1>4, <1>5 DEF Soldiers!Depart, Field, Phase, From

(* An arrival is a fight.                                                  *)
LEMMA ArriveFights ==
  ASSUME IInv, NEW j \in jobs, Arrive(j)
  PROVE  \E q \in Orders, w \in Villages : Soldiers!Fight(q, w)
<1>1. PICK q : q = j.of
  OBVIOUS
<1>2. PICK left : left = AttackersLeft(attacks[q].sent, spears[attacks[q].target])
  OBVIOUS
<1>3. PICK taken : taken = IF left > 0 THEN Loot(left, attacks[q].target) ELSE 0
  OBVIOUS
<1>4. PICK d : d = DefendersLeft(attacks[q].sent, spears[attacks[q].target])
  OBVIOUS
<1>5. PICK w : w = attacks[q].target
  OBVIOUS
<1>6. /\ q \in Orders /\ attacks[q] \in Attacks
      /\ attacks[q].status = "outbound" /\ w \in Villages
      /\ attacks[q].source # w
      /\ left \in 0..attacks[q].sent /\ d \in 0..spears[w]
  BY <1>1, <1>2, <1>3, <1>4, <1>5, ArriveFacts
<1>7. left = 0 \/ d = 0
  BY <1>2, <1>4, <1>5, <1>6, BattleBounds DEF IInv, TypeOK, Attacks
<1>8. /\ attacks' = [attacks EXCEPT ![q] = Fought(attacks[q], left, taken)]
      /\ spears' = [spears EXCEPT ![w] = d]
  BY <1>1, <1>2, <1>3, <1>4, <1>5 DEF Arrive
<1>9. /\ Fought(attacks[q], left, taken).status = IF left > 0 THEN "returning" ELSE "completed"
      /\ Fought(attacks[q], left, taken).surviving = left
      /\ Fought(attacks[q], left, taken).source = attacks[q].source
  BY DEF Fought
<1>10. /\ Field' = [Field EXCEPT ![q] = left]
       /\ Phase' = [Phase EXCEPT ![q] = IF left > 0 THEN "returning" ELSE "completed"]
       /\ From' = [From EXCEPT ![q] = attacks[q].source]
  <2>1. /\ attacks'[q] = Fought(attacks[q], left, taken)
        /\ \A p \in Orders : p # q => attacks'[p] = attacks[p]
    BY <1>6, <1>8 DEF IInv, TypeOK
  <2>2. InField(q)' = left
    <3>1. left > 0 \/ left = 0
      BY <1>6 DEF Attacks
    <3> QED BY <1>9, <2>1, <3>1 DEF InField
  <2> QED BY <1>6, <1>9, <2>1, <2>2, OneAttackChanges
<1>11. /\ Phase[q] = "outbound" /\ From[q] = attacks[q].source
       /\ Field[q] = attacks[q].sent /\ From' = From
  BY <1>6, <1>10 DEF Phase, From, Field, InField
<1>12. Soldiers!Fight(q, w)
  BY <1>6, <1>7, <1>8, <1>10, <1>11 DEF Soldiers!Fight, Field, Phase, From
<1> QED BY <1>6, <1>12

(* A return is a homecoming.                                               *)
LEMMA ReturnComesHome ==
  ASSUME IInv, NEW j \in jobs, Return(j)
  PROVE  \E q \in Orders : Soldiers!ComeHome(q)
<1>1. PICK q : q = j.of
  OBVIOUS
<1>2. PICK b : b = [attacks[q] EXCEPT !.status = "completed"]
  OBVIOUS
<1>3. /\ q \in Orders /\ attacks[q] \in Attacks /\ attacks \in [Orders -> Attacks]
      /\ attacks[q].status = "returning" /\ attacks[q].source \in Villages
  BY <1>1 DEF IInv, Return, TypeOK, JobsHaveRecords, ArmiesInOrder
<1>4. /\ attacks' = [attacks EXCEPT ![q] = b]
      /\ spears' = [spears EXCEPT ![attacks[q].source] = @ + attacks[q].surviving]
  BY <1>1, <1>2, <1>3 DEF Return
<1>5. b.status = "completed" /\ b.source = attacks[q].source
  BY <1>2, <1>3 DEF Attacks
<1>6. /\ Field' = [Field EXCEPT ![q] = 0]
      /\ Phase' = [Phase EXCEPT ![q] = "completed"]
      /\ From' = [From EXCEPT ![q] = attacks[q].source]
  <2>1. attacks'[q] = b /\ \A p \in Orders : p # q => attacks'[p] = attacks[p]
    BY <1>3, <1>4
  <2>2. InField(q)' = 0
    BY <1>5, <2>1 DEF InField
  <2> QED BY <1>3, <1>5, <2>1, <2>2, OneAttackChanges
<1>7. /\ Phase[q] = "returning" /\ From[q] = attacks[q].source
      /\ Field[q] = attacks[q].surviving /\ From' = From
  BY <1>3, <1>6 DEF Phase, From, Field, InField
<1>8. Soldiers!ComeHome(q)
  BY <1>4, <1>6, <1>7 DEF Soldiers!ComeHome, Field, Phase, From
<1> QED BY <1>3, <1>8

(* The end of a training is where soldiers come from.                      *)
LEMMA FinishRecruitTrains ==
  ASSUME IInv, NEW j \in jobs, FinishRecruit(j)
  PROVE  \E v \in Villages : Soldiers!Train(v)
<1>1. /\ j.of \in Villages /\ spears \in [Villages -> Nat]
      /\ training[j.of] \in Nat /\ training[j.of] > 0
  BY DEF IInv, FinishRecruit, TypeOK, JobsHaveRecords
<1>2. spears' = [spears EXCEPT ![j.of] = @ + training[j.of]]
  BY DEF FinishRecruit
<1>3. UNCHANGED <<Field, Phase, From>>
  BY NoAttackChanges DEF FinishRecruit
<1>4. spears'[j.of] > spears[j.of] /\ spears' = [spears EXCEPT ![j.of] = spears'[j.of]]
  <2>1. \A v \in Villages : spears'[v] = IF v = j.of THEN spears[v] + training[v] ELSE spears[v]
    BY <1>1, <1>2
  <2>2. spears[j.of] \in Nat /\ spears'[j.of] = spears[j.of] + training[j.of]
    BY <1>1, <2>1
  <2>3. spears'[j.of] > spears[j.of]
    BY <1>1, <2>2
  <2> QED BY <1>1, <1>2, <2>2, <2>3
<1>5. Soldiers!Train(j.of)
  BY <1>3, <1>4 DEF Soldiers!Train, Field, Phase, From
<1> QED BY <1>1, <1>5

(* Soldiers go where Expeditions says: none is duplicated, lost or taken   *)
(* along by another army.                                                  *)
THEOREM SoldiersGoTheirWay == Spec => SoldiersAccounted
<1>1. Init => Soldiers!Init
  BY DEF Init, NoAttack, InField, Field, Soldiers!Init
<1>2. IInv /\ [Next]_vars => [Soldiers!Next]_(Soldiers!vars)
  <2> SUFFICES ASSUME IInv, [Next]_vars
               PROVE  Soldiers!Next \/ UNCHANGED Soldiers!vars
    OBVIOUS
  <2>0. ASSUME UNCHANGED <<spears, attacks>> PROVE UNCHANGED Soldiers!vars
    BY <2>0, NoAttackChanges DEF Soldiers!vars, Field, Phase, From
  <2>1. CASE Tick \/ UNCHANGED vars
    BY <2>0, <2>1 DEF Tick, vars
  <2>2. CASE Command
    <3>1. CASE \E v \in Villages : UpgradeFarm(v)
      BY <2>0, <3>1 DEF UpgradeFarm
    <3>2. CASE \E v \in Villages, n \in Counts : Recruit(v, n)
      BY <2>0, <3>2 DEF Recruit
    <3>3. CASE \E q \in Orders, v, w \in Villages, n \in Counts : SendAttack(q, v, w, n)
      <4>1. \E q \in Orders, v \in Villages : Soldiers!Depart(q, v)
        BY <3>3, SendDeparts
      <4> QED BY <4>1 DEF Soldiers!Next
    <3> QED BY <2>2, <3>1, <3>2, <3>3 DEF Command
  <2>3. CASE \E j \in jobs : Execute(j)
    <3>1. PICK j \in jobs : Execute(j)
      BY <2>3
    <3>2. CASE Arrive(j)
      <4>1. \E q \in Orders, w \in Villages : Soldiers!Fight(q, w)
        BY <3>2, ArriveFights
      <4> QED BY <4>1 DEF Soldiers!Next
    <3>3. CASE Return(j)
      <4>1. \E q \in Orders : Soldiers!ComeHome(q)
        BY <3>3, ReturnComesHome
      <4> QED BY <4>1 DEF Soldiers!Next
    <3>4. CASE FinishRecruit(j)
      <4>1. \E v \in Villages : Soldiers!Train(v)
        BY <3>4, FinishRecruitTrains
      <4> QED BY <4>1 DEF Soldiers!Next
    <3>5. CASE FinishUpgrade(j)
      BY <2>0, <3>5 DEF FinishUpgrade
    <3> QED BY <3>1, <3>2, <3>3, <3>4, <3>5 DEF Execute
  <2> QED BY <2>1, <2>2, <2>3 DEF Next
<1> QED BY <1>1, <1>2, Invariance, PTL DEF Spec, SoldiersAccounted, Soldiers!Spec
=============================================================================
