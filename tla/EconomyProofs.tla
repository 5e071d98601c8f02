--------------------------- MODULE EconomyProofs ---------------------------
(***************************************************************************)
(* Proofs about Economy, for any buildings, rates, prices and delays:      *)
(* books are never settled beyond the moment a pending upgrade takes       *)
(* effect, and therefore production is the ideal one, to the fraction, and *)
(* the page, which counts by itself, does not run ahead of it.             *)
(***************************************************************************)
EXTENDS Economy, TLAPS

(* A pending upgrade leads to a level that exists.                         *)
UpgradePossible == pending # NoUpgrade => level[pending.kind] < MaxLevel

IInv == TypeOK /\ NeverPastBoundary /\ UpgradePossible

Levels == [Kinds -> 0..MaxLevel]

(* What books say a village owns, in fractions.                            *)
Worth(b, r) == b.stock[r] * Hour + b.remainder[r]

-----------------------------------------------------------------------------
(* Numbers.                                                                *)

(* Nothing is lost between whole units and the remainder.                  *)
LEMMA Division ==
  ASSUME NEW x \in Nat, NEW h \in Nat \ {0}
  PROVE  /\ x \div h \in Nat
         /\ x % h \in 0..(h - 1)
         /\ (x \div h) * h + (x % h) = x
  OBVIOUS

LEMMA Times == ASSUME NEW x \in Nat, NEW y \in Nat PROVE x * y \in Nat
  OBVIOUS

LEMMA Distributes ==
  ASSUME NEW x \in Int, NEW y \in Int, NEW k \in Int
  PROVE  /\ (x + y) * k = x * k + y * k
         /\ (x - y) * k = x * k - y * k
         /\ x * k \in Int /\ y * k \in Int
  OBVIOUS

LEMMA Negative ==
  ASSUME NEW x \in Nat, NEW k \in Nat
  PROVE  (0 - x) * k = 0 - x * k /\ x * k \in Int
  OBVIOUS

LEMMA OneMore ==
  ASSUME NEW x \in Int, NEW y, y = x + 1, NEW k \in Nat
  PROVE  y * k = x * k + k /\ x * k \in Int
  OBVIOUS

(* Every level has a rate.                                                 *)
LEMMA RateIsNat ==
  ASSUME NEW lvl \in Levels, NEW r \in Resources
  PROVE  lvl[r] \in 0..MaxLevel /\ Rate[lvl[r]] \in Nat
  BY KindsAssumption, RateAssumption DEF Levels

-----------------------------------------------------------------------------
(* Settling.                                                               *)

(* effective_at is not before resources_updated_at, and apart from that it *)
(* is the moment requested or the boundary, whichever is earlier.          *)
LEMMA UntilIs ==
  ASSUME NEW b \in BooksType, NEW up \in Upgrades, NEW at \in Nat
  PROVE  /\ Until(b, up, at) \in Nat
         /\ b.updated \in Nat
         /\ b.updated <= Until(b, up, at)
         /\ b.updated <= at => Until(b, up, at) <= at
         /\ up # NoUpgrade /\ b.updated <= up.runAt => Until(b, up, at) <= up.runAt
         /\ up # NoUpgrade /\ b.updated <= up.runAt /\ up.runAt <= at
              => Until(b, up, at) = up.runAt
         /\ b.updated <= at /\ (up = NoUpgrade \/ at <= up.runAt)
              => Until(b, up, at) = at
<1>1. b.updated \in Nat /\ up.runAt \in Nat
  BY DEF BooksType, Upgrades, NoUpgrade
<1> QED BY <1>1 DEF Until

(* Settling adds exactly what was produced since the last settlement.      *)
LEMMA SettleAdds ==
  ASSUME NEW b \in BooksType, NEW lvl \in Levels, NEW up \in Upgrades, NEW at \in Nat,
         NEW s, s = Settle(b, lvl, up, at)
  PROVE  /\ s \in BooksType
         /\ s.updated = Until(b, up, at)
         /\ \A r \in Resources :
              /\ Worth(s, r) = Worth(b, r)
                   + (Until(b, up, at) - b.updated) * Rate[lvl[r]]
              /\ s.stock[r] >= b.stock[r]
<1> DEFINE t == Until(b, up, at)
           got == [r \in Resources |-> b.remainder[r] + (t - b.updated) * Rate[lvl[r]]]
<1>1. s = Books(b, got, t)
  BY DEF Settle
<1>2. t \in Nat /\ b.updated \in Nat /\ t - b.updated \in Nat
  BY UntilIs
<1>3. \A r \in Resources :
        /\ b.stock[r] \in Nat /\ b.remainder[r] \in Nat
        /\ (t - b.updated) * Rate[lvl[r]] \in Nat
        /\ got[r] = b.remainder[r] + (t - b.updated) * Rate[lvl[r]]
        /\ got[r] \in Nat
  <2> SUFFICES ASSUME NEW r \in Resources
               PROVE  /\ b.stock[r] \in Nat /\ b.remainder[r] \in Nat
                      /\ (t - b.updated) * Rate[lvl[r]] \in Nat
                      /\ got[r] = b.remainder[r] + (t - b.updated) * Rate[lvl[r]]
                      /\ got[r] \in Nat
    OBVIOUS
  <2>1. b.stock[r] \in Nat /\ b.remainder[r] \in Nat
    BY KindsAssumption DEF BooksType
  <2>2. (t - b.updated) * Rate[lvl[r]] \in Nat
    BY <1>2, RateIsNat, Times
  <2> QED BY <2>1, <2>2
<1> HIDE DEF t, got
<1>4. \A r \in Resources :
        /\ got[r] \div Hour \in Nat /\ got[r] % Hour \in 0..(Hour - 1)
        /\ (got[r] \div Hour) * Hour + (got[r] % Hour) = got[r]
  BY <1>3, KindsAssumption, Division
<1>5. /\ s.updated = t
      /\ s.stock = [r \in Resources |-> b.stock[r] + got[r] \div Hour]
      /\ s.remainder = [r \in Resources |-> got[r] % Hour]
  BY <1>1 DEF Books
<1>6. s \in BooksType
  <2>1. s.stock \in [Resources -> Nat]
    BY <1>3, <1>4, <1>5
  <2>2. s.remainder \in [Resources -> 0..(Hour - 1)]
    BY <1>4, <1>5
  <2> QED BY <1>1, <1>2, <1>5, <2>1, <2>2 DEF Books, BooksType
<1>7. ASSUME NEW r \in Resources
      PROVE  /\ Worth(s, r) = Worth(b, r) + (t - b.updated) * Rate[lvl[r]]
             /\ s.stock[r] >= b.stock[r]
  <2>1. /\ s.stock[r] = b.stock[r] + got[r] \div Hour
        /\ s.remainder[r] = got[r] % Hour
    BY <1>5
  <2>2. s.stock[r] * Hour = b.stock[r] * Hour + (got[r] \div Hour) * Hour
    <3>1. PICK q : q = got[r] \div Hour
      OBVIOUS
    <3>2. q \in Nat /\ b.stock[r] \in Nat /\ s.stock[r] = b.stock[r] + q
      BY <1>3, <1>4, <2>1, <3>1
    <3>3. (b.stock[r] + q) * Hour = b.stock[r] * Hour + q * Hour
      BY <3>2, KindsAssumption, Distributes
    <3> QED BY <3>1, <3>2, <3>3
  <2>3. b.stock[r] * Hour \in Nat /\ (got[r] \div Hour) * Hour \in Nat
    BY <1>3, <1>4, KindsAssumption, Times
  <2>4. Worth(s, r) = b.stock[r] * Hour + got[r]
    BY <1>3, <1>4, <2>1, <2>2, <2>3 DEF Worth
  <2>5. Worth(s, r) = Worth(b, r) + (t - b.updated) * Rate[lvl[r]]
    BY <1>3, <2>3, <2>4 DEF Worth
  <2> QED BY <1>3, <1>4, <2>1, <2>5
<1> QED BY <1>5, <1>6, <1>7 DEF t
-----------------------------------------------------------------------------
(* What is owed from moment u on.                                          *)
OwedSince(u, r) ==
  IF Overdue
  THEN (pending.runAt - u) * Rate[level[r]]
       + (now - pending.runAt) * Rate[IdealLevel[r]]
  ELSE (now - u) * Rate[level[r]]

(* The types that IInv gives.                                              *)
LEMMA Types ==
  ASSUME IInv
  PROVE  /\ now \in Nat /\ now <= MaxTime
         /\ books \in BooksType /\ books.updated \in Nat /\ books.updated <= now
         /\ level \in Levels
         /\ pending \in Upgrades
         /\ pending # NoUpgrade => /\ pending.kind \in Kinds /\ pending.runAt \in Nat
                                  /\ books.updated <= pending.runAt
                                  /\ level[pending.kind] \in 0..MaxLevel
                                  /\ level[pending.kind] < MaxLevel
         /\ spent \in [Resources -> Int]
<1>1. now \in Nat /\ now <= MaxTime
  BY KindsAssumption DEF IInv, TypeOK
<1>2. books \in BooksType /\ books.updated \in Nat /\ books.updated <= now
  BY DEF IInv, TypeOK, NeverPastBoundary, BooksType
<1>3. level \in Levels /\ pending \in Upgrades /\ spent \in [Resources -> Int]
  BY DEF IInv, TypeOK, Levels
<1>4. pending # NoUpgrade => pending.kind \in Kinds /\ pending.runAt \in Nat
  BY <1>3 DEF Upgrades
<1> QED BY <1>1, <1>2, <1>3, <1>4 DEF IInv, NeverPastBoundary, UpgradePossible, Levels

(* An overdue upgrade counts already.                                      *)
LEMMA IdealLevels ==
  ASSUME IInv
  PROVE  /\ IdealLevel \in Levels
         /\ ~Overdue => IdealLevel = level
<1>1. CASE Overdue
  <2>1. level[pending.kind] + 1 \in 0..MaxLevel
    BY <1>1, Types, KindsAssumption DEF Overdue
  <2> QED BY <1>1, <2>1, Types DEF IdealLevel, Levels
<1>2. CASE ~Overdue
  BY <1>2, Types DEF IdealLevel
<1> QED BY <1>1, <1>2

(* Settling to now changes nothing about what a village owns; an overdue   *)
(* upgrade stops it at run_at.                                             *)
LEMMA SettledFacts ==
  ASSUME IInv
  PROVE  /\ Settled \in BooksType
         /\ Settled.updated \in Nat /\ Settled.updated <= now
         /\ books.updated <= Settled.updated
         /\ pending # NoUpgrade => Settled.updated <= pending.runAt
         /\ Settled.updated = IF Overdue THEN pending.runAt ELSE now
         /\ \A r \in Resources :
              Worth(Settled, r) + OwedSince(Settled.updated, r) = Bank(r)
<1> DEFINE t == Until(books, pending, now)
           u == books.updated
<1>1. /\ Settled \in BooksType
      /\ Settled.updated = t
      /\ \A r \in Resources : Worth(Settled, r) = Worth(books, r) + (t - u) * Rate[level[r]]
  BY Types, SettleAdds DEF Settled
<1>2. /\ t \in Nat /\ u \in Nat /\ u <= t /\ t <= now
      /\ pending # NoUpgrade => t <= pending.runAt
      /\ t = IF Overdue THEN pending.runAt ELSE now
  <2>1. pending # NoUpgrade => pending.runAt \in Nat
    BY Types
  <2> QED BY <2>1, Types, UntilIs DEF Overdue
<1>3. ASSUME NEW r \in Resources
      PROVE  Worth(Settled, r) + OwedSince(t, r) = Bank(r)
  <2> DEFINE k == Rate[level[r]]
             m == Rate[IdealLevel[r]]
             R == pending.runAt
  <2>1. k \in Nat /\ m \in Nat
    BY Types, IdealLevels, RateIsNat
  <2>2. Worth(books, r) \in Int
    <3>1. books.stock[r] \in Nat /\ books.remainder[r] \in Nat
      BY Types, KindsAssumption DEF BooksType
    <3>2. books.stock[r] * Hour \in Nat
      BY <3>1, Times, KindsAssumption
    <3> QED BY <3>1, <3>2 DEF Worth
  <2>3. Bank(r) = Worth(books, r) + OwedSince(u, r)
    BY DEF Bank, Worth, Owed, OwedSince
  <2>4. CASE Overdue
    <3>1. R \in Nat /\ t = R /\ (R - u) * k \in Int /\ (now - R) * m \in Int
      BY <1>2, <2>1, <2>4, Types, Distributes DEF Overdue
    <3>2. (R - R) * k = 0
      BY <2>1, <3>1
    <3>3. /\ OwedSince(t, r) = (R - R) * k + (now - R) * m
          /\ OwedSince(u, r) = (R - u) * k + (now - R) * m
      BY <2>4, <3>1 DEF OwedSince
    <3>4. Worth(Settled, r) = Worth(books, r) + (R - u) * k
      BY <1>1, <3>1
    <3> HIDE DEF k, m, R, t, u
    <3> QED BY <2>2, <2>3, <3>1, <3>2, <3>3, <3>4
  <2>5. CASE ~Overdue
    <3>1. t = now /\ (now - now) * k = 0 /\ (now - u) * k \in Int
      BY <1>2, <2>1, <2>5, Types, Distributes
    <3>2. OwedSince(t, r) = (now - now) * k /\ OwedSince(u, r) = (now - u) * k
      BY <2>5, <3>1 DEF OwedSince
    <3>3. Worth(Settled, r) = Worth(books, r) + (now - u) * k
      BY <1>1, <3>1
    <3> HIDE DEF k, m, R, t, u
    <3> QED BY <2>2, <2>3, <3>1, <3>2, <3>3
  <2> QED BY <2>4, <2>5
<1> QED BY <1>1, <1>2, <1>3

(* Taking whole units.                                                     *)
LEMMA TakeFacts ==
  ASSUME IInv, NEW c \in [Resources -> Nat], Take(c)
  PROVE  /\ books' \in BooksType
         /\ books'.updated = Settled.updated
         /\ spent' \in [Resources -> Int]
         /\ \A r \in Resources : /\ spent'[r] = spent[r] + c[r]
                                 /\ Worth(books', r) = Worth(Settled, r) - c[r] * Hour
<1>1. Settled \in BooksType
  BY SettledFacts
<1>2. \A r \in Resources : /\ c[r] \in Nat /\ Settled.stock[r] \in Nat
                          /\ Settled.stock[r] - c[r] \in Nat
                          /\ Settled.remainder[r] \in Int
  BY <1>1, KindsAssumption DEF Take, BooksType
<1>3. books' = [Settled EXCEPT !.stock = [r \in Resources |-> Settled.stock[r] - c[r]]]
  BY DEF Take
<1>4. /\ books'.stock = [r \in Resources |-> Settled.stock[r] - c[r]]
      /\ books'.remainder = Settled.remainder /\ books'.updated = Settled.updated
      /\ books' \in BooksType
  BY <1>1, <1>2, <1>3 DEF BooksType
<1>5. spent' = [r \in Resources |-> spent[r] + c[r]] /\ spent \in [Resources -> Int]
  BY Types DEF Take
<1>6. \A r \in Resources : Worth(books', r) = Worth(Settled, r) - c[r] * Hour
  <2> SUFFICES ASSUME NEW r \in Resources
               PROVE  Worth(books', r) = Worth(Settled, r) - c[r] * Hour
    OBVIOUS
  <2>1. (Settled.stock[r] - c[r]) * Hour = Settled.stock[r] * Hour - c[r] * Hour
    BY <1>2, KindsAssumption, Distributes
  <2>2. Settled.stock[r] * Hour \in Int /\ c[r] * Hour \in Int
    BY <1>2, KindsAssumption, Times
  <2> QED BY <1>2, <1>4, <2>1, <2>2 DEF Worth
<1> QED BY <1>2, <1>4, <1>5, <1>6
(* What taking leaves is what the village owned, less what was taken.      *)
LEMMA TakeKeepsInv ==
  ASSUME IInv, NEW c \in [Resources -> Nat], Take(c), UNCHANGED <<now, level, seen>>,
         pending' # pending => /\ pending = NoUpgrade
                               /\ pending' \in Upgrades
                               /\ pending'.runAt > now
                               /\ level[pending'.kind] < MaxLevel
  PROVE  IInv'
<1>1. /\ books' \in BooksType /\ books'.updated = Settled.updated
      /\ spent' \in [Resources -> Int]
  BY TakeFacts
<1>2. /\ Settled.updated \in Nat /\ Settled.updated <= now
      /\ pending # NoUpgrade => Settled.updated <= pending.runAt
  BY SettledFacts
<1>3. TypeOK'
  BY <1>1 DEF IInv, TypeOK
<1>4. NeverPastBoundary'
  <2>1. now \in Nat /\ (pending' # NoUpgrade => pending'.runAt \in Nat)
    BY <1>3, Types DEF TypeOK, Upgrades
  <2> QED BY <1>1, <1>2, <2>1 DEF NeverPastBoundary
<1>5. UpgradePossible'
  BY DEF IInv, UpgradePossible
<1> QED BY <1>3, <1>4, <1>5 DEF IInv

(* The price of an upgrade, of a training.                                 *)
LEMMA PricesAreNat ==
  ASSUME NEW n \in Nat
  PROVE  /\ [r \in Resources |-> n * UnitCost[r]] \in [Resources -> Nat]
         /\ [r \in Resources |-> n * SpearCost[r]] \in [Resources -> Nat]
<1>1. \A r \in Resources : UnitCost[r] \in Nat /\ SpearCost[r] \in Nat
  BY KindsAssumption
<1> QED BY <1>1, Times

(* A new upgrade takes effect later than now.                              *)
LEMMA StartFacts ==
  ASSUME IInv, NEW k \in Kinds, NEW lag \in 0..MaxLag, StartUpgrade(k, lag),
         NEW c, c = [r \in Resources |-> (level[k] + 1) * UnitCost[r]]
  PROVE  /\ c \in [Resources -> Nat] /\ Take(c)
         /\ pending = NoUpgrade
         /\ pending' \in Upgrades /\ pending'.kind = k /\ pending'.kind # NoKind
         /\ pending'.runAt > now
         /\ level[k] < MaxLevel
         /\ UNCHANGED <<now, level, seen>>
<1>1. level[k] \in Nat /\ level[k] + 1 \in Nat /\ now \in Nat /\ lag \in Nat
  BY Types, KindsAssumption DEF Levels
<1>2. c \in [Resources -> Nat]
  <2>1. [r \in Resources |-> (level[k] + 1) * UnitCost[r]] \in [Resources -> Nat]
    BY <1>1, PricesAreNat
  <2> QED BY <2>1
<1>3. (level[k] + 1) * UnitTime \in Nat /\ (level[k] + 1) * UnitTime > 0
  <2>1. (level[k] + 1) * UnitTime = level[k] * UnitTime + 1 * UnitTime
    BY <1>1, KindsAssumption, Distributes
  <2>2. level[k] * UnitTime \in Nat /\ 1 * UnitTime = UnitTime
    BY <1>1, KindsAssumption, Times
  <2> QED BY <2>1, <2>2, KindsAssumption
<1> DEFINE d == (level[k] + 1) * UnitTime
<1>4. pending' = [kind |-> k, runAt |-> now + lag + d] /\ d \in Nat /\ d > 0
  BY <1>3 DEF StartUpgrade
<1> HIDE DEF d
<1>5. now + lag + d \in Nat /\ now + lag + d > now
  BY <1>1, <1>4
<1>6. pending' \in Upgrades /\ pending'.kind = k /\ pending'.runAt > now
  BY <1>4, <1>5 DEF Upgrades
<1>7. k # NoKind
  BY KindsAssumption
<1>8. level[k] < MaxLevel
  <2>1. MaxLevelOf[k] \in 0..MaxLevel /\ level[k] < MaxLevelOf[k]
    BY KindsAssumption DEF StartUpgrade
  <2> QED BY <1>1, <2>1, KindsAssumption
<1> QED BY <1>2, <1>6, <1>7, <1>8 DEF StartUpgrade, Cost

(* An army brings resources.                                               *)
LEMMA BringFacts ==
  ASSUME IInv, NEW c \in Loots, BringHome(c)
  PROVE  /\ books' \in BooksType
         /\ books'.updated = Settled.updated
         /\ spent' \in [Resources -> Int]
         /\ \A r \in Resources : /\ spent'[r] = spent[r] - c[r] /\ c[r] \in Nat
                                 /\ Worth(books', r) = Worth(Settled, r) + c[r] * Hour
<1>1. Settled \in BooksType
  BY SettledFacts
<1>2. \A r \in Resources : /\ c[r] \in Nat /\ Settled.stock[r] \in Nat
                          /\ Settled.stock[r] + c[r] \in Nat
                          /\ Settled.remainder[r] \in Int
  BY <1>1, KindsAssumption DEF BooksType
<1>3. books' = [Settled EXCEPT !.stock = [r \in Resources |-> Settled.stock[r] + c[r]]]
  BY DEF BringHome
<1>4. /\ books'.stock = [r \in Resources |-> Settled.stock[r] + c[r]]
      /\ books'.remainder = Settled.remainder /\ books'.updated = Settled.updated
      /\ books' \in BooksType
  BY <1>1, <1>2, <1>3 DEF BooksType
<1>5. spent' = [r \in Resources |-> spent[r] - c[r]] /\ spent \in [Resources -> Int]
  BY Types DEF BringHome
<1>6. \A r \in Resources : Worth(books', r) = Worth(Settled, r) + c[r] * Hour
  <2> SUFFICES ASSUME NEW r \in Resources
               PROVE  Worth(books', r) = Worth(Settled, r) + c[r] * Hour
    OBVIOUS
  <2>1. (Settled.stock[r] + c[r]) * Hour = Settled.stock[r] * Hour + c[r] * Hour
    BY <1>2, KindsAssumption, Distributes
  <2>2. Settled.stock[r] * Hour \in Int /\ c[r] * Hour \in Int
    BY <1>2, KindsAssumption, Times
  <2> QED BY <1>2, <1>4, <2>1, <2>2 DEF Worth
<1> QED BY <1>2, <1>4, <1>5, <1>6

(* An upgrade is completed: first to run_at at the old level, then to now  *)
(* at the new one.                                                         *)
LEMMA CompleteFacts ==
  ASSUME IInv, CompleteUpgrade
  PROVE  /\ Overdue /\ level' = IdealLevel /\ pending' = NoUpgrade
         /\ books' \in BooksType /\ books'.updated = now
         /\ \A r \in Resources : Worth(books', r) = Bank(r)
<1>1. Overdue /\ level' = IdealLevel /\ pending' = NoUpgrade /\ pending # NoUpgrade
  BY DEF CompleteUpgrade, Overdue, IdealLevel
<1> DEFINE first == Settle(books, level, pending, pending.runAt)
           R == pending.runAt
           u == books.updated
<1>2. /\ R \in Nat /\ R <= now /\ u <= R /\ now \in Nat /\ u \in Nat
      /\ books \in BooksType /\ level \in Levels /\ pending \in Upgrades
  BY <1>1, Types DEF Overdue
<1>3. /\ first \in BooksType /\ first.updated = R
      /\ \A r \in Resources : Worth(first, r) = Worth(books, r) + (R - u) * Rate[level[r]]
  <2>1. Until(books, pending, R) = R
    BY <1>1, <1>2, UntilIs
  <2>2. PICK s : s = first
    OBVIOUS
  <2> HIDE DEF first
  <2>3. s = Settle(books, level, pending, R)
    BY <2>2 DEF first
  <2> QED BY <1>2, <2>1, <2>2, <2>3, SettleAdds
<1>4. books' = Settle(first, IdealLevel, NoUpgrade, now)
  BY <1>1 DEF CompleteUpgrade
<1>5. NoUpgrade \in Upgrades
  BY DEF Upgrades
<1> HIDE DEF first
<1>6. Until(first, NoUpgrade, now) = now
  BY <1>2, <1>3, <1>5, UntilIs
<1>7. /\ books' \in BooksType /\ books'.updated = now
      /\ \A r \in Resources :
           Worth(books', r) = Worth(first, r) + (now - R) * Rate[IdealLevel[r]]
  <2>1. PICK s : s = books'
    OBVIOUS
  <2>2. s = Settle(first, IdealLevel, NoUpgrade, now) /\ IdealLevel \in Levels
    BY <1>4, <2>1, IdealLevels
  <2>3. /\ s \in BooksType /\ s.updated = Until(first, NoUpgrade, now)
        /\ \A r \in Resources :
             Worth(s, r) = Worth(first, r)
               + (Until(first, NoUpgrade, now) - first.updated) * Rate[IdealLevel[r]]
    <3>1. first \in BooksType /\ now \in Nat
      BY <1>2, <1>3
    <3> HIDE DEF R, u
    <3> QED BY <1>5, <2>2, <3>1, SettleAdds
  <2> QED BY <1>3, <1>6, <2>1, <2>3
<1>8. ASSUME NEW r \in Resources PROVE Worth(books', r) = Bank(r)
  <2>1. Rate[level[r]] \in Nat /\ Rate[IdealLevel[r]] \in Nat
    BY Types, IdealLevels, RateIsNat
  <2>2. books.stock[r] \in Nat /\ books.remainder[r] \in Nat
    BY Types, KindsAssumption DEF BooksType
  <2>3. books.stock[r] * Hour \in Nat
    BY <2>2, Times, KindsAssumption
  <2>4. (R - u) * Rate[level[r]] \in Int /\ (now - R) * Rate[IdealLevel[r]] \in Int
    BY <1>2, <2>1, Distributes
  <2>5. Bank(r) = Worth(books, r) + ((R - u) * Rate[level[r]] + (now - R) * Rate[IdealLevel[r]])
    BY <1>1 DEF Bank, Worth, Owed
  <2>6. Worth(books', r) = (Worth(books, r) + (R - u) * Rate[level[r]]) + (now - R) * Rate[IdealLevel[r]]
    BY <1>3, <1>7
  <2>7. Worth(books, r) \in Int
    BY <2>2, <2>3 DEF Worth
  <2> HIDE DEF R, u
  <2> QED BY <2>4, <2>5, <2>6, <2>7
<1> QED BY <1>1, <1>7, <1>8

-----------------------------------------------------------------------------
(* The invariant holds initially.                                          *)
LEMMA InitInv == ASSUME Init PROVE IInv
<1>1. NewBooks \in BooksType /\ NewBooks.updated = 0
  BY KindsAssumption DEF NewBooks, BooksType
<1>2. NoUpgrade \in Upgrades
  BY DEF Upgrades
<1>3. spent \in [Resources -> Int] /\ now \in 0..MaxTime /\ level \in [Kinds -> 0..MaxLevel]
  BY KindsAssumption DEF Init
<1>4. 0 \in -MaxAhead..MaxAhead
  BY KindsAssumption
<1>5. TypeOK
  BY <1>1, <1>2, <1>3, <1>4 DEF Init, TypeOK
<1> QED BY <1>1, <1>5 DEF Init, IInv, NeverPastBoundary, UpgradePossible

(* Every step preserves the invariant.                                     *)
LEMMA NextInv == ASSUME IInv, [Next]_vars PROVE IInv'
<1>1. CASE Tick
  <2>1. now' \in 0..MaxTime /\ books.updated <= now'
    BY <1>1, Types, KindsAssumption DEF Tick
  <2> QED BY <1>1, <2>1 DEF Tick, IInv, TypeOK, NeverPastBoundary, UpgradePossible
<1>2. ASSUME NEW ahead \in -MaxAhead..MaxAhead, Show(ahead) PROVE IInv'
  BY <1>2, SettledFacts DEF Show, IInv, TypeOK, NeverPastBoundary, UpgradePossible
<1>3. CASE ShowArmy
  BY <1>3, SettledFacts DEF ShowArmy, IInv, TypeOK, NeverPastBoundary, UpgradePossible
<1>4. CASE CompleteUpgrade
  <2>1. TypeOK'
    BY <1>4, CompleteFacts, IdealLevels DEF CompleteUpgrade, IInv, TypeOK, Levels, Upgrades
  <2>2. NeverPastBoundary' /\ UpgradePossible'
    BY <1>4, CompleteFacts, Types DEF CompleteUpgrade, NeverPastBoundary, UpgradePossible
  <2> QED BY <2>1, <2>2 DEF IInv
<1>5. ASSUME NEW k \in Kinds, NEW lag \in 0..MaxLag, StartUpgrade(k, lag)
      PROVE  IInv'
  BY <1>5, StartFacts, TakeKeepsInv
<1>6. ASSUME NEW n \in 1..MaxStock, Recruit(n)
      PROVE  IInv'
  <2>0. n \in Nat
    OBVIOUS
  <2>1. [r \in Resources |-> n * SpearCost[r]] \in [Resources -> Nat]
    BY <2>0, PricesAreNat
  <2>2. PICK c : c = [r \in Resources |-> n * SpearCost[r]]
    OBVIOUS
  <2>3. Take(c) /\ UNCHANGED <<now, level, seen>> /\ pending' = pending
    BY <1>6, <2>2 DEF Recruit
  <2> QED BY <2>1, <2>2, <2>3, TakeKeepsInv
<1>7. ASSUME NEW c \in Loots, Plundered(c)
      PROVE  IInv'
  <2>1. c \in [Resources -> Nat]
    BY KindsAssumption
  <2>2. Take(c) /\ UNCHANGED <<now, level, seen>> /\ pending' = pending
    BY <1>7 DEF Plundered
  <2> QED BY <2>1, <2>2, TakeKeepsInv
<1>8. ASSUME NEW c \in Loots, BringHome(c)
      PROVE  IInv'
  <2>1. TypeOK'
    BY <1>8, BringFacts DEF BringHome, IInv, TypeOK
  <2>2. NeverPastBoundary' /\ UpgradePossible'
    BY <1>8, BringFacts, SettledFacts DEF BringHome, IInv, NeverPastBoundary, UpgradePossible
  <2> QED BY <2>1, <2>2 DEF IInv
<1>9. CASE UNCHANGED vars
  BY <1>9 DEF vars, IInv, TypeOK, NeverPastBoundary, UpgradePossible
<1> QED BY <1>1, <1>2, <1>3, <1>4, <1>5, <1>6, <1>7, <1>8, <1>9 DEF Next

(* The inductive invariant.                                                *)
THEOREM Invariance == Spec => []IInv
<1>1. Init => IInv
  BY InitInv
<1>2. IInv /\ [Next]_vars => IInv'
  BY NextInv
<1> QED BY <1>1, <1>2, PTL DEF Spec

(* Types: in particular no resource is ever negative, and remainders are   *)
(* less than a unit, as the constraint of the table demands.               *)
THEOREM TypeCorrect == Spec => []TypeOK
<1>1. IInv => TypeOK
  BY DEF IInv
<1> QED BY <1>1, Invariance, PTL

(* Whoever settles, and whenever, stops at the run_at of a pending upgrade.*)
THEOREM BoundaryKept == Spec => []NeverPastBoundary
<1>1. IInv => NeverPastBoundary
  BY DEF IInv
<1> QED BY <1>1, Invariance, PTL
-----------------------------------------------------------------------------
(* The refinement.                                                         *)
IdealBank == [r \in Resources |-> Bank(r)]
IdealPlan == IF Overdue THEN NoUpgrade ELSE pending

(* After a settlement nothing is owed, unless an upgrade is overdue.       *)
LEMMA OwedIsNat ==
  ASSUME IInv, NEW r \in Resources
  PROVE  /\ OwedSince(Settled.updated, r) \in Nat
         /\ ~Overdue => OwedSince(Settled.updated, r) = 0
<1> DEFINE k == Rate[level[r]]
           m == Rate[IdealLevel[r]]
<1>1. k \in Nat /\ m \in Nat /\ now \in Nat
  BY Types, IdealLevels, RateIsNat
<1>2. CASE Overdue
  <2>1. /\ pending.runAt \in Nat /\ now - pending.runAt \in Nat
        /\ Settled.updated = pending.runAt
    BY <1>1, <1>2, Types, SettledFacts DEF Overdue
  <2>2. (pending.runAt - pending.runAt) * k = 0 /\ (now - pending.runAt) * m \in Nat
    BY <1>1, <2>1, Times
  <2>3. OwedSince(Settled.updated, r)
          = (pending.runAt - pending.runAt) * k + (now - pending.runAt) * m
    BY <1>2, <2>1 DEF OwedSince
  <2> HIDE DEF k, m
  <2> QED BY <1>2, <2>2, <2>3
<1>3. CASE ~Overdue
  <2>1. OwedSince(Settled.updated, r) = (now - now) * k
    BY <1>3, SettledFacts DEF OwedSince
  <2>2. (now - now) * k = 0
    BY <1>1
  <2> QED BY <2>1, <2>2
<1> QED BY <1>2, <1>3

(* Looking at the village changes nothing for IdealProduction.             *)
LEMMA SettlingStutters ==
  ASSUME IInv, books' = Settled, UNCHANGED <<now, level, pending>>
  PROVE  UNCHANGED <<IdealBank, IdealLevel, IdealPlan>>
<1>1. (Overdue' <=> Overdue) /\ IdealLevel' = IdealLevel /\ IdealPlan' = IdealPlan
  BY DEF Overdue, IdealLevel, IdealPlan
<1>2. ASSUME NEW r \in Resources PROVE Bank(r)' = Bank(r)
  <2>1. Owed(r)' = OwedSince(Settled.updated, r)
    BY <1>1 DEF Owed, OwedSince
  <2>2. Bank(r)' = Worth(Settled, r) + OwedSince(Settled.updated, r)
    BY <2>1 DEF Bank, Worth
  <2> QED BY <2>2, SettledFacts
<1> QED BY <1>1, <1>2 DEF IdealBank

(* Neither does the completion of an upgrade: it counts already.           *)
LEMMA CompletionStutters ==
  ASSUME IInv, CompleteUpgrade
  PROVE  UNCHANGED <<IdealBank, IdealLevel, IdealPlan>>
<1>1. /\ Overdue /\ level' = IdealLevel /\ pending' = NoUpgrade
      /\ books' \in BooksType /\ books'.updated = now
      /\ \A r \in Resources : Worth(books', r) = Bank(r)
  BY CompleteFacts
<1>2. now' = now /\ now \in Nat
  BY Types DEF CompleteUpgrade
<1>3. ~Overdue' /\ IdealLevel' = IdealLevel /\ IdealPlan' = IdealPlan
  BY <1>1 DEF Overdue, IdealLevel, IdealPlan
<1>4. ASSUME NEW r \in Resources PROVE Bank(r)' = Bank(r)
  <2>1. Rate[IdealLevel[r]] \in Nat
    BY IdealLevels, RateIsNat
  <2>2. Owed(r)' = (now - now) * Rate[IdealLevel[r]]
    BY <1>1, <1>2, <1>3 DEF Owed
  <2>3. Owed(r)' = 0
    BY <1>2, <2>1, <2>2
  <2>4. Bank(r)' = Worth(books', r) + 0
    BY <2>3 DEF Bank, Worth
  <2>5. Worth(books', r) \in Int
    <3>1. books'.stock[r] \in Nat /\ books'.remainder[r] \in Nat
      BY <1>1, KindsAssumption DEF BooksType
    <3>2. books'.stock[r] * Hour \in Nat
      BY <3>1, KindsAssumption, Times
    <3> QED BY <3>1, <3>2 DEF Worth
  <2> QED BY <1>1, <2>4, <2>5
<1> QED BY <1>3, <1>4 DEF IdealBank

(* Commands and raids move whole units, and only they.                     *)
LEMMA MovingChanges ==
  ASSUME IInv, UNCHANGED <<now, level>>,
         books' \in BooksType, books'.updated = Settled.updated,
         spent' \in [Resources -> Int],
         \A r \in Resources : Worth(books', r) = Worth(Settled, r) - (spent'[r] - spent[r]) * Hour,
         pending' # pending => /\ pending = NoUpgrade
                               /\ pending'.kind \in Kinds
                               /\ pending'.runAt \in Nat
                               /\ pending'.runAt > now
  PROVE  Ideal!Change
<1>1. now \in Nat
  BY Types
<1>2. /\ Overdue' <=> Overdue
      /\ IdealLevel' = IdealLevel
      /\ pending' = pending => IdealPlan' = IdealPlan
      /\ pending' # pending => ~Overdue /\ IdealPlan = NoUpgrade /\ IdealPlan' = pending'
  <2>1. CASE pending' = pending
    BY <2>1 DEF Overdue, IdealLevel, IdealPlan
  <2>2. CASE pending' # pending
    BY <1>1, <2>2 DEF Overdue, IdealLevel, IdealPlan
  <2> QED BY <2>1, <2>2
<1>3. ASSUME NEW r \in Resources
      PROVE  /\ Bank(r)' = Bank(r) - (spent'[r] - spent[r]) * Hour
             /\ Bank(r)' >= 0
  <2>1. Owed(r)' = OwedSince(Settled.updated, r)
    <3>1. CASE pending' = pending
      BY <1>2, <3>1 DEF Owed, OwedSince
    <3>2. CASE pending' # pending
      BY <1>2, <3>2 DEF Owed, OwedSince
    <3> QED BY <3>1, <3>2
  <2>2. Bank(r)' = Worth(books', r) + OwedSince(Settled.updated, r)
    BY <2>1 DEF Bank, Worth
  <2>3. Worth(books', r) \in Nat
    <3>1. books'.stock[r] \in Nat /\ books'.remainder[r] \in Nat
      BY KindsAssumption DEF BooksType
    <3>2. books'.stock[r] * Hour \in Nat
      BY <3>1, KindsAssumption, Times
    <3> QED BY <3>1, <3>2 DEF Worth
  <2>4. Worth(Settled, r) \in Nat
    <3>1. Settled.stock[r] \in Nat /\ Settled.remainder[r] \in Nat
      BY SettledFacts, KindsAssumption DEF BooksType
    <3>2. Settled.stock[r] * Hour \in Nat
      BY <3>1, KindsAssumption, Times
    <3> QED BY <3>1, <3>2 DEF Worth
  <2>5. Bank(r) = Worth(Settled, r) + OwedSince(Settled.updated, r)
    BY SettledFacts
  <2>6. spent'[r] - spent[r] \in Int
    BY Types
  <2>7. (spent'[r] - spent[r]) * Hour \in Int
    BY <2>6, KindsAssumption
  <2> QED BY <2>2, <2>3, <2>4, <2>5, <2>7, OwedIsNat
<1>4. /\ IdealBank' = [r \in Resources |-> IdealBank[r] - (spent'[r] - spent[r]) * Hour]
      /\ \A r \in Resources : IdealBank'[r] >= 0
  BY <1>3 DEF IdealBank
<1>5. \/ IdealPlan' = IdealPlan
      \/ IdealPlan = NoUpgrade /\ IdealPlan'.kind \in Kinds /\ IdealPlan'.runAt > now
  BY <1>2
<1> QED BY <1>2, <1>4, <1>5 DEF Ideal!Change, IdealBank, IdealPlan
(* Time passes: production at the level that counts now, which an upgrade  *)
(* raises at its run_at.                                                   *)
LEMMA TickTicks ==
  ASSUME IInv, Tick
  PROVE  Ideal!Tick
<1> DEFINE R == pending.runAt
           u == books.updated
<1>1. /\ now \in Nat /\ now' = now + 1 /\ u \in Nat /\ u <= now
      /\ UNCHANGED <<books, level, pending, spent>>
  BY Types DEF Tick
<1>2. pending # NoUpgrade => R \in Nat /\ u <= R
  BY Types
<1>3. ASSUME NEW r \in Resources
      PROVE  Bank(r)' = Bank(r) + Rate[IdealLevel[r]]
  <2> DEFINE k == Rate[level[r]]
             m == Rate[IdealLevel[r]]
             w == books.stock[r] * Hour + books.remainder[r]
  <2>1. k \in Nat /\ m \in Nat
    BY Types, IdealLevels, RateIsNat
  <2>2. w \in Nat
    <3>1. books.stock[r] \in Nat /\ books.remainder[r] \in Nat
      BY Types, KindsAssumption DEF BooksType
    <3>2. books.stock[r] * Hour \in Nat
      BY <3>1, KindsAssumption, Times
    <3> QED BY <3>1, <3>2
  <2>3. Bank(r) = w + Owed(r) /\ Bank(r)' = w + Owed(r)'
    BY <1>1 DEF Bank
  <2>4. CASE Overdue
    <3>1. Overdue' /\ IdealLevel' = IdealLevel
      BY <1>1, <1>2, <2>4 DEF Overdue, IdealLevel
    <3>2. /\ Owed(r) = (R - u) * k + (now - R) * m
          /\ Owed(r)' = (R - u) * k + ((now + 1) - R) * m
      BY <1>1, <2>4, <3>1 DEF Owed
    <3>3. /\ R \in Nat /\ (R - u) * k \in Int /\ (now - R) * m \in Int
          /\ ((now + 1) - R) * m = (now - R) * m + m
      <4>1. R \in Nat /\ R - u \in Int /\ now - R \in Int /\ (now + 1) - R = (now - R) + 1
        BY <1>1, <1>2, <2>4 DEF Overdue
      <4>2. PICK x, y : x = now - R /\ y = (now + 1) - R
        OBVIOUS
      <4>3. y * m = x * m + m /\ x * m \in Int
        <5> HIDE DEF m, R
        <5> QED BY <2>1, <4>1, <4>2, OneMore
      <4>4. (R - u) * k \in Int
        BY <2>1, <4>1, Distributes
      <4> QED BY <4>1, <4>2, <4>3, <4>4
    <3> HIDE DEF k, m, w, R, u
    <3> QED BY <2>1, <2>2, <2>3, <3>2, <3>3 DEF m
  <2>5. CASE ~Overdue
    <3>1. Owed(r) = (now - u) * k /\ m = k
      BY <2>5, IdealLevels DEF Owed
    <3>2. ((now + 1) - u) * k = (now - u) * k + k /\ (now - u) * k \in Int
      <4>1. now - u \in Int /\ (now + 1) - u = (now - u) + 1
        BY <1>1
      <4>2. PICK x, y : x = now - u /\ y = (now + 1) - u
        OBVIOUS
      <4>3. y * k = x * k + k /\ x * k \in Int
        <5> HIDE DEF k, u
        <5> QED BY <2>1, <4>1, <4>2, OneMore
      <4> QED BY <4>2, <4>3
    <3>3. Owed(r)' = ((now + 1) - u) * k
      <4>1. CASE Overdue'
        <5>1. R = now + 1
          BY <1>1, <1>2, <2>5, <4>1 DEF Overdue
        <5>2. Owed(r)' = (R - u) * k + ((now + 1) - R) * Rate[IdealLevel'[r]]
          BY <1>1, <4>1 DEF Owed
        <5>3. Rate[IdealLevel'[r]] \in Nat
          <6>1. level[pending.kind] + 1 \in 0..MaxLevel
            BY <1>1, <4>1, Types, KindsAssumption DEF Overdue
          <6>2. IdealLevel' \in Levels
            BY <1>1, <4>1, <6>1, Types DEF IdealLevel, Levels
          <6>3. PICK lvl : lvl = IdealLevel'
            OBVIOUS
          <6> QED BY <6>2, <6>3, RateIsNat
        <5>4. ((now + 1) - R) * Rate[IdealLevel'[r]] = 0
          BY <1>1, <5>1, <5>3
        <5>5. (R - u) * k \in Int
          BY <1>1, <2>1, <5>1, Distributes
        <5> QED BY <5>1, <5>2, <5>4, <5>5
      <4>2. CASE ~Overdue'
        BY <1>1, <4>2 DEF Owed
      <4> QED BY <4>1, <4>2
    <3> HIDE DEF k, w, R, u
    <3> QED BY <2>1, <2>2, <2>3, <3>1, <3>2, <3>3 DEF k
  <2> QED BY <2>4, <2>5
<1>4. IdealBank' = [r \in Resources |-> IdealBank[r] + Rate[IdealLevel[r]]]
  BY <1>3 DEF IdealBank
<1>5. \/ /\ IdealPlan # NoUpgrade /\ IdealPlan.runAt = now'
         /\ IdealLevel' = [IdealLevel EXCEPT ![IdealPlan.kind] = @ + 1]
         /\ IdealPlan' = NoUpgrade
      \/ /\ IdealPlan # NoUpgrade => IdealPlan.runAt > now'
         /\ UNCHANGED <<IdealLevel, IdealPlan>>
  <2>1. CASE Overdue
    BY <1>1, <1>2, <2>1 DEF Overdue, IdealLevel, IdealPlan
  <2>2. CASE ~Overdue /\ Overdue'
    <3>1. pending # NoUpgrade /\ R = now + 1
      BY <1>1, <1>2, <2>2 DEF Overdue
    <3>2. IdealPlan = pending /\ IdealLevel = level /\ IdealPlan' = NoUpgrade
      BY <2>2 DEF IdealPlan, IdealLevel
    <3>3. IdealLevel' = [level EXCEPT ![pending.kind] = @ + 1]
      BY <1>1, <2>2 DEF IdealLevel
    <3> QED BY <1>1, <3>1, <3>2, <3>3
  <2>3. CASE ~Overdue /\ ~Overdue'
    BY <1>1, <1>2, <2>3 DEF Overdue, IdealLevel, IdealPlan
  <2> QED BY <2>1, <2>2, <2>3
<1> QED BY <1>1, <1>4, <1>5 DEF Ideal!Tick, Ideal!Raised, IdealBank, IdealPlan

(* Settled late, often or rarely, and with upgrades completed late,        *)
(* resources are what continuous production would have made them.          *)
THEOREM ProductionIsIdeal == Spec => ProducesAsIdeal
<1>1. ASSUME Init PROVE Ideal!Init
  <2>1. ~Overdue /\ IdealLevel = StartLevel
    BY <1>1 DEF Init, Overdue, IdealLevel
  <2>2. ASSUME NEW r \in Resources PROVE Bank(r) = StartStock * Hour
    <3>1. /\ books.stock[r] = StartStock /\ books.remainder[r] = 0
          /\ Owed(r) = (0 - 0) * Rate[StartLevel[r]]
      BY <1>1, <2>1 DEF Init, NewBooks, Owed
    <3>2. Rate[StartLevel[r]] \in Nat /\ StartStock * Hour \in Nat
      BY KindsAssumption, RateIsNat, Times DEF Levels
    <3> QED BY <3>1, <3>2 DEF Bank
  <2> QED BY <1>1, <2>1, <2>2 DEF Init, Ideal!Init
<1>2. ASSUME IInv, [Next]_vars PROVE [Ideal!Next]_(Ideal!vars)
  <2>1. CASE Tick
    BY <1>2, <2>1, TickTicks DEF Ideal!Next
  <2>2. CASE ShowArmy \/ \E ahead \in -MaxAhead..MaxAhead : Show(ahead)
    <3>1. UNCHANGED <<IdealBank, IdealLevel, IdealPlan, now, spent>>
      BY <1>2, <2>2, SettlingStutters DEF Show, ShowArmy
    <3> QED BY <3>1 DEF Ideal!vars, IdealBank, IdealPlan
  <2>3. CASE CompleteUpgrade
    <3>1. UNCHANGED <<IdealBank, IdealLevel, IdealPlan, now, spent>>
      BY <1>2, <2>3, CompletionStutters DEF CompleteUpgrade
    <3> QED BY <3>1 DEF Ideal!vars, IdealBank, IdealPlan
  <2>4. ASSUME NEW c \in [Resources -> Nat], Take(c), UNCHANGED <<now, level>>,
               pending' # pending => /\ pending = NoUpgrade
                                     /\ pending'.kind \in Kinds
                                     /\ pending'.runAt \in Nat
                                     /\ pending'.runAt > now
        PROVE  Ideal!Next
    <3>1. /\ books' \in BooksType /\ books'.updated = Settled.updated
          /\ spent' \in [Resources -> Int]
          /\ \A r \in Resources :
               /\ spent'[r] = spent[r] + c[r]
               /\ Worth(books', r) = Worth(Settled, r) - c[r] * Hour
      BY <1>2, <2>4, TakeFacts
    <3>2. \A r \in Resources : spent'[r] - spent[r] = c[r]
      BY <1>2, <3>1, Types
    <3>3. Ideal!Change
      BY <1>2, <2>4, <3>1, <3>2, MovingChanges
    <3> QED BY <3>3 DEF Ideal!Next
  <2>5. ASSUME NEW k \in Kinds, NEW lag \in 0..MaxLag, StartUpgrade(k, lag)
        PROVE  Ideal!Next
    <3>1. PICK c : c = [r \in Resources |-> (level[k] + 1) * UnitCost[r]]
      OBVIOUS
    <3>2. /\ c \in [Resources -> Nat] /\ Take(c)
          /\ pending = NoUpgrade
          /\ pending' \in Upgrades /\ pending'.kind = k
          /\ pending'.runAt > now
          /\ UNCHANGED <<now, level, seen>>
      BY <1>2, <2>5, <3>1, StartFacts
    <3>3. pending'.runAt \in Nat
      BY <3>2 DEF Upgrades, NoUpgrade
    <3> QED BY <2>4, <3>2, <3>3
  <2>6. ASSUME NEW n \in 1..MaxStock, Recruit(n)
        PROVE  Ideal!Next
    <3>0. n \in Nat
      OBVIOUS
    <3>1. PICK c : c = [r \in Resources |-> n * SpearCost[r]]
      OBVIOUS
    <3>2. c \in [Resources -> Nat]
      BY <3>0, <3>1, PricesAreNat
    <3> QED BY <2>4, <2>6, <3>1, <3>2 DEF Recruit
  <2>7. ASSUME NEW c \in Loots, Plundered(c)
        PROVE  Ideal!Next
    <3>1. c \in [Resources -> Nat]
      BY KindsAssumption
    <3> QED BY <2>4, <2>7, <3>1 DEF Plundered
  <2>8. ASSUME NEW c \in Loots, BringHome(c)
        PROVE  Ideal!Next
    <3>1. /\ books' \in BooksType /\ books'.updated = Settled.updated
          /\ spent' \in [Resources -> Int]
          /\ \A r \in Resources :
               /\ spent'[r] = spent[r] - c[r] /\ c[r] \in Nat
               /\ Worth(books', r) = Worth(Settled, r) + c[r] * Hour
      BY <1>2, <2>8, BringFacts
    <3>2. ASSUME NEW r \in Resources
          PROVE  Worth(books', r) = Worth(Settled, r) - (spent'[r] - spent[r]) * Hour
      <4>1. spent'[r] - spent[r] = 0 - c[r] /\ c[r] \in Nat
        BY <1>2, <3>1, Types
      <4>2. (0 - c[r]) * Hour = 0 - c[r] * Hour /\ c[r] * Hour \in Int
        BY <4>1, KindsAssumption, Negative
      <4>3. Worth(Settled, r) \in Int
        <5>1. Settled.stock[r] \in Nat /\ Settled.remainder[r] \in Nat
          BY <1>2, SettledFacts, KindsAssumption DEF BooksType
        <5>2. Settled.stock[r] * Hour \in Nat
          BY <5>1, KindsAssumption, Times
        <5> QED BY <5>1, <5>2 DEF Worth
      <4> QED BY <3>1, <4>1, <4>2, <4>3
    <3>3. UNCHANGED <<now, level>> /\ pending' = pending
      BY <2>8 DEF BringHome
    <3>4. Ideal!Change
      BY <1>2, <3>1, <3>2, <3>3, MovingChanges
    <3> QED BY <3>4 DEF Ideal!Next
  <2>9. CASE UNCHANGED vars
    BY <2>9 DEF vars, Ideal!vars, Bank, Owed, Overdue, IdealLevel
  <2> QED BY <1>2, <2>1, <2>2, <2>3, <2>5, <2>6, <2>7, <2>8, <2>9 DEF Next
<1> QED BY <1>1, <1>2, Invariance, PTL DEF Spec, ProducesAsIdeal, Ideal!Spec
-----------------------------------------------------------------------------
(* The page.                                                               *)

(* What a snapshot is worth at moment t by the page's reckoning.           *)
SeenWorth(r, t) ==
  Worth(seen.books, r) + (t - seen.books.updated) * Rate[seen.level[r]]

(* The books are never behind the page's reckoning for the same moment,    *)
(* because rates do not fall.                                              *)
SeenBehind ==
  /\ seen.books.updated <= books.updated
  /\ \A k \in Kinds : seen.level[k] <= level[k]
  /\ \A r \in Resources :
       SeenWorth(r, books.updated)
         <= Worth(books, r) + (spent[r] - seen.spent[r]) * Hour

(* The types that the invariant gives about the snapshot.                  *)
LEMMA SeenTypes ==
  ASSUME IInv, NEW r \in Resources
  PROVE  /\ seen.books \in BooksType /\ seen.books.updated \in Nat
         /\ seen.books.stock[r] \in Nat /\ seen.books.remainder[r] \in Nat
         /\ seen.level \in Levels /\ Rate[seen.level[r]] \in Nat
         /\ seen.spent[r] \in Int
         /\ Worth(seen.books, r) \in Nat
<1>1. /\ seen.books \in BooksType /\ seen.level \in Levels
      /\ seen.spent \in [Resources -> Int]
  BY DEF IInv, TypeOK, Levels
<1>2. /\ seen.books.updated \in Nat
      /\ seen.books.stock[r] \in Nat /\ seen.books.remainder[r] \in 0..(Hour - 1)
  BY <1>1 DEF BooksType
<1>3. seen.books.stock[r] * Hour \in Nat
  BY <1>2, KindsAssumption, Times
<1>4. Worth(seen.books, r) \in Nat
  BY <1>2, <1>3, KindsAssumption DEF Worth
<1> QED BY <1>1, <1>2, <1>4, RateIsNat, KindsAssumption

(* Books of natural numbers are worth a natural number.                    *)
LEMMA WorthIsNat ==
  ASSUME NEW b \in BooksType, NEW r \in Resources
  PROVE  Worth(b, r) \in Nat /\ b.stock[r] \in Nat /\ b.remainder[r] \in 0..(Hour - 1)
<1>1. b.stock[r] \in Nat /\ b.remainder[r] \in 0..(Hour - 1)
  BY DEF BooksType
<1>2. b.stock[r] * Hour \in Nat
  BY <1>1, KindsAssumption, Times
<1> QED BY <1>1, <1>2, KindsAssumption DEF Worth

(* Growing at no lower a rate.                                             *)
LEMMA Outgrows ==
  ASSUME NEW x \in Nat, NEW k \in Nat, NEW m \in Nat, k <= m
  PROVE  x * k <= x * m /\ x * k \in Nat /\ x * m \in Nat
  OBVIOUS

(* A settlement, at levels no lower than the snapshot's, keeps the books   *)
(* ahead of the page.                                                      *)
LEMMA SettlingStaysAhead ==
  ASSUME IInv, SeenBehind, NEW b \in BooksType, NEW lvl \in Levels,
         NEW s \in BooksType, NEW t \in Nat, NEW r \in Resources, NEW d \in Int,
         seen.books.updated <= b.updated, b.updated \in Nat, b.updated <= t,
         \A k \in Kinds : seen.level[k] <= lvl[k],
         Worth(s, r) = Worth(b, r) + (t - b.updated) * Rate[lvl[r]],
         SeenWorth(r, b.updated) <= Worth(b, r) + d
  PROVE  SeenWorth(r, t) <= Worth(s, r) + d
<1> DEFINE k == Rate[seen.level[r]]
           m == Rate[lvl[r]]
           u == b.updated
           v == seen.books.updated
<1>1. k \in Nat /\ m \in Nat /\ k <= m
  <2>1. seen.level[r] \in 0..MaxLevel /\ lvl[r] \in 0..MaxLevel /\ seen.level[r] <= lvl[r]
    BY SeenTypes, RateIsNat, KindsAssumption
  <2> QED BY <2>1, RateAssumption
<1>2. u \in Nat /\ v \in Nat /\ t - u \in Nat /\ u - v \in Nat /\ t - v = (t - u) + (u - v)
  BY SeenTypes
<1>3. Worth(b, r) \in Nat /\ Worth(s, r) \in Nat /\ Worth(seen.books, r) \in Nat
  BY SeenTypes, WorthIsNat
<1>4. PICK x, y : x = t - u /\ y = u - v
  OBVIOUS
<1>5. (x + y) * k = x * k + y * k /\ x * k <= x * m /\ x * k \in Nat /\ x * m \in Nat
      /\ y * k \in Nat
  <2> HIDE DEF k, m, u, v
  <2> QED BY <1>1, <1>2, <1>4, Distributes, Outgrows, Times
<1>6. /\ SeenWorth(r, t) = Worth(seen.books, r) + (x + y) * k
      /\ SeenWorth(r, u) = Worth(seen.books, r) + y * k
      /\ Worth(s, r) = Worth(b, r) + x * m
  BY <1>2, <1>4 DEF SeenWorth
<1> HIDE DEF k, m, u, v
<1> QED BY <1>3, <1>5, <1>6 DEF u

(* Settling to now in particular.                                          *)
LEMMA SettledStaysAhead ==
  ASSUME IInv, SeenBehind, NEW r \in Resources
  PROVE  SeenWorth(r, Settled.updated) <= Worth(Settled, r) + (spent[r] - seen.spent[r]) * Hour
<1>1. /\ Settled \in BooksType /\ Settled.updated = Until(books, pending, now)
      /\ Worth(Settled, r)
           = Worth(books, r) + (Until(books, pending, now) - books.updated) * Rate[level[r]]
  BY Types, SettleAdds DEF Settled
<1>2. Until(books, pending, now) \in Nat /\ books.updated <= Until(books, pending, now)
  BY Types, UntilIs
<1>3. PICK d : d = (spent[r] - seen.spent[r]) * Hour
  OBVIOUS
<1>4. d \in Int
  <2>1. spent[r] - seen.spent[r] \in Int
    BY Types, SeenTypes
  <2> QED BY <1>3, <2>1, KindsAssumption, Distributes
<1>5. /\ SeenWorth(r, books.updated) <= Worth(books, r) + d
      /\ seen.books.updated <= books.updated
      /\ \A k \in Kinds : seen.level[k] <= level[k]
  BY <1>3 DEF SeenBehind
<1>6. SeenWorth(r, Until(books, pending, now)) <= Worth(Settled, r) + d
  BY <1>1, <1>2, <1>4, <1>5, Types, SettlingStaysAhead
<1> QED BY <1>1, <1>3, <1>6

(* Whoever leaves settled books, less what was taken from them, leaves     *)
(* them ahead of the page.                                                 *)
LEMMA MovingStaysAhead ==
  ASSUME IInv, IInv', SeenBehind, UNCHANGED <<level, seen>>,
         books'.updated = Settled.updated,
         \A r \in Resources : Worth(books', r) = Worth(Settled, r) - (spent'[r] - spent[r]) * Hour
  PROVE  SeenBehind'
<1>1. seen.books.updated <= books'.updated
  BY Types, SettledFacts, SeenTypes DEF SeenBehind, IInv, TypeOK, BooksType
<1>2. ASSUME NEW r \in Resources
      PROVE  SeenWorth(r, books'.updated)
               <= Worth(books', r) + (spent'[r] - seen.spent[r]) * Hour
  <2>1. spent[r] \in Int /\ spent'[r] \in Int /\ seen.spent[r] \in Int
    BY Types, SeenTypes DEF IInv, TypeOK
  <2>2. PICK x, y : x = spent'[r] - spent[r] /\ y = spent[r] - seen.spent[r]
    OBVIOUS
  <2>3. x \in Int /\ y \in Int /\ spent'[r] - seen.spent[r] = x + y
    BY <2>1, <2>2
  <2>4. (x + y) * Hour = x * Hour + y * Hour /\ x * Hour \in Int /\ y * Hour \in Int
    BY <2>3, KindsAssumption, Distributes
  <2>5. Worth(Settled, r) \in Int
    BY SettledFacts, WorthIsNat
  <2>6. /\ SeenWorth(r, books'.updated) <= Worth(Settled, r) + y * Hour
        /\ Worth(books', r) = Worth(Settled, r) - x * Hour
    BY <2>2, SettledStaysAhead
  <2>7. SeenWorth(r, books'.updated) \in Int
    <3>1. seen.books.updated \in Nat /\ Rate[seen.level[r]] \in Nat /\ Worth(seen.books, r) \in Nat
      BY SeenTypes
    <3>2. (books'.updated - seen.books.updated) * Rate[seen.level[r]] \in Int
      <4>1. books'.updated - seen.books.updated \in Int
        BY <3>1, SettledFacts
      <4> QED BY <3>1, <4>1, Distributes
    <3> QED BY <3>1, <3>2 DEF SeenWorth
  <2> QED BY <2>3, <2>4, <2>5, <2>6, <2>7
<1> QED BY <1>1, <1>2 DEF SeenBehind, SeenWorth

(* So does the completion of an upgrade, which raises a rate.              *)
LEMMA CompletionStaysAhead ==
  ASSUME IInv, SeenBehind, CompleteUpgrade
  PROVE  SeenBehind'
<1>1. /\ Overdue /\ level' = IdealLevel
      /\ books'.updated = now
      /\ \A r \in Resources : Worth(books', r) = Bank(r)
  BY CompleteFacts
<1>2. UNCHANGED <<now, spent, seen>>
  BY DEF CompleteUpgrade
<1>3. \A k \in Kinds : level[k] <= level'[k] /\ seen.level[k] <= level'[k]
  <2>1. \A k \in Kinds : level[k] \in Nat /\ seen.level[k] \in Nat
    BY Types, KindsAssumption DEF Levels, IInv, TypeOK
  <2>2. \A k \in Kinds : level[k] <= IdealLevel[k]
    BY <1>1, <2>1, Types DEF IdealLevel, Levels
  <2>3. \A k \in Kinds : IdealLevel[k] \in Nat
    BY IdealLevels, KindsAssumption DEF Levels
  <2> QED BY <1>1, <2>1, <2>2, <2>3 DEF SeenBehind
<1> DEFINE u == books.updated
           v == seen.books.updated
           R == pending.runAt
<1>4. ASSUME NEW r \in Resources
      PROVE  /\ v <= now
             /\ SeenWorth(r, now) <= Worth(books', r) + (spent[r] - seen.spent[r]) * Hour
  <2> DEFINE j == Rate[seen.level[r]]
             k == Rate[level[r]]
             m == Rate[IdealLevel[r]]
  <2>1. j \in Nat /\ k \in Nat /\ m \in Nat /\ j <= k /\ j <= m
    <3>1. /\ seen.level[r] \in 0..MaxLevel /\ level[r] \in 0..MaxLevel
          /\ IdealLevel[r] \in 0..MaxLevel
      BY Types, IdealLevels, SeenTypes, RateIsNat
    <3>2. seen.level[r] <= level[r] /\ seen.level[r] <= IdealLevel[r]
      BY <1>1, <1>3, KindsAssumption DEF SeenBehind
    <3> QED BY <3>1, <3>2, RateAssumption
  <2>2. v \in Nat /\ u \in Nat /\ R \in Nat /\ now \in Nat /\ v <= u /\ u <= R /\ R <= now
    BY <1>1, Types, SeenTypes DEF Overdue, SeenBehind
  <2>3. PICK x, y, z, d : /\ x = u - v /\ y = R - u /\ z = now - R
                          /\ d = (spent[r] - seen.spent[r]) * Hour
    OBVIOUS
  <2>4. d \in Int
    <3>1. spent[r] - seen.spent[r] \in Int
      BY Types, SeenTypes
    <3> QED BY <2>3, <3>1, KindsAssumption, Distributes
  <2>5. x \in Nat /\ y \in Nat /\ z \in Nat /\ y + z \in Nat /\ now - v = x + (y + z)
    BY <2>2, <2>3
  <2>6. /\ (x + (y + z)) * j = x * j + (y + z) * j
        /\ (y + z) * j = y * j + z * j
        /\ x * j \in Nat /\ y * j \in Nat /\ z * j \in Nat
        /\ y * k \in Nat /\ z * m \in Nat
        /\ y * j <= y * k /\ z * j <= z * m
    <3> HIDE DEF j, k, m
    <3> QED BY <2>1, <2>5, Distributes, Outgrows
  <2>7. Worth(seen.books, r) \in Nat /\ Worth(books, r) \in Nat
    BY Types, SeenTypes, WorthIsNat
  <2>8. /\ SeenWorth(r, now) = Worth(seen.books, r) + (x + (y + z)) * j
        /\ SeenWorth(r, u) = Worth(seen.books, r) + x * j
        /\ Worth(books', r) = Worth(books, r) + (y * k + z * m)
        /\ SeenWorth(r, u) <= Worth(books, r) + d
    <3>1. Worth(books', r) = Worth(books, r) + (y * k + z * m)
      BY <1>1, <2>3 DEF Bank, Owed, Worth
    <3> QED BY <2>3, <2>5, <3>1 DEF SeenWorth, SeenBehind
  <2>9. SeenWorth(r, now) <= Worth(books', r) + d
    <3> HIDE DEF j, k, m, u
    <3> QED BY <2>4, <2>6, <2>7, <2>8
  <2> QED BY <2>2, <2>3, <2>9
<1>5. v <= now
  <2>1. v \in Nat
    BY DEF IInv, TypeOK, BooksType
  <2> QED BY <1>1, <2>1, Types DEF Overdue, SeenBehind
<1> QED BY <1>1, <1>2, <1>3, <1>4, <1>5 DEF SeenBehind, SeenWorth

(* A new snapshot is level with the books.                                 *)
LEMMA NewSnapshot ==
  ASSUME IInv, NEW ahead, books' = Settled,
         seen' = [books |-> Settled, level |-> level, pending |-> pending,
                  ahead |-> ahead, spent |-> spent],
         UNCHANGED <<level, spent>>
  PROVE  SeenBehind'
<1>1. /\ seen'.books = Settled /\ seen'.level = level /\ seen'.spent = spent
      /\ Settled.updated \in Nat
      /\ \A k \in Kinds : level[k] \in Nat
  BY Types, SettledFacts, KindsAssumption DEF Levels
<1>2. ASSUME NEW r \in Resources
      PROVE  /\ (Settled.updated - Settled.updated) * Rate[level[r]] = 0
             /\ (spent[r] - spent[r]) * Hour = 0
             /\ Worth(Settled, r) \in Nat
  <2>1. Rate[level[r]] \in Nat /\ spent[r] \in Int
    BY Types, RateIsNat
  <2>2. spent[r] - spent[r] = 0 /\ Settled.updated - Settled.updated = 0
    BY <1>1, <2>1
  <2> QED BY <2>1, <2>2, SettledFacts, WorthIsNat, KindsAssumption
<1>3. \A r \in Resources :
        Worth(seen'.books, r) + (books'.updated - seen'.books.updated) * Rate[seen'.level[r]]
          <= Worth(books', r) + (spent'[r] - seen'.spent[r]) * Hour
  BY <1>1, <1>2
<1> QED BY <1>1, <1>3 DEF SeenBehind, SeenWorth, Worth

LEMMA InitBehind == ASSUME Init PROVE SeenBehind
<1>1. /\ books = NewBooks /\ seen.books = NewBooks /\ NewBooks.updated = 0
      /\ seen.level = level /\ seen.spent = spent /\ level \in Levels
      /\ \A r \in Resources : spent[r] = 0
  BY KindsAssumption DEF Init, NewBooks, Levels
<1>2. ASSUME NEW r \in Resources
      PROVE  /\ (0 - 0) * Rate[level[r]] = 0 /\ (0 - 0) * Hour = 0
             /\ Worth(NewBooks, r) \in Nat
  <2>1. Rate[level[r]] \in Nat
    BY <1>1, RateIsNat
  <2>2. NewBooks \in BooksType
    BY KindsAssumption DEF NewBooks, BooksType
  <2> QED BY <2>1, <2>2, WorthIsNat, KindsAssumption
<1>3. \A k \in Kinds : seen.level[k] <= level[k]
  BY <1>1, KindsAssumption DEF Levels
<1> QED BY <1>1, <1>2, <1>3 DEF SeenBehind, SeenWorth

LEMMA NextBehind == ASSUME IInv, SeenBehind, [Next]_vars PROVE SeenBehind'
<1>0. IInv'
  BY NextInv
<1>1. CASE Tick
  BY <1>1 DEF Tick, SeenBehind, SeenWorth, Worth
<1>2. ASSUME NEW ahead \in -MaxAhead..MaxAhead, Show(ahead) PROVE SeenBehind'
  BY <1>2, NewSnapshot DEF Show
<1>3. CASE ShowArmy
  <2>1. \A r \in Resources :
          Worth(books', r) = Worth(Settled, r) - (spent'[r] - spent[r]) * Hour
    <3> SUFFICES ASSUME NEW r \in Resources
                 PROVE  Worth(books', r) = Worth(Settled, r) - (spent'[r] - spent[r]) * Hour
      OBVIOUS
    <3>1. spent[r] \in Int /\ spent'[r] = spent[r] /\ books' = Settled
      BY <1>3, Types DEF ShowArmy
    <3>2. (spent'[r] - spent[r]) * Hour = 0 /\ Worth(Settled, r) \in Nat
      <4>1. spent'[r] - spent[r] = 0
        BY <3>1
      <4> QED BY <4>1, KindsAssumption, SettledFacts, WorthIsNat
    <3> QED BY <3>1, <3>2
  <2> QED BY <1>0, <1>3, <2>1, MovingStaysAhead DEF ShowArmy
<1>4. CASE CompleteUpgrade
  BY <1>4, CompletionStaysAhead
<1>5. ASSUME NEW c \in [Resources -> Nat], Take(c), UNCHANGED <<level, seen>>
      PROVE  SeenBehind'
  <2>1. \A r \in Resources : spent[r] \in Int /\ spent'[r] = spent[r] + c[r] /\ c[r] \in Nat
    BY <1>5, Types, TakeFacts
  <2>2. \A r \in Resources :
          Worth(books', r) = Worth(Settled, r) - (spent'[r] - spent[r]) * Hour
    <3>1. \A r \in Resources : spent'[r] - spent[r] = c[r]
      BY <2>1
    <3> QED BY <1>5, <3>1, TakeFacts
  <2> QED BY <1>0, <1>5, <2>2, TakeFacts, MovingStaysAhead
<1>6. ASSUME NEW k \in Kinds, NEW lag \in 0..MaxLag, StartUpgrade(k, lag)
      PROVE  SeenBehind'
  <2>1. PICK c : c = [r \in Resources |-> (level[k] + 1) * UnitCost[r]]
    OBVIOUS
  <2> QED BY <1>5, <1>6, <2>1, StartFacts
<1>7. ASSUME NEW n \in 1..MaxStock, Recruit(n)
      PROVE  SeenBehind'
  <2>0. n \in Nat
    OBVIOUS
  <2>1. PICK c : c = [r \in Resources |-> n * SpearCost[r]]
    OBVIOUS
  <2>2. c \in [Resources -> Nat]
    BY <2>0, <2>1, PricesAreNat
  <2> QED BY <1>5, <1>7, <2>1, <2>2 DEF Recruit
<1>8. ASSUME NEW c \in Loots, Plundered(c)
      PROVE  SeenBehind'
  <2>1. c \in [Resources -> Nat]
    BY KindsAssumption
  <2> QED BY <1>5, <1>8, <2>1 DEF Plundered
<1>9. ASSUME NEW c \in Loots, BringHome(c)
      PROVE  SeenBehind'
  <2>1. \A r \in Resources :
          Worth(books', r) = Worth(Settled, r) - (spent'[r] - spent[r]) * Hour
    <3> SUFFICES ASSUME NEW r \in Resources
                 PROVE  Worth(books', r) = Worth(Settled, r) - (spent'[r] - spent[r]) * Hour
      OBVIOUS
    <3>1. /\ spent'[r] = spent[r] - c[r] /\ c[r] \in Nat /\ spent[r] \in Int
          /\ Worth(books', r) = Worth(Settled, r) + c[r] * Hour
      BY <1>9, BringFacts, Types
    <3>2. spent'[r] - spent[r] = 0 - c[r]
      BY <3>1
    <3>3. (0 - c[r]) * Hour = 0 - c[r] * Hour /\ c[r] * Hour \in Int
      BY <3>1, KindsAssumption, Negative
    <3>4. Worth(Settled, r) \in Nat
      BY SettledFacts, WorthIsNat
    <3> QED BY <3>1, <3>2, <3>3, <3>4
  <2> QED BY <1>0, <1>9, <2>1, BringFacts, MovingStaysAhead DEF BringHome
<1>10. CASE UNCHANGED vars
  BY <1>10 DEF vars, SeenBehind, SeenWorth, Worth
<1> QED BY <1>1, <1>2, <1>3, <1>4, <1>6, <1>7, <1>8, <1>9, <1>10 DEF Next

(* Settling to a later moment than now keeps the books ahead of the page,  *)
(* too.                                                                    *)
LEMMA SettledLater ==
  ASSUME IInv, SeenBehind, NEW at \in Nat, now <= at, NEW r \in Resources,
         NEW S, S = Settle(books, level, pending, at)
  PROVE  /\ S \in BooksType /\ seen.books.updated <= S.updated
         /\ S.updated = Until(books, pending, at) /\ S.updated \in Nat
         /\ SeenWorth(r, S.updated) <= Worth(S, r) + (spent[r] - seen.spent[r]) * Hour
<1>1. /\ S \in BooksType /\ S.updated = Until(books, pending, at)
      /\ Worth(S, r)
           = Worth(books, r) + (Until(books, pending, at) - books.updated) * Rate[level[r]]
  BY Types, SettleAdds
<1>2. Until(books, pending, at) \in Nat /\ books.updated <= Until(books, pending, at)
  BY Types, UntilIs
<1>3. PICK d : d = (spent[r] - seen.spent[r]) * Hour
  OBVIOUS
<1>4. d \in Int
  <2>1. spent[r] - seen.spent[r] \in Int
    BY Types, SeenTypes
  <2> QED BY <1>3, <2>1, KindsAssumption, Distributes
<1>5. /\ SeenWorth(r, books.updated) <= Worth(books, r) + d
      /\ seen.books.updated <= books.updated
      /\ \A k \in Kinds : seen.level[k] <= level[k]
  BY <1>3 DEF SeenBehind
<1>6. SeenWorth(r, Until(books, pending, at)) <= Worth(S, r) + d
  BY <1>1, <1>2, <1>4, <1>5, Types, SettlingStaysAhead
<1>7. seen.books.updated <= S.updated
  BY <1>1, <1>2, <1>5, Types, SeenTypes
<1> QED BY <1>1, <1>2, <1>3, <1>6, <1>7

(* A page that counts for at most lead longer than the books are settled   *)
(* to shows no more whole units, but for those that it counts in lead.     *)
LEMMA CountsNoMore ==
  ASSUME IInv, NEW r \in Resources, NEW S \in BooksType, NEW T \in Nat, NEW y \in Int,
         NEW e \in Nat, NEW lead \in Nat,
         seen.books.updated <= T, e <= (T - seen.books.updated) + lead,
         SeenWorth(r, T) <= Worth(S, r) + y * Hour
  PROVE  seen.books.stock[r] + (seen.books.remainder[r] + e * Rate[seen.level[r]]) \div Hour
           <= (S.stock[r] + y) + (lead * Rate[seen.level[r]] + Hour - 1) \div Hour
<1> DEFINE v == seen.books.updated
           k == Rate[seen.level[r]]
<1>1. /\ v \in Nat /\ k \in Nat /\ seen.books.stock[r] \in Nat
      /\ seen.books.remainder[r] \in Nat
  BY SeenTypes
<1>2. PICK d : d = T - v
  OBVIOUS
<1>3. d \in Nat /\ e <= d + lead
  BY <1>1, <1>2
<1>4. e * k <= d * k + lead * k /\ e * k \in Nat /\ d * k \in Nat /\ lead * k \in Nat
  <2>1. k * e <= k * (d + lead) /\ k * e \in Nat
    <3> HIDE DEF k
    <3> QED BY <1>1, <1>3, Outgrows
  <2>2. k * e = e * k /\ k * (d + lead) = (d + lead) * k /\ (d + lead) * k = d * k + lead * k
    <3> HIDE DEF k
    <3> QED BY <1>1, <1>3, Distributes
  <2>3. d * k \in Nat /\ lead * k \in Nat
    <3> HIDE DEF k
    <3> QED BY <1>1, <1>3, Times
  <2> HIDE DEF k
  <2> QED BY <2>1, <2>2, <2>3
<1> DEFINE x == seen.books.remainder[r] + e * k
           a == seen.books.stock[r]
           s == S.stock[r]
           m == S.remainder[r]
<1>5. x \in Nat
  BY <1>1, <1>4
<1>6. s \in Nat /\ m \in Nat /\ m < Hour /\ Worth(S, r) = s * Hour + m
  BY WorthIsNat, KindsAssumption DEF Worth
<1>7. PICK o : o = (lead * k + Hour - 1) \div Hour
  OBVIOUS
<1>8. o \in Nat /\ lead * k <= o * Hour /\ o * Hour \in Nat
  <2>1. PICK n : n = lead * k + Hour - 1
    OBVIOUS
  <2>2. n \in Nat
    <3>1. PICK g : g = lead * k
      OBVIOUS
    <3>2. g \in Nat /\ n = g + Hour - 1
      BY <1>4, <2>1, <3>1
    <3> QED BY <3>2, KindsAssumption
  <2>3. n \div Hour \in Nat /\ n % Hour \in 0..(Hour - 1) /\ (n \div Hour) * Hour + (n % Hour) = n
    BY <2>2, KindsAssumption, Division
  <2>4. o = n \div Hour
    BY <1>7, <2>1
  <2>5. o * Hour \in Nat /\ o \in Nat
    BY <2>3, <2>4, KindsAssumption, Times
  <2>6. PICK w : w = n % Hour
    OBVIOUS
  <2>7. w \in Nat /\ w <= Hour - 1 /\ o * Hour + w = n
    BY <2>3, <2>4, <2>6, KindsAssumption
  <2> HIDE DEF k
  <2> QED BY <1>4, <2>1, <2>5, <2>7, KindsAssumption
<1>9. PICK z : z = y + o
  OBVIOUS
<1>10. z \in Int
  BY <1>8, <1>9
<1>11. a * Hour + x <= (s * Hour + m) + z * Hour
  <2>1. SeenWorth(r, T) = (a * Hour + seen.books.remainder[r]) + d * k
    BY <1>2 DEF SeenWorth, Worth
  <2>2. SeenWorth(r, T) <= (s * Hour + m) + y * Hour
    BY <1>6
  <2>3. a * Hour \in Nat /\ s * Hour \in Nat /\ y * Hour \in Int
    BY <1>1, <1>6, KindsAssumption, Times, Distributes
  <2>4. z * Hour = y * Hour + o * Hour
    BY <1>8, <1>9, KindsAssumption, Distributes
  <2> HIDE DEF a, s, m, k, v
  <2> QED BY <1>1, <1>4, <1>6, <1>8, <2>1, <2>2, <2>3, <2>4
<1>12. ASSUME NEW q \in Nat, q = x \div Hour
      PROVE  a + q <= s + z
  <2>1. q * Hour <= x
    <3>1. x % Hour \in 0..(Hour - 1) /\ q * Hour + (x % Hour) = x
      BY <1>5, <1>12, KindsAssumption, Division
    <3>2. q * Hour \in Nat /\ x % Hour \in Nat
      BY <1>12, <3>1, KindsAssumption, Times
    <3> HIDE DEF x
    <3> QED BY <1>5, <3>1, <3>2
  <2>2. /\ (a + q) * Hour = a * Hour + q * Hour
        /\ ((s + z) + 1) * Hour = (s + z) * Hour + 1 * Hour
        /\ (s + z) * Hour = s * Hour + z * Hour
    BY <1>1, <1>10, <1>6, KindsAssumption, Distributes
  <2>3. (a + q) * Hour < ((s + z) + 1) * Hour
    <3>1. /\ a * Hour \in Int /\ q * Hour \in Int /\ s * Hour \in Int /\ z * Hour \in Int
          /\ 1 * Hour = Hour
      BY <1>1, <1>10, <1>6, <1>12, KindsAssumption, Distributes
    <3>2. PICK ah, qh, sh, zh : /\ ah = a * Hour /\ qh = q * Hour
                                /\ sh = s * Hour /\ zh = z * Hour
      OBVIOUS
    <3>3. Hour \in Nat /\ m \in Nat /\ m < Hour /\ x \in Nat
      BY <1>5, <1>6, KindsAssumption
    <3>4. ah + x <= (sh + m) + zh /\ qh <= x
      BY <1>11, <2>1, <3>2
    <3>5. (a + q) * Hour = ah + qh /\ ((s + z) + 1) * Hour = (sh + zh) + Hour
      BY <2>2, <3>1, <3>2
    <3>6. ah \in Int /\ qh \in Int /\ sh \in Int /\ zh \in Int
      BY <3>1, <3>2
    <3>7. ah + qh < (sh + zh) + Hour
      <4> HIDE DEF x, m
      <4> QED BY <3>3, <3>4, <3>6
    <3> QED BY <3>5, <3>7
  <2>4. PICK f, g : f = a + q /\ g = (s + z) + 1
    OBVIOUS
  <2>5. f \in Int /\ g \in Int /\ f * Hour < g * Hour
    BY <1>1, <1>10, <1>6, <2>3, <2>4
  <2>6. f < g
    <3>1. ASSUME g <= f PROVE FALSE
      <4>1. f - g \in Nat /\ (f - g) * Hour = f * Hour - g * Hour
        BY <2>5, <3>1, KindsAssumption, Distributes
      <4>2. (f - g) * Hour \in Nat /\ f * Hour \in Int /\ g * Hour \in Int
        BY <2>5, <4>1, KindsAssumption, Times, Distributes
      <4> QED BY <2>5, <4>1, <4>2
    <3> QED BY <2>5, <3>1
  <2> QED BY <1>1, <1>10, <1>6, <1>12, <2>4, <2>6
<1>13. x \div Hour \in Nat
  BY <1>5, KindsAssumption, Division
<1>14. PICK q : q = x \div Hour
  OBVIOUS
<1>15. a + q <= s + z /\ q \in Nat
  BY <1>12, <1>13, <1>14
<1> HIDE DEF x
<1>16. a + q <= (s + y) + o
  BY <1>1, <1>6, <1>8, <1>9, <1>15
<1> QED BY <1>7, <1>14, <1>16 DEF x

(* The page's clock and the moment it counts to.                           *)
LEMMA PageTimes ==
  ASSUME IInv
  PROVE  /\ seen.ahead \in Int /\ PageTime \in Int /\ ShownUntil \in Int
         /\ Lead \in Nat /\ PageTime <= now + Lead
         /\ ShownUntil <= PageTime
         /\ seen.pending # NoUpgrade => ShownUntil <= seen.pending.runAt
<1>1. seen.ahead \in -MaxAhead..MaxAhead /\ seen.pending \in Upgrades
  BY DEF IInv, TypeOK
<1>2. seen.ahead \in Int
  BY <1>1, KindsAssumption
<1>3. seen.pending.runAt \in Nat
  BY <1>1 DEF Upgrades, NoUpgrade
<1> QED BY <1>2, <1>3, Types DEF PageTime, ShownUntil, Lead

(* No lead, no overshoot.                                                  *)
LEMMA NoOvershoot ==
  ASSUME NEW k \in Nat
  PROVE  (0 * k + Hour - 1) \div Hour = 0
<1>1. 0 * k = 0
  OBVIOUS
<1> QED BY <1>1, KindsAssumption

(* Both bounds on what the page shows.                                     *)
LEMMA ShowsLittleMore ==
  ASSUME IInv, SeenBehind, pending \in {NoUpgrade, seen.pending}, NEW r \in Resources
  PROVE  /\ Shown(r) - (spent[r] - seen.spent[r])
              <= Settle(books, level, pending, now + Lead).stock[r]
         /\ Shown(r) - (spent[r] - seen.spent[r]) <= Settled.stock[r] + Overshoot(r)
<1> DEFINE v == seen.books.updated
           e == IF ShownUntil < v THEN 0 ELSE ShownUntil - v
           k == Rate[seen.level[r]]
           y == spent[r] - seen.spent[r]
<1>1. /\ v \in Nat /\ k \in Nat /\ y \in Int /\ e \in Nat
      /\ seen.books.stock[r] \in Nat /\ seen.books.remainder[r] \in Nat
  BY Types, SeenTypes, PageTimes
<1>2. PICK b : b = seen.books.stock[r] + (seen.books.remainder[r] + e * k) \div Hour
  OBVIOUS
<1>3. Shown(r) = b
  BY <1>2 DEF Shown
<1>4. b \in Int
  <2>1. e * k \in Nat
    <3> HIDE DEF e, k
    <3> QED BY <1>1, Times
  <2>2. PICK x : x = seen.books.remainder[r] + e * k
    OBVIOUS
  <2>3. x \in Nat
    BY <1>1, <2>1, <2>2
  <2>4. x \div Hour \in Nat
    BY <2>3, KindsAssumption, Division
  <2>5. PICK q : q = x \div Hour
    OBVIOUS
  <2> QED BY <1>1, <1>2, <2>2, <2>4, <2>5
<1>5. b <= (Settle(books, level, pending, now + Lead).stock[r] + y) + 0
  <2>1. now + Lead \in Nat /\ now <= now + Lead
    BY Types, PageTimes
  <2>2. PICK S : S = Settle(books, level, pending, now + Lead)
    OBVIOUS
  <2>3. /\ S \in BooksType /\ v <= S.updated /\ S.updated \in Nat
        /\ S.updated = Until(books, pending, now + Lead)
        /\ SeenWorth(r, S.updated) <= Worth(S, r) + y * Hour
    BY <2>1, <2>2, SettledLater
  <2>4. ShownUntil <= S.updated
    <3>1. pending = NoUpgrade => S.updated = now + Lead
      BY <2>1, <2>3, Types, UntilIs
    <3>2. pending # NoUpgrade /\ now + Lead <= pending.runAt => S.updated = now + Lead
      BY <2>1, <2>3, Types, UntilIs
    <3>3. pending # NoUpgrade /\ pending.runAt <= now + Lead => S.updated = pending.runAt
      BY <2>1, <2>3, Types, UntilIs
    <3>4. pending # NoUpgrade => pending.runAt \in Nat /\ pending = seen.pending
      BY Types
    <3> QED BY <2>1, <3>1, <3>2, <3>3, <3>4, PageTimes, Types
  <2>5. e <= (S.updated - v) + 0
    BY <1>1, <2>3, <2>4, PageTimes
  <2>6. b <= (S.stock[r] + y) + (0 * k + Hour - 1) \div Hour
    <3> HIDE DEF e
    <3> QED BY <1>1, <1>2, <2>3, <2>5, CountsNoMore
  <2> QED BY <1>1, <2>2, <2>6, NoOvershoot
<1>6. b <= (Settled.stock[r] + y) + Overshoot(r)
  <2>1. v <= Settled.updated
    BY Types, SeenTypes, SettledFacts DEF SeenBehind
  <2>2. e <= (Settled.updated - v) + Lead
    <3>1. ShownUntil <= Settled.updated + Lead
      <4>1. pending # NoUpgrade => pending.runAt \in Nat /\ pending = seen.pending
        BY Types
      <4> QED BY <4>1, Types, SettledFacts, PageTimes DEF Overdue
    <3> QED BY <1>1, <2>1, <3>1, PageTimes, SettledFacts
  <2>3. SeenWorth(r, Settled.updated) <= Worth(Settled, r) + y * Hour
    BY SettledStaysAhead
  <2>4. Settled \in BooksType /\ Settled.updated \in Nat /\ Lead \in Nat
    BY SettledFacts, PageTimes
  <2>5. b <= (Settled.stock[r] + y) + (Lead * k + Hour - 1) \div Hour
    <3> HIDE DEF e
    <3> QED BY <1>1, <1>2, <2>1, <2>2, <2>3, <2>4, CountsNoMore
  <2> QED BY <2>5 DEF Overshoot
<1>7. /\ Settle(books, level, pending, now + Lead).stock[r] \in Nat
      /\ Settled.stock[r] \in Nat /\ Overshoot(r) \in Int
  <2>1. Settled.stock[r] \in Nat
    BY SettledFacts, WorthIsNat
  <2>2. now + Lead \in Nat /\ now <= now + Lead
    BY Types, PageTimes
  <2>3. Settle(books, level, pending, now + Lead).stock[r] \in Nat
    BY <2>2, SettledLater, WorthIsNat
  <2>4. Overshoot(r) \in Int
    <3>1. PICK n : n = Lead * k + Hour - 1
      OBVIOUS
    <3>2. Lead * k \in Nat
      <4> HIDE DEF k
      <4> QED BY <1>1, PageTimes, Times
    <3>3. n \in Nat
      <4> HIDE DEF k
      <4> QED BY <3>1, <3>2, KindsAssumption
    <3>4. n \div Hour \in Nat
      BY <3>3, KindsAssumption, Division
    <3> QED BY <3>1, <3>4 DEF Overshoot
  <2> QED BY <2>1, <2>3, <2>4
<1> HIDE DEF y
<1>8. b - y <= Settle(books, level, pending, now + Lead).stock[r]
  BY <1>1, <1>4, <1>5, <1>7
<1>9. b - y <= Settled.stock[r] + Overshoot(r)
  BY <1>1, <1>4, <1>6, <1>7
<1> QED BY <1>3, <1>8, <1>9 DEF y

(* What the page shows can be spent once the server's clock has caught up  *)
(* with the page's, and is too much by the production of that time at      *)
(* most, unless an upgrade that the page has not heard of is pending.      *)
THEOREM DisplayHolds == Spec => []DisplayIsSpendable
<1>1. Init => IInv /\ SeenBehind
  BY InitInv, InitBehind
<1>2. (IInv /\ SeenBehind) /\ [Next]_vars => (IInv /\ SeenBehind)'
  BY NextInv, NextBehind
<1>3. IInv /\ SeenBehind => DisplayIsSpendable
  BY ShowsLittleMore DEF DisplayIsSpendable
<1> QED BY <1>1, <1>2, <1>3, PTL DEF Spec

(* What the snapshot holds is there, but for what has been spent.          *)
LEMMA SnapshotIsThere ==
  ASSUME IInv, SeenBehind, NEW r \in Resources
  PROVE  seen.books.stock[r] <= Settled.stock[r] + (spent[r] - seen.spent[r])
<1> DEFINE k == Rate[seen.level[r]]
           y == spent[r] - seen.spent[r]
<1>1. /\ k \in Nat /\ y \in Int /\ seen.books.updated \in Nat
      /\ seen.books.stock[r] \in Nat /\ seen.books.remainder[r] \in 0..(Hour - 1)
  <2>1. seen.books \in BooksType
    BY SeenTypes
  <2> QED BY <2>1, Types, SeenTypes, WorthIsNat
<1>2. /\ Settled \in BooksType /\ Settled.updated \in Nat
      /\ seen.books.updated <= Settled.updated
      /\ SeenWorth(r, Settled.updated) <= Worth(Settled, r) + y * Hour
  BY Types, SeenTypes, SettledFacts, SettledStaysAhead DEF SeenBehind
<1>3. 0 <= (Settled.updated - seen.books.updated) + 0
  BY <1>1, <1>2
<1>4. seen.books.stock[r] + (seen.books.remainder[r] + 0 * k) \div Hour
        <= (Settled.stock[r] + y) + (0 * k + Hour - 1) \div Hour
  <2> HIDE DEF y
  <2> QED BY <1>1, <1>2, <1>3, CountsNoMore DEF y
<1>5. (seen.books.remainder[r] + 0 * k) \div Hour = 0
  <2>1. 0 * k = 0
    <3> HIDE DEF k
    <3> QED BY <1>1
  <2> QED BY <1>1, <2>1, KindsAssumption
<1>6. Settled.stock[r] \in Nat
  BY SettledFacts, WorthIsNat
<1>7. PICK c : c = (seen.books.remainder[r] + 0 * k) \div Hour
  OBVIOUS
<1>8. PICK o : o = (0 * k + Hour - 1) \div Hour
  OBVIOUS
<1>9. c = 0
  BY <1>5, <1>7
<1>10. o = 0
  <2> HIDE DEF k
  <2> QED BY <1>1, <1>8, NoOvershoot
<1>11. seen.books.stock[r] + c <= (Settled.stock[r] + y) + o
  BY <1>4, <1>7, <1>8
<1>12. seen.books.stock[r] <= Settled.stock[r] + y
  <2> HIDE DEF y
  <2> QED BY <1>1, <1>6, <1>9, <1>10, <1>11
<1> QED BY <1>12

(* An offer is good because levels only rise and what the snapshot holds   *)
(* is there.                                                               *)
LEMMA OffersStand ==
  ASSUME IInv, SeenBehind, NEW k \in Kinds, CanUpgrade(k),
         pending = NoUpgrade, level[k] = seen.level[k],
         \A r \in Resources : spent[r] <= seen.spent[r]
  PROVE  Accepts(k)
<1>1. level[k] < MaxLevelOf[k]
  BY DEF CanUpgrade
<1>2. Met(k, level)
  <2>1. SUFFICES ASSUME NEW q \in Requires[k] PROVE level[q[1]] >= q[2]
    BY DEF Met
  <2>2. q \in Kinds \X (1..MaxLevel)
    BY KindsAssumption
  <2>3. q[1] \in Kinds /\ q[2] \in Nat
    BY <2>2, KindsAssumption
  <2>4. seen.level[q[1]] >= q[2]
    BY DEF CanUpgrade, Met
  <2>5. seen.level[q[1]] <= level[q[1]]
    BY <2>3 DEF SeenBehind
  <2>6. seen.level[q[1]] \in Nat /\ level[q[1]] \in Nat
    BY <2>3, KindsAssumption DEF IInv, TypeOK
  <2> QED BY <2>3, <2>4, <2>5, <2>6
<1>3. ASSUME NEW r \in Resources
      PROVE  Cost(k, level)[r] <= Settled.stock[r]
  <2>1. Cost(k, level)[r] = Cost(k, seen.level)[r]
    BY DEF Cost
  <2>2. Cost(k, seen.level)[r] <= seen.books.stock[r]
    BY DEF CanUpgrade
  <2>3. seen.books.stock[r] <= Settled.stock[r] + (spent[r] - seen.spent[r])
    BY SnapshotIsThere
  <2>4. /\ spent[r] \in Int /\ seen.spent[r] \in Int /\ Settled.stock[r] \in Nat
        /\ spent[r] <= seen.spent[r]
    <3>1. spent[r] \in Int /\ seen.spent[r] \in Int
      BY Types, SeenTypes
    <3>2. Settled.stock[r] \in Nat
      BY SettledFacts DEF BooksType
    <3> QED BY <3>1, <3>2
  <2>5. seen.books.stock[r] <= Settled.stock[r]
    BY <2>3, <2>4, SeenTypes
  <2>6. Cost(k, level)[r] \in Nat
    <3>1. level[k] + 1 \in Nat
      BY Types DEF Levels
    <3>2. [s \in Resources |-> (level[k] + 1) * UnitCost[s]] \in [Resources -> Nat]
      BY <3>1, PricesAreNat
    <3> QED BY <3>2 DEF Cost
  <2>7. seen.books.stock[r] \in Nat
    BY SeenTypes
  <2> QED BY <2>1, <2>2, <2>4, <2>5, <2>6, <2>7
<1> QED BY <1>1, <1>2, <1>3 DEF Accepts

(* An upgrade the page offers is accepted, however old the page is, as     *)
(* long as nothing was spent and no upgrade begun since.                   *)
THEOREM OffersAreGood == Spec => []OfferIsGood
<1>1. Init => IInv /\ SeenBehind
  BY InitInv, InitBehind
<1>2. (IInv /\ SeenBehind) /\ [Next]_vars => (IInv /\ SeenBehind)'
  BY NextInv, NextBehind
<1>3. IInv /\ SeenBehind => OfferIsGood
  BY OffersStand DEF OfferIsGood
<1> QED BY <1>1, <1>2, <1>3, PTL DEF Spec
=============================================================================
