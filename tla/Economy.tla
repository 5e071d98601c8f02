------------------------------ MODULE Economy ------------------------------
(***************************************************************************)
(* Production of a village (economy.rs, and the callers of settle in       *)
(* web/api.rs and military.rs).  A village row holds its resources as of   *)
(* resources_updated_at; settle brings them up to date, but not beyond the *)
(* run_at of a pending upgrade, because from there on another rate may     *)
(* apply.  Whoever changes the resources holds the lock of the row         *)
(* (RowLocks), so every transaction is one step.                           *)
(*                                                                         *)
(* seen is what the player's page got last; it goes on counting by itself, *)
(* by its own clock (web/game.js).                                         *)
(***************************************************************************)
EXTENDS Integers

CONSTANTS Kinds,       \* of buildings
          Resources,   \* wood, clay and iron, each named by its building
          MaxLevel,    \* where RESOURCE_PRODUCTION ends
          MaxLevelOf,  \* max_level
          Rate,        \* RESOURCE_PRODUCTION, per unit of time
          Hour,        \* fractions that make a unit (MICROS_PER_HOUR)
          StartStock, StartLevel,
          UnitCost,    \* upgrade_cost of level 1
          UnitTime,    \* upgrade_seconds of level 1
          Requires,    \* requirements: the buildings a building needs, and their levels
          SpearCost,   \* price of a spear
          Loots,       \* hauls of the raids considered
          MaxStock,    \* bound: armies that would bring more stay away
          MaxTime,     \* bound: the time stops
          MaxLag,      \* bound: time between two readings of the clock
          MaxAhead,    \* bound: error of serverOffset, either way
          NoKind

ASSUME KindsAssumption ==
  /\ Resources \subseteq Kinds /\ NoKind \notin Kinds
  /\ MaxLevel \in Nat /\ Hour \in Nat \ {0} /\ UnitTime \in Nat \ {0}
  /\ MaxLevelOf \in [Kinds -> 0..MaxLevel]
  /\ StartStock \in Nat /\ StartLevel \in [Kinds -> 0..MaxLevel]
  /\ Requires \in [Kinds -> SUBSET (Kinds \X (1..MaxLevel))]
  /\ UnitCost \in [Resources -> Nat] /\ SpearCost \in [Resources -> Nat]
  /\ Loots \subseteq [Resources -> Nat]
  /\ MaxStock \in Nat /\ MaxTime \in Nat /\ MaxLag \in Nat /\ MaxAhead \in Nat

(* Higher levels produce no less.                                          *)
ASSUME RateAssumption ==
  /\ Rate \in [0..MaxLevel -> Nat]
  /\ \A l, m \in 0..MaxLevel : l <= m => Rate[l] <= Rate[m]

VARIABLES
  now,      \* the database clock
  books,    \* villages: resources, remainders, resources_updated_at
  level,    \* village_buildings
  pending,  \* building_upgrades: the one that is not completed
  spent,    \* units paid or taken less units received (in the model only)
  seen      \* the last snapshot the page got, how far its clock is ahead of
            \* the server's since then, and spent at that moment

vars == <<now, books, level, pending, spent, seen>>

NoUpgrade == [kind |-> NoKind, runAt |-> 0]

NewBooks == [stock     |-> [r \in Resources |-> StartStock],
             remainder |-> [r \in Resources |-> 0],
             updated   |-> 0]

Init ==
  /\ now = 0
  /\ books = NewBooks
  /\ level = StartLevel
  /\ pending = NoUpgrade
  /\ spent = [r \in Resources |-> 0]
  /\ seen = [books |-> NewBooks, level |-> StartLevel, pending |-> NoUpgrade,
             ahead |-> 0, spent |-> spent]

-----------------------------------------------------------------------------
(* Mutated form of Until: a pending upgrade is no boundary.                *)
UntilRequested(b, up, at) == IF at < b.updated THEN b.updated ELSE at

(* effective_at: not beyond the boundary, not back behind updated_at.      *)
Until(b, up, at) ==
  LET t == IF up # NoUpgrade /\ up.runAt < at THEN up.runAt ELSE at
  IN  IF t < b.updated THEN b.updated ELSE t

(* Mutated form of Books: the remainders are forgotten.                    *)
BooksRounded(b, got, t) ==
  [stock     |-> [r \in Resources |-> b.stock[r] + got[r] \div Hour],
   remainder |-> [r \in Resources |-> 0],
   updated   |-> t]

(* accrue: whole units go to the stock, the rest is carried.               *)
Books(b, got, t) ==
  [stock     |-> [r \in Resources |-> b.stock[r] + got[r] \div Hour],
   remainder |-> [r \in Resources |-> got[r] % Hour],
   updated   |-> t]

Settle(b, lvl, up, at) ==
  LET t   == Until(b, up, at)
      got == [r \in Resources |->
                b.remainder[r] + (t - b.updated) * Rate[lvl[r]]]
  IN  Books(b, got, t)

Settled == Settle(books, level, pending, now)

Cost(k, lvl) == [r \in Resources |-> (lvl[k] + 1) * UnitCost[r]]

(* requirement_status.                                                     *)
Met(k, lvl) == \A q \in Requires[k] : lvl[q[1]] >= q[2]

-----------------------------------------------------------------------------
(* bootstrap of web/api.rs: the page gets a new snapshot, and sets its     *)
(* clock by it.  serverOffset takes server_time for the middle between     *)
(* request and answer, but it is read after the wait for the lock: the     *)
(* clock is off by half of what the way there took longer than the way     *)
(* back, ahead after a long wait, behind after a slow answer.              *)
Show(ahead) ==
  /\ books' = Settled
  /\ seen' = [books |-> Settled, level |-> level, pending |-> pending,
              ahead |-> ahead, spent |-> spent]
  /\ UNCHANGED <<now, level, pending, spent>>

(* bootstrap of military.rs, from another page.                            *)
ShowArmy ==
  /\ books' = Settled
  /\ UNCHANGED <<now, level, pending, spent, seen>>

(* Resources are paid, or taken by raiders, after they have been settled.  *)
Take(c) ==
  /\ \A r \in Resources : c[r] <= Settled.stock[r]
  /\ books' = [Settled EXCEPT !.stock = [r \in Resources |-> @[r] - c[r]]]
  /\ spent' = [r \in Resources |-> spent[r] + c[r]]

(* start_upgrade.  The clock is read again for run_at, a little later.     *)
StartUpgrade(k, lag) ==
  /\ pending = NoUpgrade
  /\ level[k] < MaxLevelOf[k]
  /\ Met(k, level)
  /\ Take(Cost(k, level))
  /\ pending' = [kind |-> k, runAt |-> now + lag + (level[k] + 1) * UnitTime]
  /\ UNCHANGED <<now, level, seen>>

(* start_recruit, as far as the resources are concerned.                   *)
Recruit(n) ==
  /\ Take([r \in Resources |-> n * SpearCost[r]])
  /\ UNCHANGED <<now, level, pending, seen>>

(* A lost battle at home (execute_job, arrival).                           *)
Plundered(c) ==
  /\ Take(c)
  /\ UNCHANGED <<now, level, pending, seen>>

(* An army brings its loot home (execute_job, return).                     *)
BringHome(c) ==
  /\ \A r \in Resources : Settled.stock[r] + c[r] <= MaxStock
  /\ books' = [Settled EXCEPT !.stock = [r \in Resources |-> @[r] + c[r]]]
  /\ spent' = [r \in Resources |-> spent[r] - c[r]]
  /\ UNCHANGED <<now, level, pending, seen>>

(* complete_upgrade, on time or later: the old rate up to run_at, the new  *)
(* one from there.                                                         *)
CompleteUpgrade ==
  LET raised == [level EXCEPT ![pending.kind] = @ + 1]
      before == Settle(books, level, pending, pending.runAt)
  IN  /\ pending # NoUpgrade
      /\ now >= pending.runAt
      /\ level' = raised
      /\ pending' = NoUpgrade
      /\ books' = Settle(before, raised, NoUpgrade, now)
      /\ UNCHANGED <<now, spent, seen>>

Tick ==
  /\ now < MaxTime
  /\ now' = now + 1
  /\ UNCHANGED <<books, level, pending, spent, seen>>

Next ==
  \/ Tick \/ ShowArmy \/ CompleteUpgrade
  \/ \E ahead \in -MaxAhead..MaxAhead : Show(ahead)
  \/ \E k \in Kinds, lag \in 0..MaxLag : StartUpgrade(k, lag)
  \/ \E n \in 1..MaxStock : Recruit(n)
  \/ \E c \in Loots : Plundered(c) \/ BringHome(c)

Spec == Init /\ [][Next]_vars

-----------------------------------------------------------------------------
BooksType == [stock : [Resources -> Nat], remainder : [Resources -> 0..(Hour - 1)],
              updated : Nat]
Upgrades == [kind : Kinds, runAt : Nat] \cup {NoUpgrade}

TypeOK ==
  /\ now \in 0..MaxTime
  /\ books \in BooksType
  /\ level \in [Kinds -> 0..MaxLevel]
  /\ pending \in Upgrades
  /\ spent \in [Resources -> Int]
  /\ seen \in [books : BooksType, level : [Kinds -> 0..MaxLevel],
               pending : Upgrades, ahead : -MaxAhead..MaxAhead,
               spent : [Resources -> Int]]

(* What is on the books was produced at one rate: they are never settled   *)
(* into the future, nor beyond the moment a pending upgrade takes effect,  *)
(* however late the worker is and whoever settles meanwhile.               *)
NeverPastBoundary ==
  /\ books.updated <= now
  /\ pending # NoUpgrade => books.updated <= pending.runAt

(* Date.now() + serverOffset                                               *)
PageTime == now + seen.ahead

(* Mutated form of ShownUntil: the page goes on counting.                  *)
ShownForEver == PageTime

(* What the page counts by itself (updateLiveResources): at the old rate,  *)
(* and not beyond production_valid_until.                                  *)
ShownUntil ==
  IF seen.pending # NoUpgrade /\ seen.pending.runAt < PageTime
  THEN seen.pending.runAt ELSE PageTime

Shown(r) ==
  LET t == ShownUntil
      elapsed == IF t < seen.books.updated THEN 0 ELSE t - seen.books.updated
  IN  seen.books.stock[r]
      + (seen.books.remainder[r] + elapsed * Rate[seen.level[r]]) \div Hour

Lead == IF seen.ahead > 0 THEN seen.ahead ELSE 0

(* What the page counts too much while its clock is ahead, rounded up.     *)
Overshoot(r) == (Lead * Rate[seen.level[r]] + Hour - 1) \div Hour

(* The player can spend what the page shows, except for what has been paid *)
(* or taken since, as soon as the server's clock shows what the page's     *)
(* does; until then the page is ahead by what a village produces in that   *)
(* time, and by nothing if its clock is not ahead.  An upgrade that the    *)
(* page has not heard of may be pending; then nothing is said.             *)
DisplayIsSpendable ==
  pending \in {NoUpgrade, seen.pending} =>
    \A r \in Resources :
      LET claim == Shown(r) - (spent[r] - seen.spent[r])
      IN  /\ claim <= Settle(books, level, pending, now + Lead).stock[r]
          /\ claim <= Settled.stock[r] + Overshoot(r)

(* Mutated form of CanUpgrade: what the building requires is left to the   *)
(* server.                                                                 *)
CanUpgradeUnchecked(k) ==
  /\ seen.level[k] < MaxLevelOf[k]
  /\ seen.pending = NoUpgrade
  /\ \A r \in Resources : Cost(k, seen.level)[r] <= seen.books.stock[r]

(* can_upgrade, computed for the snapshot.                                 *)
CanUpgrade(k) ==
  /\ seen.level[k] < MaxLevelOf[k]
  /\ Met(k, seen.level)
  /\ seen.pending = NoUpgrade
  /\ \A r \in Resources : Cost(k, seen.level)[r] <= seen.books.stock[r]

(* start_upgrade would not refuse.                                         *)
Accepts(k) ==
  /\ pending = NoUpgrade
  /\ level[k] < MaxLevelOf[k]
  /\ Met(k, level)
  /\ \A r \in Resources : Cost(k, level)[r] <= Settled.stock[r]

(* An upgrade the page offers is accepted, however old the page is, unless *)
(* since then an upgrade was started or completed for this building or     *)
(* is pending, or resources were paid or taken.                            *)
OfferIsGood ==
  \A k \in Kinds :
    /\ CanUpgrade(k)
    /\ pending = NoUpgrade /\ level[k] = seen.level[k]
    /\ \A r \in Resources : spent[r] <= seen.spent[r]
    => Accepts(k)

-----------------------------------------------------------------------------
(* The village as IdealProduction sees it: an upgrade counts from run_at,  *)
(* recorded or not, and what is not settled is owed.                       *)
Overdue == pending # NoUpgrade /\ pending.runAt <= now

IdealLevel == IF Overdue THEN [level EXCEPT ![pending.kind] = @ + 1] ELSE level

Owed(r) ==
  IF Overdue
  THEN (pending.runAt - books.updated) * Rate[level[r]]
       + (now - pending.runAt) * Rate[IdealLevel[r]]
  ELSE (now - books.updated) * Rate[level[r]]

Bank(r) == books.stock[r] * Hour + books.remainder[r] + Owed(r)

Ideal == INSTANCE IdealProduction
           WITH clock <- now,
                bank  <- [r \in Resources |-> Bank(r)],
                level <- IdealLevel,
                plan  <- IF Overdue THEN NoUpgrade ELSE pending

(* Settled late, often or rarely, resources are what continuous production *)
(* would have made them, to the fraction.                                  *)
ProducesAsIdeal == Ideal!Spec
=============================================================================
