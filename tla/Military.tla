------------------------------ MODULE Military ------------------------------
(***************************************************************************)
(* Villages at war (military.rs, with the farm upgrades of web/api.rs):    *)
(* training, attacks, battles, raids and the way home.                     *)
(*                                                                         *)
(* Every command and every job is one transaction that holds the locks of  *)
(* the villages it reads and writes from before the first read to the      *)
(* commit, so each is one step here (RowLocks is about that locking).  The *)
(* jobs of the scheduled_jobs table that are not completed are the set     *)
(* jobs; a job is executed at any time from its run_at on, in any order,   *)
(* and once (JobDelivery).  One resource stands for wood, clay and iron:   *)
(* all three are paid, hidden, looted and brought home alike, and what     *)
(* split_loot makes of three is LootLoop.                                  *)
(***************************************************************************)
EXTENDS Combat, Sequences, FiniteSets, Functions

CONSTANTS Villages,      \* one per player, in one world
          Orders,        \* request ids chosen by the clients
          Travel,        \* travel_seconds between two villages
          Barracks,      \* the villages that have barracks
          StartSpears,   \* spears of a village at the start
          StartFarm,     \* level of its farm at the start
          FarmCapacity,  \* population a farm of each level feeds
          SpearCost,     \* price of a spear
          SpearCarry,    \* what a spear carries home
          Hidden,        \* what the hiding place protects
          FarmCost,      \* price of a farm upgrade
          TrainTime,     \* time to train one spear
          BuildTime,     \* time to build a farm level
          StartStock,    \* resources of a new village
          Yield,         \* production per unit of time
          MaxStock,      \* bound: production stops here
          MaxCount,      \* bound: nobody asks for more spears at once
          MaxTime,       \* bound: no command whose jobs end later
          NoVillage

Levels == 1..Len(FarmCapacity)

ASSUME MilitaryAssumption ==
  /\ NoVillage \notin Villages
  /\ Travel \in [Villages \X Villages -> Nat \ {0}]
  /\ Barracks \subseteq Villages
  /\ StartSpears \in [Villages -> Nat] /\ StartFarm \in [Villages -> Levels]
  /\ SpearCost \in Nat /\ SpearCarry \in Nat /\ MaxCount \in Nat
  /\ Hidden \in Nat /\ FarmCost \in Nat /\ StartStock \in Nat
  /\ TrainTime \in Nat /\ BuildTime \in Nat
  /\ Yield \in Nat /\ MaxStock \in Nat /\ MaxTime \in Nat

(* Rows of a table are finitely many.                                      *)
ASSUME FinitenessAssumption == IsFiniteSet(Villages) /\ IsFiniteSet(Orders)

(* The table of farm capacities grows.  Nothing is said of the armies at   *)
(* the start: a migration gave every village 10000 spears, more than most  *)
(* farms feed.                                                             *)
ASSUME FarmAssumption ==
  /\ FarmCapacity \in Seq(Nat)
  /\ \A l, m \in Levels : l < m => FarmCapacity[l] < FarmCapacity[m]

VARIABLES
  now,       \* the database clock
  stock,     \* villages: settled resources
  spears,    \* village_armies: soldiers at home
  farm,      \* village_buildings: the farm's level
  building,  \* building_upgrades: is an upgrade of the farm pending?
  training,  \* army_recruits: spears of the pending training, 0 if none
  attacks,   \* army_attacks, by request id
  jobs       \* scheduled_jobs not completed

vars == <<now, stock, spears, farm, building, training, attacks, jobs>>

NoAttack == [status |-> "none", source |-> NoVillage, target |-> NoVillage,
             sent |-> 0, arrives |-> 0, surviving |-> 0, before |-> 0,
             after |-> 0, loot |-> 0, returns |-> 0]

Job(kind, of, runAt) == [kind |-> kind, of |-> of, runAt |-> runAt]

(* The migrations have run, and no command has been given since.           *)
Init ==
  /\ now = 0
  /\ stock = [v \in Villages |-> StartStock]
  /\ spears = StartSpears
  /\ farm = StartFarm
  /\ building = [v \in Villages |-> FALSE]
  /\ training = [v \in Villages |-> 0]
  /\ attacks = [q \in Orders |-> NoAttack]
  /\ jobs = {}

-----------------------------------------------------------------------------
(* away_spears: those on the way out and those on the way home.            *)
InField(q) == CASE attacks[q].status = "outbound"  -> attacks[q].sent
                [] attacks[q].status = "returning" -> attacks[q].surviving
                [] OTHER -> 0

Field == [q \in Orders |-> InField(q)]

Away(v) == SumFunctionOnSet(Field, {q \in Orders : attacks[q].source = v})

(* Mutated form of FarmFree: counts the spears at home only.               *)
FarmFreeAtHome(v) ==
  IF FarmCapacity[farm[v]] <= spears[v] THEN 0 ELSE FarmCapacity[farm[v]] - spears[v]

FarmFree(v) ==
  LET used == spears[v] + Away(v)
  IN  IF FarmCapacity[farm[v]] <= used THEN 0 ELSE FarmCapacity[farm[v]] - used

(* start_recruit                                                           *)
Recruit(v, n) ==
  /\ v \in Barracks
  /\ training[v] = 0
  /\ n <= FarmFree(v)
  /\ n * SpearCost <= stock[v]
  /\ now + n * TrainTime <= MaxTime
  /\ stock' = [stock EXCEPT ![v] = @ - n * SpearCost]
  /\ training' = [training EXCEPT ![v] = n]
  /\ jobs' = jobs \cup {Job("recruit", v, now + n * TrainTime)}
  /\ UNCHANGED <<now, spears, farm, building, attacks>>

(* start_upgrade of the farm                                               *)
UpgradeFarm(v) ==
  /\ ~building[v]
  /\ farm[v] + 1 \in Levels
  /\ FarmCost <= stock[v]
  /\ now + BuildTime <= MaxTime
  /\ stock' = [stock EXCEPT ![v] = @ - FarmCost]
  /\ building' = [building EXCEPT ![v] = TRUE]
  /\ jobs' = jobs \cup {Job("upgrade", v, now + BuildTime)}
  /\ UNCHANGED <<now, spears, farm, training, attacks>>

(* The row that send_attack inserts.                                       *)
Outbound(v, w, n) ==
  [status |-> "outbound", source |-> v, target |-> w, sent |-> n,
   arrives |-> now + Travel[<<v, w>>], surviving |-> 0, before |-> 0,
   after |-> 0, loot |-> 0, returns |-> 0]

(* send_attack; a request id that is known already changes nothing.        *)
SendAttack(q, v, w, n) ==
  /\ attacks[q].status = "none"
  /\ v # w
  /\ n <= spears[v]
  /\ now + 2 * Travel[<<v, w>>] <= MaxTime
  /\ spears' = [spears EXCEPT ![v] = @ - n]
  /\ attacks' = [attacks EXCEPT ![q] = Outbound(v, w, n)]
  /\ jobs' = jobs \cup {Job("arrive", q, now + Travel[<<v, w>>])}
  /\ UNCHANGED <<now, stock, farm, building, training>>

-----------------------------------------------------------------------------
(* execute_job, complete_recruit and complete_upgrade.                     *)

Due(j) == j \in jobs /\ j.runAt <= now

(* What n survivors take from village w: only what is not hidden.          *)
Loot(n, w) == AtMost(n * SpearCarry, Exposed(stock[w], Hidden))

(* Mutated form of ReturnTime: counts from the late worker's clock.        *)
ReturnTimeFromNow(a) == now + Travel[<<a.source, a.target>>]

(* The way back takes as long as the way there, counted from arrives_at.   *)
ReturnTime(a) == a.arrives + Travel[<<a.source, a.target>>]

(* Mutated form of ReturnJobs: nobody brings the survivors home.           *)
NoReturnJobs(q, left) == {}

ReturnJobs(q, left) ==
  IF left > 0 THEN {Job("return", q, ReturnTime(attacks[q]))} ELSE {}

(* The row of attack a after the battle.                                   *)
Fought(a, left, loot) ==
  [status |-> IF left > 0 THEN "returning" ELSE "completed",
   source |-> a.source, target |-> a.target, sent |-> a.sent,
   arrives |-> a.arrives, surviving |-> left, before |-> spears[a.target],
   after |-> DefendersLeft(a.sent, spears[a.target]), loot |-> loot,
   returns |-> IF left > 0 THEN ReturnTime(a) ELSE 0]

(* army.attack.arrive.v1                                                   *)
Arrive(j) ==
  LET q == j.of
      a == attacks[q]
      left == AttackersLeft(a.sent, spears[a.target])
      loot == IF left > 0 THEN Loot(left, a.target) ELSE 0
  IN  /\ Due(j) /\ j.kind = "arrive"
      /\ a.status = "outbound"
      /\ now >= a.arrives
      /\ spears' = [spears EXCEPT ![a.target] = DefendersLeft(a.sent, @)]
      /\ stock' = [stock EXCEPT ![a.target] = @ - loot]
      /\ attacks' = [attacks EXCEPT ![q] = Fought(@, left, loot)]
      /\ jobs' = (jobs \ {j}) \cup ReturnJobs(q, left)
      /\ UNCHANGED <<now, farm, building, training>>

(* Mutated form of Return: the fallen come home, too.                      *)
ReturnAll(j) ==
  LET q == j.of
      a == attacks[q]
  IN  /\ Due(j) /\ j.kind = "return"
      /\ a.status = "returning"
      /\ now >= a.returns
      /\ spears' = [spears EXCEPT ![a.source] = @ + a.sent]
      /\ stock' = [stock EXCEPT ![a.source] = @ + a.loot]
      /\ attacks' = [attacks EXCEPT ![q].status = "completed"]
      /\ jobs' = jobs \ {j}
      /\ UNCHANGED <<now, farm, building, training>>

(* Mutated form of Return: the loot is forgotten.                          *)
ReturnEmptyHanded(j) ==
  LET q == j.of
      a == attacks[q]
  IN  /\ Due(j) /\ j.kind = "return"
      /\ a.status = "returning"
      /\ now >= a.returns
      /\ spears' = [spears EXCEPT ![a.source] = @ + a.surviving]
      /\ UNCHANGED stock
      /\ attacks' = [attacks EXCEPT ![q].status = "completed"]
      /\ jobs' = jobs \ {j}
      /\ UNCHANGED <<now, farm, building, training>>

(* army.attack.return.v1                                                   *)
Return(j) ==
  LET q == j.of
      a == attacks[q]
  IN  /\ Due(j) /\ j.kind = "return"
      /\ a.status = "returning"
      /\ now >= a.returns
      /\ spears' = [spears EXCEPT ![a.source] = @ + a.surviving]
      /\ stock' = [stock EXCEPT ![a.source] = @ + a.loot]
      /\ attacks' = [attacks EXCEPT ![q].status = "completed"]
      /\ jobs' = jobs \ {j}
      /\ UNCHANGED <<now, farm, building, training>>

(* army.recruit.complete.v1                                                *)
FinishRecruit(j) ==
  /\ Due(j) /\ j.kind = "recruit"
  /\ training[j.of] > 0
  /\ spears' = [spears EXCEPT ![j.of] = @ + training[j.of]]
  /\ training' = [training EXCEPT ![j.of] = 0]
  /\ jobs' = jobs \ {j}
  /\ UNCHANGED <<now, stock, farm, building, attacks>>

(* building.upgrade.v1                                                     *)
FinishUpgrade(j) ==
  /\ Due(j) /\ j.kind = "upgrade"
  /\ building[j.of]
  /\ farm' = [farm EXCEPT ![j.of] = @ + 1]
  /\ building' = [building EXCEPT ![j.of] = FALSE]
  /\ jobs' = jobs \ {j}
  /\ UNCHANGED <<now, stock, spears, training, attacks>>

Execute(j) == Arrive(j) \/ Return(j) \/ FinishRecruit(j) \/ FinishUpgrade(j)

(* Time passes and villages produce; settle brings that on the books       *)
(* before any command or battle looks at them (Economy is about when).     *)
Tick ==
  /\ now < MaxTime
  /\ now' = now + 1
  /\ stock' = [v \in Villages |->
                 IF stock[v] + Yield <= MaxStock THEN stock[v] + Yield ELSE stock[v]]
  /\ UNCHANGED <<spears, farm, building, training, attacks, jobs>>

Counts == 1..MaxCount

Command == \/ \E v \in Villages : UpgradeFarm(v)
           \/ \E v \in Villages, n \in Counts : Recruit(v, n)
           \/ \E q \in Orders, v, w \in Villages, n \in Counts :
                SendAttack(q, v, w, n)

Next == Tick \/ Command \/ \E j \in jobs : Execute(j)

Spec == Init /\ [][Next]_vars

(* While jobs are due, some job is executed: JobDelivery!Completes says    *)
(* more, that each one is.                                                 *)
FairSpec == Spec /\ WF_vars(Tick) /\ WF_vars(\E j \in jobs : Execute(j))

-----------------------------------------------------------------------------
Statuses == {"none", "outbound", "returning", "completed"}

Attacks == [status : Statuses, source : Villages \cup {NoVillage},
            target : Villages \cup {NoVillage}, sent : Nat, arrives : Nat,
            surviving : Nat, before : Nat, after : Nat, loot : Nat,
            returns : Nat]

JobKinds == {"arrive", "return", "recruit", "upgrade"}
AllJobs == [kind : JobKinds, of : Villages \cup Orders, runAt : 0..MaxTime]

TypeOK ==
  /\ now \in 0..MaxTime
  /\ stock \in [Villages -> Nat]
  /\ spears \in [Villages -> Nat]
  /\ farm \in [Villages -> Levels]
  /\ building \in [Villages -> BOOLEAN]
  /\ training \in [Villages -> Nat]
  /\ attacks \in [Orders -> Attacks]
  /\ jobs \subseteq AllJobs

(* All spears of a village: at home, under way and in training.            *)
Army(v) == spears[v] + Away(v) + training[v]

(* No training makes an army larger than its village's farm feeds, and     *)
(* nothing that happens before the training ends may make it so, like an   *)
(* army that comes home meanwhile.  A village that was over its farm from  *)
(* the start (the .max(0) of farm_free is for it) trains nobody and does   *)
(* not grow until it has lost or upgraded enough.                          *)
FarmBound ==
  \A v \in Villages : \/ Army(v) <= FarmCapacity[farm[v]]
                     \/ /\ training[v] = 0
                        /\ Army(v) <= StartSpears[v]

ReturnDue(q) == attacks[q].arrives + Travel[<<attacks[q].source, attacks[q].target>>]

(* Every army under way has exactly one job that will bring it on, due at  *)
(* the right time: the return is due at arrives_at + travel_seconds, even  *)
(* when the worker was late (the comment in execute_job says that its      *)
(* delay does not lengthen the way back), and there is no other job.       *)
JobsMatchRecords ==
  /\ {j \in jobs : j.kind \in {"arrive", "return"}} =
       {Job("arrive", q, attacks[q].arrives) :
          q \in {p \in Orders : attacks[p].status = "outbound"}} \cup
       {Job("return", q, ReturnDue(q)) :
          q \in {p \in Orders : attacks[p].status = "returning"}}
  /\ \A v \in Villages :
       /\ training[v] > 0 <=> \E j \in jobs : j.kind = "recruit" /\ j.of = v
       /\ building[v] <=> \E j \in jobs : j.kind = "upgrade" /\ j.of = v
  /\ \A j, k \in jobs : j.kind = k.kind /\ j.of = k.of => j = k

(* A battle report tells who lost what: the weaker side is wiped out, the  *)
(* stronger loses in proportion, rounded up, and equals both die (the      *)
(* comment on resolve_combat); losses are the least that cover the enemy's *)
(* strength.                                                               *)
Proportional(lost, of, strength, enemy) ==
  /\ lost * strength >= of * enemy
  /\ lost > 0 => (lost - 1) * strength < of * enemy

ReportsAreRight ==
  \A q \in Orders :
    LET a == attacks[q]
        attack == a.sent * AttackPower
        defense == a.before * DefensePower
    IN  a.status \in {"returning", "completed"} =>
          /\ attack >= defense => a.after = 0
          /\ attack <= defense => a.surviving = 0
          /\ attack > defense =>
               Proportional(a.sent - a.surviving, a.sent, attack, defense)
          /\ attack < defense =>
               Proportional(a.before - a.after, a.before, defense, attack)

(* Resources are moved by raids, never made or lost: what a battle takes   *)
(* from the target is what the army carries until it is home.              *)
Carried == [q \in Orders |->
              IF attacks[q].status = "returning" THEN attacks[q].loot ELSE 0]

Wealth == SumFunctionOnSet(stock, Villages) + SumFunctionOnSet(Carried, Orders)

RaidsConserveWealth ==
  [][attacks' # attacks => Wealth' = Wealth]_vars

(* A raid leaves the target what its hiding place protects, and an army    *)
(* never carries more than its survivors can.                              *)
RaidsRespectLimits ==
  [][\A q \in Orders :
       attacks[q].status = "outbound" /\ attacks'[q].status # "outbound" =>
         /\ LET w == attacks[q].target
            IN  stock'[w] < stock[w] => stock'[w] >= Hidden
         /\ attacks'[q].loot <= attacks'[q].surviving * SpearCarry]_vars

(* Every attack ends, and with it the absence of its army.                 *)
AttacksEnd ==
  \A q \in Orders : attacks[q].status = "outbound" ~> attacks[q].status = "completed"

Soldiers == INSTANCE Expeditions
              WITH home  <- spears,
                   field <- Field,
                   phase <- [q \in Orders |-> attacks[q].status],
                   from  <- [q \in Orders |-> attacks[q].source]

(* Soldiers are where Expeditions says: none is duplicated, lost or taken  *)
(* along to another village.                                               *)
SoldiersAccounted == Soldiers!Spec
=============================================================================
