# A verification development of the Koalisyon game server

The repository is a browser strategy game: an axum API over PostgreSQL
(`src/`), a Node worker that runs scheduled jobs through BullMQ/Redis
(`services/bullmq`), and two browser clients (`src/web`, `src/map`). This
directory holds TLA+ modules that model its logic, TLC configurations that
check them on small instances, and proofs checked by TLAPS.

## 1. Inventory

| Component | State it keeps | Operations | Meets the others through |
|---|---|---|---|
| Job table (outbox) `scheduled_jobs` | run_at, last_enqueued_at, completed_at | inserted by commands, marked by dispatcher and handler | row locks of all three |
| Dispatcher `services/bullmq/src/index.mjs` | an open transaction over at most 25 rows | select (SKIP LOCKED), add to the queue, mark, commit or roll back; once a second | job rows, queue |
| Queue (BullMQ/Redis, external) | one entry per job id | delay, hand out, retry 100 times, keep as failed | dispatcher, worker |
| Worker `index.mjs` | up to 5 running attempts | POST the job id, wait 15 s | queue, HTTP |
| Job handler `jobs/handlers.rs` | one transaction per request | lock the row, answer completed / not due, run, commit | HTTP, job rows, game tables |
| Military `military.rs` | village_armies, army_attacks, army_recruits | recruit, send, arrive, return, complete training, show | village locks, jobs, economy |
| Economy `economy.rs` | stock, remainders, resources_updated_at | settle, prices, capacities, split_loot | called under village locks |
| Villages and buildings `web/api.rs` | villages, village_buildings, building_upgrades | create, rename, start and complete an upgrade, show | advisory lock, village locks, jobs |
| Auth `auth/` | login flows, sessions | login, callback, me, logout, clean up | every request's `current_user` |
| Map query `map/mod.rs` | none | villages of an area of at most 100 by 100 tiles | reads villages |
| Village page `web/game.js` | snapshot, militarySnapshot, refreshing, militaryRefreshing, mutating, recruiting, sessionExpired | two polls, mutate, recruit | HTTP |
| Map page `map/map.js` | camera, window, loadTimer, requestId, villages, selected, home; attackTarget, pendingAttack, attackSending | move, load an area, select, go home, order an attack and repeat it | HTTP |

What is hard here: at-least-once delivery with failures between any two steps
of four processes; game transactions that write absolute values computed from
earlier reads; implicit locks; jobs executed late and in any order; integer
rounding; clients whose answers overtake one another. `PROJECT.json` lists the
hazards one by one, at their lines, with the properties aimed at each.

What makes each component correct:

* *delivery* - a scheduled effect is applied once, never early, and eventually,
  unless the queue has given up on it;
* *military* - soldiers and resources are neither created nor lost, every army
  under way has a job that will bring it on, the farm feeds all, battle reports
  add up, hidden resources are safe;
* *locks* - nobody writes on the strength of a stale read, and everybody ends;
* *economy* - settling late, often or rarely yields what continuous production
  would have;
* *villages* - one per player, distances kept;
* *auth* - a login flow is used once, a replaced session is dead;
* *pages* - what is shown never goes back, belongs to what the player looks at,
  catches up with the server, and offers nothing the server would refuse; an
  order keeps its id until its fate is known.

## 2. Modules

```
ScheduledEffects   <- refined by -  JobDelivery   <- MCJobDelivery (2 runs)
                                        ^- JobDeliveryProofs
Combat <- LootLoop (1 run)
Combat <- Military <- MCMilitary (1 run);   Expeditions <- refined by - Military
              ^- MilitaryProofs (of LootLoop, too)
IdealProduction    <- refined by -  Economy       <- MCEconomy (1 run)
                                        ^- EconomyProofs
RowLocks <- MCRowLocks (2 runs);   RowLocks <- RowLocksProofs
Placement <- MCPlacement (1 run);  Placement <- PlacementProofs
Sessions  <- MCSessions (1 run);   Sessions  <- SessionsProofs
VillagePage (1 run) <- VillagePageProofs
AreaLoader   <- refined by -  MapPage <- MCMapPage (1 run)
AttackOrders <- refined by -  MapPage <- MapPageProofs;   AttackOrders (1 run)
```

**ScheduledEffects** is what the game relies on: a scheduled effect is applied
once, not before its time, and, fairly, at some time.

**JobDelivery** is how that is done. Its variables are the columns of
`scheduled_jobs` (`row`, `left` = time to run_at, `age` of last_enqueued_at),
the row locks, the dispatchers' transactions (`batch`, `marked`, `held`), the
queue's entries and the requests in progress (`at`, `about`, `due`, `ok`).
Each await of the code is a border between actions: `SelectBatch`, `Enqueue`
(one queue.add), `CommitBatch`, `RollbackBatch`; `TakeJob`, `Deliver`,
`Timeout`; `BeginTx` (which fixes NOW(), and so is_due), `AnswerCompleted`,
`AnswerNotDue`, `RunJob` (row locked), `CommitJob`, `FailJob`. External failures
are `Stall`, `LoseEntry`, `RestartApi`, `Discard`. Time is relative (countdowns
and saturating ages), so no clock bound is needed; `MaxFaults` bounds the
failures. `faults` and `applied` exist in the model only. The queue gives up on an
entry in two ways (`GivenUp`): after as many failed attempts as it makes, or, much
sooner, when the entry stalls once more than BullMQ's maxStalledCount; queue.add
is a no-op ever after.

**Combat** holds resolve_combat and the arithmetic of loot, **LootLoop** the
statements of split_loot.

**Military** is the game seen through its transactions: each command and each
job is one action, because all of them hold the lock of the village they read
and write (RowLocks looks inside). The job rows that are not completed are the
set `jobs`; any due job may be executed next, which is what JobDelivery
promises and no more. One resource stands for three. Every upgrade of a village
shares one queue; the farm's is modelled because its level bounds the army.
Recruiting tests the farm against the soldiers at home and away, as the code
does, with no other training pending. The model starts when the migrations have
run and no command has been given since, with any number of soldiers in each
village: `202609120006_starting_army.sql` raises every village that exists to
10000 at least, and a farm of level 1 feeds 240. `FarmBound` says that such a
village trains nobody and does not grow, and that any other stays within its
farm. (A training or an attack that was under way while that migration ran is
not in the model; the proof of `ArmyGrowsWithinFarm`, that no step lets an army
grow beyond its farm, does not look at the start.)

**Expeditions** is the abstract life of soldiers; Military implements it.

**IdealProduction** is what the economy promises: resources accumulate without a
break, each at the rate its building has at that moment, and an upgrade counts
from its run_at on. It counts fractions of a unit and never rounds.

**Economy** is how the code does it: nothing is computed until somebody looks.
`books` are the columns of `villages`, `pending` is the upgrade that is not
completed; `Settle` is `settle` (effective_at between resources_updated_at and
the boundary; `accrue` with its carried remainder). Every caller of settle is an
action: both bootstraps (`Show`, `ShowArmy`), the two purchases (`StartUpgrade`,
`Recruit`), the two ends of a raid (`Plundered`, `BringHome`) and
`CompleteUpgrade`, which settles twice, to run_at at the old rate and to now at
the new one. `seen` is the snapshot of the village page; `Shown` is what
updateLiveResources makes of it, by the page's clock (`PageTime`). That clock is
Date.now() + serverOffset, and the offset takes server_time for the middle
between request and answer; but the server reads server_time after it has waited
for the village's lock (api.rs:123-138), so after a long wait the clock is ahead
by up to half of it, after a slow answer behind. `ahead` is that error, chosen
anew with every snapshot, up to `MaxAhead` either way. A clock of the computer
that is set while the page is open is left out, and floating-point arithmetic is
taken as exact. `spent` exists
in the model only. `Requires` is the table of required buildings
(`Met` is requirement_status); `CanUpgrade` is what bootstrap reckons for each
building, with the stock the page shows, and `Accepts` what start_upgrade tests.

**RowLocks** takes the transactions of Military apart into the statements that
lock, read and commit. `Plan` gives the statements of each kind of transaction;
what a transaction holds is the prefix of its plan that it has executed. The
check of a foreign key is the implicit lock that reading the Rust code does not
show: `INSERT INTO army_attacks` takes FOR KEY SHARE on the target village.
`fresh` remembers whether what was read still holds. The model has no counters
and needs no bound.

**Placement** is create_village, one action per statement: `Lock`, `Look`,
`Choose` or `Full`, `Insert`, `Finish` (the rows of the village, and commit).
The row inserted by `Insert` is `spot` and visible to others from `Finish` on;
before, it makes conflicting insertions wait (`MustWait`). `Conflict` is the
answer 500 that the unique constraints would give. The grid and the places of
villages from before the map are constants. `Play` stands for everything else
that changes a village's rows. Villages are never deleted: no code does it.

**Sessions** is login and logout between browsers, API and Google. `flow` and
`session` are the histories of all rows ever inserted, `open` and `live` the
rows that are there. `req` is what a request carries from its sending
(`Callback`, `Logout`: the cookies of that moment) over its statements
(`Consume`, `Create`, `Delete`) to its answer (`Arrive`, `Forget`: the cookies
it sets). Time is a countdown of each row's life; the two statements of the
cleanup task are two actions that run at any time. State and browser token of a
flow are drawn together, hence one token. The server's memory keeps nothing, so
a restart is a `Fail` of every request in progress.

**VillagePage** is the page of the village against the two queries it polls. Of
the village it counts the changes (`rev`): a query has read the village as of
some change, and that is all that ordering depends on. `ReadGame` reads under
the lock; `ReadHome` and `ReadRest` are the two moments of military bootstrap,
which reads the soldiers at home in the very statement that waits for the lock.
The flags are the code's, with the places where a call returns at once
(`MayRefresh`, `MayRefreshArmy`) and what a handler does after its awaits
(`AfterPoll`, `RecruitDone`, `EndMutate`). A request may fail before or after it
was carried out; the session may end, another tab change the village, the page
be hidden and loaded again.

**AreaLoader** is the map and its loader: every move clamps the camera and
starts the timer (`Move`, `GoHome`, `Resize`), its end aborts the request before
and asks for the window (`LoadArea`); an aborted request whose answer is
complete may still come through and is dropped by its number (`Drop`). `View`,
`Floor`, `Ceil` and `Accepted` are the arithmetic of viewBounds and of the
server's check, in whole positions of the camera (`Unit` of them on a tile).
One coordinate stands for two. `drawnFor` exists in the model only.

**AttackOrders** is an order of an attack between the dialog and send_attack:
`pending` is pendingAttack, `wire` the attempts under way, which reach the server
late, lost or not at all, even after the next attempt; `Execute` is send_attack,
which looks an id up before it counts soldiers; `ExecuteFailing` its failure, at
COMMIT too, when the army may have left. A number of soldiers the form refuses
never becomes an order. `fate` and `tries` exist in the model only.

**MapPage** puts the two together: a command is for the selected village, the
dialog is modal, a page loaded again begins both anew. It implements each of
them (`PageImplementsMap`, `PageImplementsDialog`), so that their properties hold
for the page.

## 3. Runs

| Run | Bounds | Question |
|---|---|---|
| `delivery_safety` | 2 jobs, 2 dispatchers, 2 requests, batches of 2, 2 failures, skew 1, 1 stall | is all this ScheduledEffects: does a job take effect once, and not before its time? is it answered truthfully? do completed jobs stay out of the queue? |
| `delivery_completes` | 2 jobs, 1 dispatcher, 1 request, batches of 1, 2 failures, 3 attempts, 1 stall, skew 1 | is every job completed unless the queue has given up on it, after so many stalls or failures? |
| `loot_loop` | capacity to 12, stocks to 6 | split_loot, exhaustively |
| `military` | 2 villages, 2 attacks, farms for 4 and 6, 5 soldiers in each village, one of them over its farm, 4 units of time | conservation, limits, reports, jobs and records; does every attack end? |
| `economy` | 2 resources and a building that produces nothing and that a mine requires, rates 0, 2, 5 thirds, 5 units of time, stocks of 3, prices of 1 and 2, a page's clock that is off by 1 either way | is production what it should be? by how much may the page promise too much? does it offer what is refused? |
| `locks` | 2 villages, 3 transactions, 2 connections, sends both ways, a raid and a return | are writes based on current reads? who can close a cycle? does every transaction end? |
| `locks_mutual` | 2 villages, 2 transactions | **violation**: mutual attacks deadlock (section 5) |
| `placement` | 5 places, a village of old, 3 players, 2 tabs | one village each, at its distance, near the centre? changed later? is every request answered? |
| `sessions` | 2 browsers, 2 requests, 2 logins, 2 sessions, lives of 1 | is a flow used once, by its browser? do ended sessions stay dead? are unused rows deleted? |
| `map_page` | 3 villages on 9 tiles, windows of 3 and 4 tiles, 2 answers in flight; 2 orders of 2 attempts, 2 soldiers | are areas accepted? does a map at rest show its window? does it go back? what becomes of an order whose answers are lost? |
| `attack_forgotten` | 2 orders of 2 attempts | **violation**: an order is forgotten although its army left (section 5) |
| `village_page` | 2 changes of the village, 2 failures, one session | does the page go back? how late is it? does it wait for nothing? does it catch up? |

`map_page` checks a sum: a behaviour of it lets the map run or the dialog, as
AreaLoader and AttackOrders say, while the other half rests. That loses nothing:
every property of the run is about one half, and every behaviour of the page is
one of each half, which is proved (section 6). The product would only multiply
their states.

Why the bounds are enough. Delivery: a fault of each kind needs one failure;
two make a failure within the recovery of another; two requests are a
redelivery in parallel, two jobs and batches of one a row left out by LIMIT,
batches of two a transaction that fails between two entries. For `Completes` the
attempts (3) are more than the stalls that end an entry (2), as in the code (100
and 2), and a clock that is ahead wastes one attempt on a job that is not due, so
that two failures reach either end: two stalls, or two failed attempts and an
early one. `Completes` is violated if either end is left out of `GivenUp`, or
`NotDueAtMost` is.
Military: five spears against up to five include a win with losses (4:1 wins by
40:35), a draw cannot occur below 7:2 but is covered by BattleBounds; two
attacks overlap in every order, and MaxTime 4 lets a late arrival coincide with
the next job. The village with barracks starts over its farm: it trains after
a lost battle, up to 4, or after an upgrade of the farm, up to 6, with soldiers
away or not. LootLoop: leftovers of 1 and 2 with every combination of exhausted
resources occur. Economy: with 2 and 5 thirds every remainder occurs, an upgrade of 1 or 2
(or, with the second reading of the clock, one more) units of time can be late by
several, two upgrades follow each other, and a mine that stands still starts. A
page's clock that is ahead by 1 passes production_valid_until before the
server's, and counts up to two units too much.
Locks: three transactions on two villages let a third one
wait for either of two that wait for each other; for rings of more villages, and
any number of transactions, the result is proved (`DeadlockNeedsSend`). Placement: the village of old is off the grid, four fields or more
from two of the five places and nearer to three, so that the third player finds
the area full.
Sessions: two requests overtake each other within one browser and between two;
two sessions are one that replaces another, two flows a login begun again.
(Three logins and three sessions, 5 million states, were checked as well.)
Map: the home village is near the left end of the world and the map is moved to
the right one, so that windows are clipped at both; windows of odd and even
width round up and down; a village may be founded and grow once. The limit of 8
leaves the widest window exactly its margins. Two answers in flight are one
overtaking another. Orders: the second attempt overtakes the first or finds it
carried out, the second order follows one in doubt. Village page: two changes
are one of the player's and one of another's in either order, or the two moments
of an army poll on either side of a battle; two failures hit two polls, or one
twice.

Deadlock checking is on in the delivery, lock, placement, session and village
page runs. It is off in `loot_loop` (the function returns), in the military and
economy runs (nothing is left to do at the bound `MaxTime`), and in `map_page` and
`attack_forgotten`, which ask no question about progress.

Types (`TypeOK`) are proved rather than run. "Applied once" and "never early" are what ScheduledEffects says;
`Implements` checks them, and `ExactlyOnce` and `OnTime` prove them apart.

## 4. Fairness

`JobDelivery!Fairness`: both loops of the worker run for ever and catch their
errors (index.mjs:163-180), so dispatcher steps are weakly fair; a job's queue
step is strongly fair because the worker takes due entries in order while at
most five run; a request waiting for the row lock is strongly fair because
PostgreSQL queues waiters; commits and answers need no one else and are weakly
fair. Failures are never fair. `Military!FairSpec` assumes that time passes and
that while jobs are due one is executed. `Completes` justifies that for jobs whose
entries the queue does not give up on: `AttacksEnd` leaves out the jobs that end
in BullMQ's failed set. Such an army stays under way until the entry is removed
or retried by hand.
`RowLocks!FairSpec`: lock waiters and connection waiters are queued, hence
strong fairness of a transaction's next step and of `Begin`; the deadlock
detector is weakly fair. `Placement!FairSpec`: waiters for the advisory lock are
queued too, statements end. `Sessions!FairSpec`: time passes and the cleanup
task, which logs an error and goes on, is weakly fair in both statements;
nothing is assumed of browsers and requests.
`VillagePage!FairSpec`: setInterval calls both polls while the page is in view
(a hidden page calls nothing, hence `~hidden`); a request that is under way is
answered in the end, or fails. Failures and the player are not fair;
`MaxTroubles` bounds failures, for a server that never answers is not caught up
with.

## 5. Findings

**Mutual attacks deadlock** (`locks_mutual`).
`military.rs:773-774` says that two villages are always locked in the order of
their UUIDs and that mutual attacks make no inverse lock order. `execute_job`
keeps the order; `send_attack` does not: it holds the player's village FOR
UPDATE when the foreign key `army_attacks.target_id` asks for the target's row.
Two players who attack each other at the same moment, or a send and an arrival,
wait for each other; PostgreSQL aborts one, whose caller sees a 500.
`CyclesGoDownhill` says that a send to a village of
smaller UUID is needed for a cycle (without sends there is none), and
`EveryoneFinishes` that the damage ends with the aborted request. Locking both
villages in order in send_attack, too, would remove it.

**An order is forgotten although its army left** (`attack_forgotten`).
`map.js:712-713` says that only a definite validation error lets the player
choose anew and that a network error keeps the request id. When the status of the
answer arrives and the body does not, `militaryApi` (map.js:1148) returns null,
`pendingAttack` becomes null (map.js:701), and then `result.arrives_at` throws.
The page shows an error and the next click is a new order. Forgetting the order
after the answer has been read would keep it. A 401 (the session ended after the
first answer was lost) forgets an order that may have been carried out in the
same way, by map.js:714. `FailedOnceIsFailed` is what remains true: an order
sent once and refused or expired has no army.

Observed on the way, and proved: the loop of split_loot never goes round and
its last `if` never decides (`OnePassIsEnough`); it is harmless. Also observed: a
session is replaced by the next login only if the browser got its cookie; after
a lost answer, or when two logins of a browser overlap, a session lives on that
no cookie names, until it expires (`Cleaned`).

## 6. Proofs

Eight modules hold theorems; TLAPS checks them to the last leaf. They are about any
number of jobs, villages, transactions and moments, and rest on the named
assumptions of the modules, which TLC evaluates in the runs.

| Module | Proved | From |
|---|---|---|
| `JobDeliveryProofs` | types, applied once, never early, truthful answers, dispatchers apart, no resurrection, refinement of ScheduledEffects | `SizesAssumption`, `NamesAssumption`: limits are natural numbers, names are distinct |
| `MilitaryProofs` | bounds and price of a battle, more soldiers are better; types, jobs and records agree, reports are right, raids keep limits, no training makes an army outgrow the farm, raids conserve resources, refinement of Expeditions | `MilitaryAssumption`, `FarmAssumption` (a higher farm feeds more; of starting armies only that they are natural numbers), `FinitenessAssumption` (villages and attacks are finitely many) |
| `MilitaryProofs` | of LootLoop: types; loot never overdraws, takes all that fits, in one pass | `BoundsAssumption` |
| `EconomyProofs` | types, boundary kept, refinement of IdealProduction, the page shows what can be spent, but for the error of its clock; what it offers is accepted | `KindsAssumption`, `RateAssumption` (rates do not fall with the level) |
| `PlacementProofs` | a village appears with its rows, no constraint is ever hit, distances, centre first, progress kept | `PlacementAssumption` (villages of old lie anywhere, no two on one place) |
| `SessionsProofs` | types, single use of flows, browser binding, ended sessions are dead | `LivesAssumption` |
| `RowLocksProofs` | no stale writes, only a send to a smaller UUID closes a cycle, no sends no cycle | `LocksAssumption` |
| `MapPageProofs` | types, areas accepted, a map at rest is right, villages never older; one id one order, the dialog shows the order, refusals are true, failed once is failed; the page implements map and dialog | `MapAssumption`, `LimitAssumption` (the widest window and four tiles are within the limit), `OrdersAssumption`, `TargetsAssumption` |
| `VillagePageProofs` | types, late by one poll at most, waits only for what is under way, never backwards | `PageAssumption` |

*Delivery.* "Applied once" is not inductive: it needs to be known that a request
that holds a row's lock saw it uncompleted and nobody completes it meanwhile
(`LockDiscipline`), that a request's `due` was computed from a clock that only
goes on (`DueIsRight`), that every entry and request is about a scheduled job
(`KnownJobs`) and how an entry's attempts and state belong together
(`EntryShape`). The refinement follows step by step: only `CommitJob` applies an
effect, everything else stutters or lets time pass.

*Combat and loot.* Products of variables make these hard for the solver, so the
rounding is isolated in lemmas on quotients: shares rounded down add up to at
most the total and leave at most two units; if a share was cut off by a stock,
the stock is exhausted. One pass hands out what is left. In resolve_combat the winner's own numbers
cancel (`LossesCancel`): it loses what the loser was worth, rounded up, however
many it has brought (`BattlePrice`). That survivors grow with one's own numbers
and fall with the enemy's (`MoreIsBetter`) follows from the short form by linear
arithmetic; of the code's form it is far from plain, for rounding is involved.

*Military.* The invariant ties jobs to records in both directions
(`JobsHaveRecords`, `RecordsHaveJobs`, `OneJobEach`): with one direction alone,
an execution could meet a record in another state or leave one without a job.
`ArmiesInOrder` says what a row holds in each status, `ReportsKept` that a
report, once written, still follows from the bounds of a battle
(`BattleBounds`).

*Sums.* The farm's bound and the wealth of all are about sums over sets of any
size (`SumFunctionOnSet`). The library's theorems about folds take operators as
parameters and cannot be used, so the few facts needed are proved from the
definition (`SumUnfolds`, `SumTakesOut`, `SumChanges`: when one summand changes,
the sum changes by as much). The induction they need is first-order: among the
subsets for which a set of sums does not exist a minimal one would exist
(`FiniteInduction`, by the well-foundedness of the strict-subset order).

*Farm and wealth.* Each step changes one attack, hence one summand of what a
village has in the field (`AwayChanges`), and by no more than it moves
between field and village. A training is counted before it ends, so its end only
moves soldiers; a battle or a return only lowers the sum; farms only grow. So
every step keeps the army within the farm or lets it not grow, whatever it was
before (`KeepsToFarm`), and starts no training in the second case; `FarmBound`
follows from that alone, without an assumption on the armies of the start. Of a
raid the same lemmas say that the target loses what the attack begins to carry,
the source gains what it ceases to carry, and nothing else moves (`WealthMoves`).

*Economy.* The invariant is short: books are not settled beyond now or the
boundary, and a pending upgrade leads to a level that exists. From it follows
that a settlement adds exactly rate times elapsed time (`SettleAdds`, with
Euclidean division for the remainder), hence the value of the books plus what is
owed, split at run_at if the upgrade is overdue, is untouched by settling and by
completing; it changes with time at the ideal rate, and with spending. For the
page the invariant is `SeenBehind`: reckoned to the moment of the books, the old
snapshot is worth no more than the books plus what was spent since. It holds
because levels and rates do not fall, and it is about fractions: the statement
about whole units alone would not be inductive. A page whose clock is ahead counts
at the snapshot's rate for so much longer, which is bounded by what is there when
the server's clock has come so far (`SettledLater`), and by what a village
produces meanwhile (`CountsNoMore`). An offer is good because of the same
invariant: requirements met in the snapshot are met by levels that only rise, and
what the snapshot holds is still there (`SnapshotIsThere`).

*Placement.* The invariant is that what a request read under the lock still holds
(`ReadHolds`): its player has no village, its place is free and the first in the
order. Only the holder of the lock adds villages, so it survives the steps of
others.

*Sessions.* A flow that a session came of, or that a request has consumed, has
no row and no second owner (`FlowsSpent`), and what a request carries stays with
its browser (`StayingPut`). All steps but login, creation and time only remove
rows or hand over what is there; one lemma (`TakeOver`) covers them.

*Locks.* No two transactions hold conflicting locks of a row; so a row cannot
change between the reading and the writing of its holder. Plans without a send
climb in the order of the rows; in a circle of waiting the transaction waiting
for the greatest row would have to be waited for at a greater one.

*Map.* The window lies in the world because the camera is clamped whenever
window or camera change (`Centred`); rounding outward adds less than a tile on
each side, the margin one, which is the four tiles of `LimitAssumption`. The
code's own numbers fit: at most 88 tiles shown, 100 accepted (map.js:71-79).
That a map at rest is right needs the request in flight to be for the window of
now unless the timer runs (`LatestIsRight`); that villages never get older
needs the ages of villages, drawn and answered data in order (`AgesInOrder`):
what the latest request has read is no older than what is drawn; the other
requests are dropped.

*Orders.* Attempts are counted (`Counted`: none without its order begun, none
later than the last), so that an order sent once is in one place at a time:
still to be asked, on its way, or answered (`OnceInOnePlace`). A refusal is true
because the id is looked up first, under the lock of the village.

*Village page.* The flags admit one poll at a time (`GameInv`, `ArmyInv`): that is
what keeps answers from overtaking one another. What a poll has read lies between
what is shown and what is, and once a poll has been shown after a change made
here, the next one was sent after that change. The army is read at two moments;
its two parts are each held in the same order, and the second is never there
without the first. That the form waits only for what is under way (`FormInv`) is
inductive by itself: the step that ends a refresh lets the form go on.

## 7. Only model-checked

Liveness (`Completes`, `AttacksEnd`, `EveryoneFinishes`, `Answered`,
`Cleaned`, `CatchesUp`): temporal proofs from fairness are out of the prover's
reach. Every other property of a passing run is proved for all values of the
constants.

## 8. Not modelled, and what is left

Every component that keeps state the properties speak of has its module. Left
for later, in this order:

1. The army panel of the map page: the same two-moment poll as VillagePage's,
   without a recruit form, and the form's limit of soldiers drawn from it.
2. The rules a village's name has to follow (renaming occurs as a command of
   RowLocks and a change of VillagePage).

Left out for good: configuration, hashing, headers, error texts, static files
and pictures, rendering, gestures on the map, the queue dashboard, scripts, the
compose file and the one-time data migrations, but for the armies
they give, which are the start of Military: the rest keeps no state that these
properties speak of. Overflow of 64-bit stocks is left out, too: `accrue` returns
an error instead.
