---------------------------- MODULE JobDelivery ----------------------------
(***************************************************************************)
(* How a row of scheduled_jobs becomes an effect in the game.              *)
(*                                                                         *)
(*   dispatcher   (index.mjs)  scans pending rows under FOR UPDATE SKIP    *)
(*                LOCKED and adds them to the Redis queue;                 *)
(*   queue        (BullMQ, external)  keeps at most one entry per job id,  *)
(*                delays, retries and finally gives up on it;              *)
(*   worker       (index.mjs)  posts the job id to the API and waits for   *)
(*                the answer for 15 seconds;                               *)
(*   handler      (jobs/handlers.rs)  runs one transaction per request.    *)
(*                                                                         *)
(* The parts share the scheduled_jobs rows, their row locks and the queue; *)
(* any of them may fail between two steps.  Time is relative: countdowns   *)
(* to run_at and to the next attempt, and saturating ages.                 *)
(***************************************************************************)
EXTENDS Naturals, FiniteSets

CONSTANTS Jobs,         \* scheduled job ids
          RunDelays,    \* delays a new job may be given, in time units
          Dispatchers,  \* instances of the dispatch loop
          Requests,     \* HTTP requests that may be in progress at once
          BatchLimit,   \* LIMIT 25 of the dispatcher's query
          Stale,        \* "30 seconds", in time units
          MaxSkew,      \* how far the worker's clock may run ahead
          MaxAttempts,  \* attempts: 100
          RetryDelay,   \* backoff: 5000 ms, in time units
          MaxStalls,    \* BullMQ's maxStalledCount
          Concurrency,  \* concurrency: 5
          MaxFaults,    \* bound on failures, crashes and losses
          Free          \* nobody holds, or awaits, this

ASSUME SizesAssumption ==
  /\ BatchLimit \in Nat \ {0}
  /\ Stale \in Nat \ {0}
  /\ MaxAttempts \in Nat \ {0}
  /\ RetryDelay \in Nat \ {0}
  /\ MaxSkew \in Nat
  /\ MaxStalls \in Nat
  /\ Concurrency \in Nat \ {0}
  /\ MaxFaults \in Nat
  /\ RunDelays \subseteq Nat

ASSUME NamesAssumption ==
  /\ Dispatchers \cap Requests = {}
  /\ Free \notin Dispatchers \cup Requests

VARIABLES
  row,       \* scheduled_jobs: "absent", "pending" or "completed"
  left,      \* time left until run_at
  age,       \* age of last_enqueued_at
  applied,   \* how often the job's effects were committed (history)
  lock,      \* who holds the row lock
  batch,     \* rows a dispatcher still has to add
  marked,    \* rows it has added, last_enqueued_at not committed yet
  held,      \* age of the dispatcher's transaction
  entry,     \* the job's BullMQ entry: "none", "delayed", "active", "failed"
  delay,     \* time until a delayed entry may be taken
  attempts,  \* attemptsMade of the entry
  stalls,    \* stalledCounter of the entry, the stall that ends it included
  awaits,    \* the request an active attempt waits for
  at,        \* where a request is: "idle", "sent", "begun", "locked", "replied"
  about,     \* the job a request in progress is about
  due,       \* is_due, as of the start of the request's transaction
  ok,        \* is the answer a 204?
  faults     \* failures so far

database == <<row, left, age, applied>>
dispatch == <<batch, marked, held>>
queue    == <<entry, delay, attempts, stalls, awaits>>
handler  == <<at, about, due, ok>>
vars     == <<database, lock, dispatch, queue, handler, faults>>

(* last_enqueued_at IS NULL sorts before every timestamp.                  *)
Never == Stale + 1

Least(m, n) == IF m <= n THEN m ELSE n
Minus(m, n) == IF m <= n THEN 0 ELSE m - n

Init ==
  /\ row = [j \in Jobs |-> "absent"]
  /\ left = [j \in Jobs |-> 0]
  /\ age = [j \in Jobs |-> Never]
  /\ applied = [j \in Jobs |-> 0]
  /\ lock = [j \in Jobs |-> Free]
  /\ batch = [d \in Dispatchers |-> {}]
  /\ marked = [d \in Dispatchers |-> {}]
  /\ held = [d \in Dispatchers |-> 0]
  /\ entry = [j \in Jobs |-> "none"]
  /\ delay = [j \in Jobs |-> 0]
  /\ attempts = [j \in Jobs |-> 0]
  /\ stalls = [j \in Jobs |-> 0]
  /\ awaits = [j \in Jobs |-> Free]
  /\ at = [r \in Requests |-> "idle"]
  /\ about = [r \in Requests |-> Free]
  /\ due = [r \in Requests |-> FALSE]
  /\ ok = [r \in Requests |-> FALSE]
  /\ faults = 0

-----------------------------------------------------------------------------
(* A game command commits the job row with its own records: the outbox.    *)
Schedule(j) ==
  /\ row[j] = "absent"
  /\ row' = [row EXCEPT ![j] = "pending"]
  /\ \E d \in RunDelays : left' = [left EXCEPT ![j] = d]
  /\ UNCHANGED <<age, applied, lock, dispatch, queue, handler, faults>>

Fault == faults < MaxFaults /\ faults' = faults + 1

Tick ==
  /\ left' = [j \in Jobs |-> Minus(left[j], 1)]
  /\ age' = [j \in Jobs |-> IF age[j] < Stale THEN age[j] + 1 ELSE age[j]]
  /\ delay' = [j \in Jobs |-> Minus(delay[j], 1)]
  /\ held' = [d \in Dispatchers |->
                IF batch[d] \cup marked[d] = {} THEN 0
                ELSE Least(held[d] + 1, Stale)]
  /\ UNCHANGED <<row, applied, lock, batch, marked, entry, attempts, stalls,
                 awaits, handler, faults>>

-----------------------------------------------------------------------------
(* The dispatcher: one transaction over a batch of rows.                   *)

Dispatching(d) == batch[d] \cup marked[d] # {}

(* Mutated form of Eligible: does not skip locked rows.                    *)
EligibleLocked == {j \in Jobs : row[j] = "pending" /\ age[j] >= Stale}

(* Mutated form of Eligible: adds every row once only.                     *)
EligibleOnce == {j \in Jobs : /\ row[j] = "pending"
                              /\ age[j] = Never
                              /\ lock[j] = Free}

(* Pending rows never enqueued, or enqueued too long ago, and not locked.  *)
Eligible == {j \in Jobs : /\ row[j] = "pending"
                          /\ age[j] >= Stale
                          /\ lock[j] = Free}

(* ORDER BY last_enqueued_at ASC NULLS FIRST, run_at ASC                   *)
Precedes(j, k) == \/ age[j] > age[k]
                  \/ age[j] = age[k] /\ left[j] < left[k]

SelectBatch(d) ==
  /\ ~Dispatching(d)
  /\ \E S \in SUBSET Eligible :
       /\ S # {}
       /\ Cardinality(S) = Least(BatchLimit, Cardinality(Eligible))
       /\ \A j \in S, k \in Eligible \ S : ~Precedes(k, j)
       /\ batch' = [batch EXCEPT ![d] = S]
       /\ lock' = [j \in Jobs |-> IF j \in S THEN d ELSE lock[j]]
  /\ held' = [held EXCEPT ![d] = 0]
  /\ UNCHANGED <<database, marked, queue, handler, faults>>

(* queue.add with jobId = the row's id: a no-op while the queue holds an   *)
(* entry of that id, the failed ones included.                             *)
AddToQueue(j) ==
  IF entry[j] = "none"
    THEN /\ entry' = [entry EXCEPT ![j] = "delayed"]
         /\ \E s \in 0..MaxSkew :
              delay' = [delay EXCEPT ![j] = Minus(left[j], s)]
         /\ attempts' = [attempts EXCEPT ![j] = 0]
         /\ stalls' = [stalls EXCEPT ![j] = 0]
         /\ UNCHANGED awaits
    ELSE UNCHANGED queue

Enqueue(d, j) ==
  /\ j \in batch[d]
  /\ AddToQueue(j)
  /\ batch' = [batch EXCEPT ![d] = @ \ {j}]
  /\ marked' = [marked EXCEPT ![d] = @ \cup {j}]
  /\ UNCHANGED <<database, lock, held, handler, faults>>

Unlocked(who) == [j \in Jobs |-> IF lock[j] = who THEN Free ELSE lock[j]]

CommitBatch(d) ==
  /\ batch[d] = {} /\ marked[d] # {}
  /\ age' = [j \in Jobs |-> IF j \in marked[d] THEN held[d] ELSE age[j]]
  /\ lock' = Unlocked(d)
  /\ marked' = [marked EXCEPT ![d] = {}]
  /\ UNCHANGED <<row, left, applied, batch, held, queue, handler, faults>>

(* Redis or PostgreSQL fails, or the process dies: the transaction is      *)
(* undone, what was added to the queue is not.                             *)
RollbackBatch(d) ==
  /\ Dispatching(d)
  /\ Fault
  /\ lock' = Unlocked(d)
  /\ batch' = [batch EXCEPT ![d] = {}]
  /\ marked' = [marked EXCEPT ![d] = {}]
  /\ UNCHANGED <<database, held, queue, handler>>

-----------------------------------------------------------------------------
(* The worker and the queue.                                               *)

Running == {j \in Jobs : entry[j] = "active" /\ awaits[j] # Free}

TakeJob(j, r) ==
  /\ entry[j] = "delayed" /\ delay[j] = 0
  /\ Cardinality(Running) < Concurrency
  /\ at[r] = "idle"
  /\ entry' = [entry EXCEPT ![j] = "active"]
  /\ awaits' = [awaits EXCEPT ![j] = r]
  /\ at' = [at EXCEPT ![r] = "sent"]
  /\ about' = [about EXCEPT ![r] = j]
  /\ UNCHANGED <<database, lock, dispatch, delay, attempts, stalls, due, ok,
                 faults>>

(* The processor returned: the entry is removed.                           *)
AttemptSucceeds(j) ==
  /\ entry' = [entry EXCEPT ![j] = "none"]
  /\ awaits' = [awaits EXCEPT ![j] = Free]
  /\ UNCHANGED <<delay, attempts, stalls>>

(* The processor threw: another attempt later, or the failed set for good. *)
AttemptFails(j) ==
  /\ attempts' = [attempts EXCEPT ![j] = @ + 1]
  /\ awaits' = [awaits EXCEPT ![j] = Free]
  /\ IF attempts[j] + 1 >= MaxAttempts
       THEN entry' = [entry EXCEPT ![j] = "failed"] /\ UNCHANGED delay
       ELSE /\ entry' = [entry EXCEPT ![j] = "delayed"]
            /\ delay' = [delay EXCEPT ![j] = RetryDelay]
  /\ UNCHANGED stalls

Close(r) ==
  /\ at' = [at EXCEPT ![r] = "idle"]
  /\ about' = [about EXCEPT ![r] = Free]
  /\ due' = [due EXCEPT ![r] = FALSE]
  /\ ok' = [ok EXCEPT ![r] = FALSE]

(* The answer of request r reaches the attempt that waits for it.          *)
Deliver(j, r) ==
  /\ at[r] = "replied" /\ awaits[j] = r
  /\ IF ok[r] THEN AttemptSucceeds(j) ELSE AttemptFails(j)
  /\ Close(r)
  /\ UNCHANGED <<database, lock, dispatch, faults>>

(* Nobody waits for the answer any more.                                   *)
Discard(r) ==
  /\ at[r] = "replied" /\ \A j \in Jobs : awaits[j] # r
  /\ Close(r)
  /\ UNCHANGED <<database, lock, dispatch, queue, faults>>

(* AbortSignal.timeout(15_000): the attempt fails, the handler may go on.  *)
Timeout(j) ==
  /\ awaits[j] # Free
  /\ Fault
  /\ AttemptFails(j)
  /\ UNCHANGED <<database, lock, dispatch, handler>>

(* The worker died, or lost its hold on the entry, during an attempt: the  *)
(* queue hands the entry out again, at most MaxStalls times; the next time *)
(* it puts the entry into the failed set, however many attempts are left.  *)
Stall(j) ==
  /\ entry[j] = "active"
  /\ Fault
  /\ awaits' = [awaits EXCEPT ![j] = Free]
  /\ stalls' = [stalls EXCEPT ![j] = @ + 1]
  /\ entry' = [entry EXCEPT ![j] =
                 IF stalls[j] >= MaxStalls THEN "failed" ELSE "delayed"]
  /\ UNCHANGED <<database, lock, dispatch, delay, attempts, handler>>

(* Redis loses the entry (appendfsync everysec, a flush).                  *)
LoseEntry(j) ==
  /\ entry[j] # "none"
  /\ Fault
  /\ entry' = [entry EXCEPT ![j] = "none"]
  /\ awaits' = [awaits EXCEPT ![j] = Free]
  /\ UNCHANGED <<database, lock, dispatch, delay, attempts, stalls, handler>>

-----------------------------------------------------------------------------
(* The handler POST /internal/jobs/{id}/execute.                           *)

Reply(r, success) ==
  /\ at' = [at EXCEPT ![r] = "replied"]
  /\ ok' = [ok EXCEPT ![r] = success]

(* BEGIN: NOW() is fixed here, before the row lock is obtained.            *)
BeginTx(r) ==
  /\ at[r] = "sent"
  /\ at' = [at EXCEPT ![r] = "begun"]
  /\ due' = [due EXCEPT ![r] = left[about[r]] = 0]
  /\ UNCHANGED <<database, lock, dispatch, queue, about, ok, faults>>

(* SELECT ... FOR UPDATE returns once nobody else holds the row.           *)
RowReached(r) == at[r] = "begun" /\ lock[about[r]] = Free

AnswerCompleted(r) ==
  /\ RowReached(r)
  /\ row[about[r]] = "completed"
  /\ Reply(r, TRUE)
  /\ UNCHANGED <<database, lock, dispatch, queue, about, due, faults>>

AnswerNotDue(r) ==
  /\ RowReached(r)
  /\ row[about[r]] # "completed"
  /\ ~due[r]
  /\ Reply(r, FALSE)
  /\ UNCHANGED <<database, lock, dispatch, queue, about, due, faults>>

(* Mutated form of RunJob: no test of completed_at.                        *)
RunJobAgain(r) ==
  /\ RowReached(r)
  /\ due[r]
  /\ lock' = [lock EXCEPT ![about[r]] = r]
  /\ at' = [at EXCEPT ![r] = "locked"]
  /\ UNCHANGED <<database, dispatch, queue, about, due, ok, faults>>

(* Mutated form of RunJob: no test of is_due.                              *)
RunJobAnyTime(r) ==
  /\ RowReached(r)
  /\ row[about[r]] # "completed"
  /\ lock' = [lock EXCEPT ![about[r]] = r]
  /\ at' = [at EXCEPT ![r] = "locked"]
  /\ UNCHANGED <<database, dispatch, queue, about, due, ok, faults>>

RunJob(r) ==
  /\ RowReached(r)
  /\ row[about[r]] # "completed"
  /\ due[r]
  /\ lock' = [lock EXCEPT ![about[r]] = r]
  /\ at' = [at EXCEPT ![r] = "locked"]
  /\ UNCHANGED <<database, dispatch, queue, about, due, ok, faults>>

(* The effects and completed_at become visible in one commit.              *)
CommitJob(r) ==
  /\ at[r] = "locked"
  /\ row' = [row EXCEPT ![about[r]] = "completed"]
  /\ applied' = [applied EXCEPT ![about[r]] = @ + 1]
  /\ lock' = Unlocked(r)
  /\ Reply(r, TRUE)
  /\ UNCHANGED <<left, age, dispatch, queue, about, due, faults>>

(* Mutated form of FailJob: answers 204 all the same.                      *)
FailJobQuietly(r) ==
  /\ at[r] \in {"sent", "begun", "locked"}
  /\ Fault
  /\ lock' = Unlocked(r)
  /\ Reply(r, TRUE)
  /\ UNCHANGED <<database, dispatch, queue, about, due>>

(* Any error before the commit drops the transaction.                      *)
FailJob(r) ==
  /\ at[r] \in {"sent", "begun", "locked"}
  /\ Fault
  /\ lock' = Unlocked(r)
  /\ Reply(r, FALSE)
  /\ UNCHANGED <<database, dispatch, queue, about, due>>

(* The API restarts: transactions are dropped, answers are lost, every     *)
(* caller sees its connection break.                                       *)
RestartApi ==
  /\ \E r \in Requests : at[r] # "idle"
  /\ Fault
  /\ lock' = [j \in Jobs |-> IF lock[j] \in Requests THEN Free ELSE lock[j]]
  /\ at' = [r \in Requests |-> IF at[r] = "idle" THEN "idle" ELSE "replied"]
  /\ ok' = [r \in Requests |-> FALSE]
  /\ UNCHANGED <<database, dispatch, queue, about, due>>

-----------------------------------------------------------------------------
DispatcherStep(d) == \/ SelectBatch(d)
                     \/ \E j \in Jobs : Enqueue(d, j)
                     \/ CommitBatch(d)

(* What a request does once the row is free.                               *)
RowStep(r) == AnswerCompleted(r) \/ AnswerNotDue(r) \/ RunJob(r)

QueueStep(j) == \E r \in Requests : TakeJob(j, r) \/ Deliver(j, r)

Progress == \/ Tick
            \/ \E d \in Dispatchers : DispatcherStep(d)
            \/ \E j \in Jobs : QueueStep(j)
            \/ \E r \in Requests :
                 BeginTx(r) \/ RowStep(r) \/ CommitJob(r) \/ Discard(r)

Failure == \/ \E d \in Dispatchers : RollbackBatch(d)
           \/ \E j \in Jobs : Timeout(j) \/ Stall(j) \/ LoseEntry(j)
           \/ \E r \in Requests : FailJob(r)
           \/ RestartApi

Next == Progress \/ Failure \/ \E j \in Jobs : Schedule(j)

Spec == Init /\ [][Next]_vars

(* Both loops keep running, time passes, and a request that queues for a   *)
(* row lock gets it in the end (PostgreSQL serves waiters in order).       *)
Fairness ==
  /\ WF_vars(Tick)
  /\ \A d \in Dispatchers : WF_vars(DispatcherStep(d))
  /\ \A j \in Jobs : SF_vars(QueueStep(j))
  /\ \A r \in Requests : /\ WF_vars(BeginTx(r))
                         /\ SF_vars(RowStep(r))
                         /\ WF_vars(CommitJob(r))
                         /\ WF_vars(Discard(r))

FairSpec == Spec /\ Fairness

-----------------------------------------------------------------------------
TypeOK ==
  /\ row \in [Jobs -> {"absent", "pending", "completed"}]
  /\ left \in [Jobs -> Nat]
  /\ age \in [Jobs -> 0..Never]
  /\ applied \in [Jobs -> Nat]
  /\ lock \in [Jobs -> Dispatchers \cup Requests \cup {Free}]
  /\ batch \in [Dispatchers -> SUBSET Jobs]
  /\ marked \in [Dispatchers -> SUBSET Jobs]
  /\ held \in [Dispatchers -> 0..Stale]
  /\ entry \in [Jobs -> {"none", "delayed", "active", "failed"}]
  /\ delay \in [Jobs -> Nat]
  /\ attempts \in [Jobs -> 0..MaxAttempts]
  /\ stalls \in [Jobs -> 0..(MaxStalls + 1)]
  /\ awaits \in [Jobs -> Requests \cup {Free}]
  /\ at \in [Requests -> {"idle", "sent", "begun", "locked", "replied"}]
  /\ about \in [Requests -> Jobs \cup {Free}]
  /\ due \in [Requests -> BOOLEAN]
  /\ ok \in [Requests -> BOOLEAN]
  /\ faults \in 0..MaxFaults

(* However often the queue delivers a job, its effects are committed once, *)
(* and exactly when the row is marked completed (handlers.rs, the check of *)
(* completed_at under the row lock).                                       *)
AppliedOnce == \A j \in Jobs : applied[j] = IF row[j] = "completed" THEN 1 ELSE 0

(* No job takes effect before its run_at, not even when the worker's clock *)
(* runs ahead or the request waited for the row (is_due in handlers.rs).   *)
NeverEarly == \A j \in Jobs : row[j] = "completed" => left[j] = 0

(* The worker is told 204 only for a committed job, so an entry is removed *)
(* from the queue as successful only when nothing is left to be done.      *)
OkMeansCommitted ==
  \A r \in Requests : at[r] = "replied" /\ ok[r] => row[about[r]] = "completed"

(* Two dispatchers never work on the same row (FOR UPDATE SKIP LOCKED).    *)
DispatchersApart ==
  \A d, e \in Dispatchers :
    d # e => (batch[d] \cup marked[d]) \cap (batch[e] \cup marked[e]) = {}

(* A completed job never enters the queue again: the dispatcher holds the  *)
(* row from the moment it saw it pending until after queue.add.            *)
NoResurrection ==
  [][\A j \in Jobs : row[j] = "completed" /\ entry[j] = "none"
                       => entry'[j] = "none"]_vars

(* The attempts that a worker's clock running ahead may waste on one entry *)
(* before run_at: one every RetryDelay.                                    *)
NotDueAtMost == (MaxSkew + RetryDelay - 1) \div RetryDelay

(* The queue has given up on the entry, and queue.add is a no-op from then *)
(* on: it has stalled once too often, or all its attempts have failed,     *)
(* each by a failure of its own but for those that came too early.         *)
GivenUp(j) ==
  /\ entry[j] = "failed"
  /\ \/ stalls[j] > MaxStalls
     \/ attempts[j] = MaxAttempts /\ faults + NotDueAtMost >= MaxAttempts

(* At least once: whatever the dispatcher, the queue, the worker or the    *)
(* API loses on the way, every pending job is completed, unless the queue  *)
(* gives up on its entry, after MaxStalls + 1 stalls or MaxAttempts failed *)
(* attempts; it never gets stuck in between.                               *)
Completes ==
  \A j \in Jobs : row[j] = "pending" ~> row[j] = "completed" \/ GivenUp(j)

Abstract == INSTANCE ScheduledEffects WITH status <- row

(* The delivery machinery implements the promise made to the game.         *)
Implements == Abstract!Spec
=============================================================================
