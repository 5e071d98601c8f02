------------------------- MODULE JobDeliveryProofs -------------------------
(***************************************************************************)
(* Proofs that JobDelivery applies every job at most once, never early,    *)
(* and implements ScheduledEffects, for all sets of jobs, dispatchers and  *)
(* requests and all bounds.                                                *)
(***************************************************************************)
EXTENDS JobDelivery, TLAPS

(* A row lock is held by exactly the transaction that says it holds it,    *)
(* and only a pending row is ever locked for long.                         *)
LockDiscipline ==
  /\ \A j \in Jobs, r \in Requests :
       lock[j] = r <=> at[r] = "locked" /\ about[r] = j
  /\ \A j \in Jobs, d \in Dispatchers :
       lock[j] = d <=> j \in batch[d] \cup marked[d]
  /\ \A j \in Jobs : lock[j] # Free => row[j] = "pending"

(* What the queue and the requests refer to exists.                        *)
KnownJobs ==
  /\ \A j \in Jobs : entry[j] # "none" => row[j] # "absent"
  /\ \A r \in Requests : at[r] # "idle" => /\ about[r] \in Jobs
                                           /\ row[about[r]] # "absent"

(* is_due, once seen, stays right, and only a due job is run.              *)
DueIsRight ==
  \A r \in Requests : /\ at[r] # "idle" /\ due[r] => left[about[r]] = 0
                      /\ at[r] = "locked" => due[r]
                      /\ at[r] = "idle" => ~due[r]

(* An entry still in play has an attempt left and has not stalled too      *)
(* often; only an active one awaits.                                       *)
EntryShape ==
  \A j \in Jobs : /\ entry[j] \in {"delayed", "active"} =>
                       attempts[j] < MaxAttempts /\ stalls[j] <= MaxStalls
                  /\ awaits[j] # Free => entry[j] = "active"

IInv == /\ TypeOK
        /\ EntryShape
        /\ LockDiscipline
        /\ KnownJobs
        /\ DueIsRight
        /\ AppliedOnce
        /\ NeverEarly
        /\ OkMeansCommitted
-----------------------------------------------------------------------------
USE SizesAssumption, NamesAssumption

(* The stand-in for a NULL last_enqueued_at is above every age.            *)
LEMMA NeverIsNat == Never \in Nat /\ Never = Stale + 1 /\ Stale \in 0..Never
  BY DEF Never

(* Cut-off subtraction stays a natural number, and zero stays zero.        *)
LEMMA MinusIsNat == ASSUME NEW m \in Nat, NEW n \in Nat
                    PROVE  /\ Minus(m, n) \in Nat
                           /\ m = 0 => Minus(m, n) = 0
  BY DEF Minus

(* The empty system satisfies the invariant.                               *)
LEMMA InitInv == Init => IInv
<1> SUFFICES ASSUME Init PROVE IInv
  OBVIOUS
<1> USE DEF Init
<1>1. TypeOK
  BY NeverIsNat DEF TypeOK
<1>2. EntryShape /\ LockDiscipline /\ KnownJobs /\ DueIsRight
  BY DEF EntryShape, LockDiscipline, KnownJobs, DueIsRight
<1>3. AppliedOnce /\ NeverEarly /\ OkMeansCommitted
  BY DEF AppliedOnce, NeverEarly, OkMeansCommitted
<1> QED
  BY <1>1, <1>2, <1>3 DEF IInv

(* A new job: absent rows are in no queue and no request.                  *)
LEMMA ScheduleInv ==
  ASSUME IInv, NEW j \in Jobs, Schedule(j)
  PROVE  IInv'
<1> USE DEF IInv, TypeOK, Schedule, vars, database, dispatch, queue, handler
<1>1. TypeOK'
  BY DEF EntryShape
<1>2. LockDiscipline'
  BY DEF LockDiscipline, KnownJobs
<1>3. KnownJobs'
  BY DEF KnownJobs, LockDiscipline, EntryShape
<1>4. DueIsRight'
  BY DEF DueIsRight, KnownJobs, LockDiscipline
<1>5. AppliedOnce'
  BY DEF AppliedOnce, LockDiscipline, KnownJobs
<1>6. NeverEarly'
  BY DEF NeverEarly, DueIsRight, KnownJobs, LockDiscipline
<1>7. OkMeansCommitted'
  BY DEF OkMeansCommitted, KnownJobs, LockDiscipline
<1>8. EntryShape'
  BY DEF EntryShape
<1> QED
  BY <1>1, <1>2, <1>3, <1>4, <1>5, <1>6, <1>7, <1>8

(* Time only shortens countdowns; a due job stays due.                     *)
LEMMA TickInv ==
  ASSUME IInv, Tick
  PROVE  IInv'
<1> USE DEF IInv, TypeOK, Tick, vars, database, dispatch, queue, handler
<1>1. TypeOK'
  <2>1. left' \in [Jobs -> Nat] /\ delay' \in [Jobs -> Nat]
    BY MinusIsNat
  <2>2. age' \in [Jobs -> 0..Never]
    BY NeverIsNat
  <2>3. held' \in [Dispatchers -> 0..Stale]
    BY DEF Least
  <2> QED
    BY <2>1, <2>2, <2>3
<1>2. DueIsRight'
  BY MinusIsNat DEF DueIsRight, KnownJobs, LockDiscipline
<1>3. NeverEarly'
  BY MinusIsNat DEF NeverEarly, DueIsRight, KnownJobs, LockDiscipline
<1>4. EntryShape' /\ LockDiscipline' /\ KnownJobs' /\ AppliedOnce' /\ OkMeansCommitted'
  BY DEF EntryShape, LockDiscipline, KnownJobs, AppliedOnce, OkMeansCommitted
<1> QED
  BY <1>1, <1>2, <1>3, <1>4

(* Only pending, unlocked rows are locked for a batch.                     *)
LEMMA SelectBatchInv ==
  ASSUME IInv, NEW d \in Dispatchers, SelectBatch(d)
  PROVE  IInv'
<1> USE DEF IInv, TypeOK, SelectBatch, Dispatching, Eligible, vars, database, dispatch, queue, handler
<1>1. TypeOK'
  BY DEF EntryShape
<1>2. LockDiscipline'
  BY DEF LockDiscipline, KnownJobs
<1>3. EntryShape' /\ KnownJobs' /\ DueIsRight' /\ AppliedOnce' /\ NeverEarly' /\ OkMeansCommitted'
  BY DEF EntryShape, KnownJobs, DueIsRight, AppliedOnce, NeverEarly, OkMeansCommitted
<1> QED
  BY <1>1, <1>2, <1>3

(* queue.add gives a fresh entry all its attempts and touches no row.      *)
LEMMA EnqueueInv ==
  ASSUME IInv, NEW d \in Dispatchers, NEW j \in Jobs, Enqueue(d, j)
  PROVE  IInv'
<1> USE DEF IInv, TypeOK, Enqueue, AddToQueue, vars, database, dispatch, queue, handler
<1>1. TypeOK'
  <2>1. delay' \in [Jobs -> Nat]
    <3>1. CASE entry[j] = "none"
      <4>1. PICK s \in 0..MaxSkew :
              delay' = [delay EXCEPT ![j] = Minus(left[j], s)]
        BY <3>1
      <4>2. left[j] \in Nat /\ s \in Nat
        OBVIOUS
      <4> HIDE DEF TypeOK, IInv, Enqueue, AddToQueue
      <4>3. Minus(left[j], s) \in Nat
        BY <4>2, MinusIsNat
      <4> USE DEF TypeOK, IInv, Enqueue, AddToQueue
      <4> QED
        BY <4>1, <4>3
    <3>2. CASE entry[j] # "none"
      BY <3>2
    <3> QED
      BY <3>1, <3>2
  <2>2. attempts' \in [Jobs -> 0..MaxAttempts] /\ stalls' \in [Jobs -> 0..(MaxStalls + 1)]
    OBVIOUS
  <2>3. batch' \in [Dispatchers -> SUBSET Jobs] /\ marked' \in [Dispatchers -> SUBSET Jobs]
    OBVIOUS
  <2>4. entry' \in [Jobs -> {"none", "delayed", "active", "failed"}]
    OBVIOUS
  <2>5. UNCHANGED <<row, left, age, applied, lock, held, awaits, at, about, due, ok, faults>>
    OBVIOUS
  <2> QED
    BY <2>1, <2>2, <2>3, <2>4, <2>5
<1>2. EntryShape'
  BY DEF EntryShape
<1>3. LockDiscipline'
  BY DEF LockDiscipline, KnownJobs
<1>4. KnownJobs'
  BY DEF KnownJobs, LockDiscipline, EntryShape
<1>5. DueIsRight' /\ AppliedOnce' /\ NeverEarly' /\ OkMeansCommitted'
  BY DEF DueIsRight, AppliedOnce, NeverEarly, OkMeansCommitted
<1> QED
  BY <1>1, <1>2, <1>3, <1>4, <1>5

(* Committing a batch releases exactly the rows it added.                  *)
LEMMA CommitBatchInv ==
  ASSUME IInv, NEW d \in Dispatchers, CommitBatch(d)
  PROVE  IInv'
<1> USE DEF IInv, TypeOK, CommitBatch, Unlocked, vars, database, dispatch, queue, handler
<1>1. TypeOK'
  BY NeverIsNat DEF EntryShape
<1>2. LockDiscipline'
  BY DEF LockDiscipline, KnownJobs
<1>3. EntryShape' /\ KnownJobs' /\ DueIsRight' /\ AppliedOnce' /\ NeverEarly' /\ OkMeansCommitted'
  BY DEF EntryShape, KnownJobs, DueIsRight, AppliedOnce, NeverEarly, OkMeansCommitted
<1> QED
  BY <1>1, <1>2, <1>3

(* Undoing a batch releases its rows and keeps the queue.                  *)
LEMMA RollbackBatchInv ==
  ASSUME IInv, NEW d \in Dispatchers, RollbackBatch(d)
  PROVE  IInv'
<1> USE DEF IInv, TypeOK, RollbackBatch, Unlocked, Fault, vars, database, dispatch, queue, handler
<1>1. TypeOK'
  BY DEF EntryShape
<1>2. LockDiscipline'
  BY DEF LockDiscipline, KnownJobs
<1>3. EntryShape' /\ KnownJobs' /\ DueIsRight' /\ AppliedOnce' /\ NeverEarly' /\ OkMeansCommitted'
  BY DEF EntryShape, KnownJobs, DueIsRight, AppliedOnce, NeverEarly, OkMeansCommitted
<1> QED
  BY <1>1, <1>2, <1>3

(* A request starts with a job the queue holds, hence a known one.         *)
LEMMA TakeJobInv ==
  ASSUME IInv, NEW j \in Jobs, NEW r \in Requests, TakeJob(j, r)
  PROVE  IInv'
<1> USE DEF IInv, TypeOK, TakeJob, vars, database, dispatch, queue, handler
<1>1. TypeOK'
  BY DEF EntryShape
<1>2. EntryShape'
  BY DEF EntryShape
<1>3. LockDiscipline'
  BY DEF LockDiscipline, KnownJobs
<1>4. KnownJobs'
  BY DEF KnownJobs, LockDiscipline, EntryShape
<1>5. DueIsRight'
  BY DEF DueIsRight, KnownJobs, LockDiscipline
<1>6. OkMeansCommitted'
  BY DEF OkMeansCommitted, KnownJobs, LockDiscipline
<1>7. AppliedOnce' /\ NeverEarly'
  BY DEF AppliedOnce, NeverEarly
<1> QED
  BY <1>1, <1>2, <1>3, <1>4, <1>5, <1>6, <1>7

(* The answer ends the attempt it was for.                                 *)
LEMMA DeliverInv ==
  ASSUME IInv, NEW j \in Jobs, NEW r \in Requests, Deliver(j, r)
  PROVE  IInv'
<1> USE DEF IInv, TypeOK, Deliver, AttemptSucceeds, AttemptFails, Close, vars, database, dispatch, queue, handler
<1>1. TypeOK'
  <2>1. at' \in [Requests -> {"idle", "sent", "begun", "locked", "replied"}]
    OBVIOUS
  <2>2. /\ about' \in [Requests -> Jobs \cup {Free}]
        /\ due' \in [Requests -> BOOLEAN] /\ ok' \in [Requests -> BOOLEAN]
    OBVIOUS
  <2>3. CASE ok[r]
    BY <2>1, <2>2, <2>3
  <2>4. CASE ~ok[r]
    <3>1. attempts[j] < MaxAttempts
      BY <2>4 DEF EntryShape
    <3>2. attempts' \in [Jobs -> 0..MaxAttempts]
      BY <2>4, <3>1, SizesAssumption
    <3>3. /\ entry' \in [Jobs -> {"none", "delayed", "active", "failed"}]
          /\ awaits' \in [Jobs -> Requests \cup {Free}]
      BY <2>4
    <3>4. delay' \in [Jobs -> Nat]
      BY <2>4, SizesAssumption
    <3> QED BY <2>1, <2>2, <2>4, <3>2, <3>3, <3>4
  <2> QED BY <2>3, <2>4
<1>2. EntryShape'
  BY DEF EntryShape
<1>3. LockDiscipline'
  BY DEF LockDiscipline, KnownJobs
<1>4. KnownJobs'
  BY DEF KnownJobs, LockDiscipline, EntryShape
<1>5. DueIsRight'
  BY DEF DueIsRight, KnownJobs, LockDiscipline
<1>6. OkMeansCommitted'
  BY DEF OkMeansCommitted, KnownJobs, LockDiscipline
<1>7. AppliedOnce' /\ NeverEarly'
  BY DEF AppliedOnce, NeverEarly
<1> QED
  BY <1>1, <1>2, <1>3, <1>4, <1>5, <1>6, <1>7

(* An answer nobody waits for changes nothing else.                        *)
LEMMA DiscardInv ==
  ASSUME IInv, NEW r \in Requests, Discard(r)
  PROVE  IInv'
<1> USE DEF IInv, TypeOK, Discard, Close, vars, database, dispatch, queue, handler
<1>1. TypeOK'
  BY DEF EntryShape
<1>2. LockDiscipline'
  BY DEF LockDiscipline, KnownJobs
<1>3. KnownJobs'
  BY DEF KnownJobs, LockDiscipline, EntryShape
<1>4. DueIsRight'
  BY DEF DueIsRight, KnownJobs, LockDiscipline
<1>5. OkMeansCommitted'
  BY DEF OkMeansCommitted, KnownJobs, LockDiscipline
<1>6. EntryShape' /\ AppliedOnce' /\ NeverEarly'
  BY DEF EntryShape, AppliedOnce, NeverEarly
<1> QED
  BY <1>1, <1>2, <1>3, <1>4, <1>5, <1>6

(* A timed-out attempt leaves the transaction alone.                       *)
LEMMA TimeoutInv ==
  ASSUME IInv, NEW j \in Jobs, Timeout(j)
  PROVE  IInv'
<1> USE DEF IInv, TypeOK, Timeout, AttemptFails, Fault, vars, database, dispatch, queue, handler
<1>1. TypeOK'
  BY DEF EntryShape
<1>2. EntryShape'
  BY DEF EntryShape
<1>3. KnownJobs'
  BY DEF KnownJobs, LockDiscipline, EntryShape
<1>4. LockDiscipline' /\ DueIsRight' /\ AppliedOnce' /\ NeverEarly' /\ OkMeansCommitted'
  BY DEF LockDiscipline, DueIsRight, AppliedOnce, NeverEarly, OkMeansCommitted
<1> QED
  BY <1>1, <1>2, <1>3, <1>4

(* A stalled entry awaits nothing and keeps its attempts.                  *)
LEMMA StallInv ==
  ASSUME IInv, NEW j \in Jobs, Stall(j)
  PROVE  IInv'
<1> USE DEF IInv, TypeOK, Stall, Fault, vars, database, dispatch, queue, handler
<1>1. TypeOK'
  <2>1. stalls' \in [Jobs -> 0..(MaxStalls + 1)]
    <3>1. stalls[j] <= MaxStalls
      BY DEF EntryShape
    <3> QED BY <3>1, SizesAssumption
  <2>2. entry' \in [Jobs -> {"none", "delayed", "active", "failed"}]
    OBVIOUS
  <2>3. awaits' \in [Jobs -> Requests \cup {Free}]
    OBVIOUS
  <2>4. faults' \in 0..MaxFaults
    BY SizesAssumption
  <2> QED BY <2>1, <2>2, <2>3, <2>4
<1>2. EntryShape'
  BY DEF EntryShape
<1>3. KnownJobs'
  BY DEF KnownJobs, LockDiscipline, EntryShape
<1>4. LockDiscipline' /\ DueIsRight' /\ AppliedOnce' /\ NeverEarly' /\ OkMeansCommitted'
  BY DEF LockDiscipline, DueIsRight, AppliedOnce, NeverEarly, OkMeansCommitted
<1> QED
  BY <1>1, <1>2, <1>3, <1>4

(* Losing an entry touches neither rows nor locks.                         *)
LEMMA LoseEntryInv ==
  ASSUME IInv, NEW j \in Jobs, LoseEntry(j)
  PROVE  IInv'
<1> USE DEF IInv, TypeOK, LoseEntry, Fault, vars, database, dispatch, queue, handler
<1>1. TypeOK'
  BY DEF EntryShape
<1>2. EntryShape'
  BY DEF EntryShape
<1>3. KnownJobs'
  BY DEF KnownJobs, LockDiscipline, EntryShape
<1>4. LockDiscipline' /\ DueIsRight' /\ AppliedOnce' /\ NeverEarly' /\ OkMeansCommitted'
  BY DEF LockDiscipline, DueIsRight, AppliedOnce, NeverEarly, OkMeansCommitted
<1> QED
  BY <1>1, <1>2, <1>3, <1>4

(* is_due is true only of a job whose run_at has come.                     *)
LEMMA BeginTxInv ==
  ASSUME IInv, NEW r \in Requests, BeginTx(r)
  PROVE  IInv'
<1> USE DEF IInv, TypeOK, BeginTx, vars, database, dispatch, queue, handler
<1>1. TypeOK'
  BY DEF EntryShape
<1>2. LockDiscipline'
  BY DEF LockDiscipline, KnownJobs
<1>3. KnownJobs'
  BY DEF KnownJobs, LockDiscipline, EntryShape
<1>4. DueIsRight'
  BY DEF DueIsRight, KnownJobs, LockDiscipline
<1>5. OkMeansCommitted'
  BY DEF OkMeansCommitted, KnownJobs, LockDiscipline
<1>6. EntryShape' /\ AppliedOnce' /\ NeverEarly'
  BY DEF EntryShape, AppliedOnce, NeverEarly
<1> QED
  BY <1>1, <1>2, <1>3, <1>4, <1>5, <1>6

(* A redelivered completed job is answered 204.                            *)
LEMMA AnswerCompletedInv ==
  ASSUME IInv, NEW r \in Requests, AnswerCompleted(r)
  PROVE  IInv'
<1> USE DEF IInv, TypeOK, AnswerCompleted, RowReached, Reply, vars, database, dispatch, queue, handler
<1>1. TypeOK'
  BY DEF EntryShape
<1>2. LockDiscipline'
  BY DEF LockDiscipline, KnownJobs
<1>3. KnownJobs'
  BY DEF KnownJobs, LockDiscipline, EntryShape
<1>4. DueIsRight'
  BY DEF DueIsRight, KnownJobs, LockDiscipline
<1>5. OkMeansCommitted'
  BY DEF OkMeansCommitted, KnownJobs, LockDiscipline
<1>6. EntryShape' /\ AppliedOnce' /\ NeverEarly'
  BY DEF EntryShape, AppliedOnce, NeverEarly
<1> QED
  BY <1>1, <1>2, <1>3, <1>4, <1>5, <1>6

(* A job that is early is refused.                                         *)
LEMMA AnswerNotDueInv ==
  ASSUME IInv, NEW r \in Requests, AnswerNotDue(r)
  PROVE  IInv'
<1> USE DEF IInv, TypeOK, AnswerNotDue, RowReached, Reply, vars, database, dispatch, queue, handler
<1>1. TypeOK'
  BY DEF EntryShape
<1>2. LockDiscipline'
  BY DEF LockDiscipline, KnownJobs
<1>3. KnownJobs'
  BY DEF KnownJobs, LockDiscipline, EntryShape
<1>4. DueIsRight'
  BY DEF DueIsRight, KnownJobs, LockDiscipline
<1>5. OkMeansCommitted'
  BY DEF OkMeansCommitted, KnownJobs, LockDiscipline
<1>6. EntryShape' /\ AppliedOnce' /\ NeverEarly'
  BY DEF EntryShape, AppliedOnce, NeverEarly
<1> QED
  BY <1>1, <1>2, <1>3, <1>4, <1>5, <1>6

(* The row lock goes to a request about a pending, due job.                *)
LEMMA RunJobInv ==
  ASSUME IInv, NEW r \in Requests, RunJob(r)
  PROVE  IInv'
<1> USE DEF IInv, TypeOK, RunJob, RowReached, vars, database, dispatch, queue, handler
<1>1. TypeOK'
  BY DEF EntryShape
<1>2. LockDiscipline'
  BY DEF LockDiscipline, KnownJobs
<1>3. KnownJobs'
  BY DEF KnownJobs, LockDiscipline, EntryShape
<1>4. DueIsRight'
  BY DEF DueIsRight, KnownJobs, LockDiscipline
<1>5. OkMeansCommitted'
  BY DEF OkMeansCommitted, KnownJobs, LockDiscipline
<1>6. EntryShape' /\ AppliedOnce' /\ NeverEarly'
  BY DEF EntryShape, AppliedOnce, NeverEarly
<1> QED
  BY <1>1, <1>2, <1>3, <1>4, <1>5, <1>6

(* The one step that applies a job.                                        *)
LEMMA CommitJobInv ==
  ASSUME IInv, NEW r \in Requests, CommitJob(r)
  PROVE  IInv'
<1> USE DEF IInv, TypeOK, CommitJob, Unlocked, Reply, vars, database, dispatch, queue, handler
<1>1. TypeOK'
  BY DEF KnownJobs
<1>2. LockDiscipline'
  BY DEF LockDiscipline, KnownJobs
<1>3. KnownJobs'
  BY DEF KnownJobs, LockDiscipline, EntryShape
<1>4. DueIsRight'
  BY DEF DueIsRight, KnownJobs, LockDiscipline
<1>5. AppliedOnce'
  BY DEF AppliedOnce, LockDiscipline, KnownJobs
<1>6. NeverEarly'
  BY DEF NeverEarly, DueIsRight, KnownJobs, LockDiscipline
<1>7. OkMeansCommitted'
  BY DEF OkMeansCommitted, KnownJobs, LockDiscipline
<1>8. EntryShape'
  BY DEF EntryShape
<1> QED
  BY <1>1, <1>2, <1>3, <1>4, <1>5, <1>6, <1>7, <1>8

(* An error releases the row and says so.                                  *)
LEMMA FailJobInv ==
  ASSUME IInv, NEW r \in Requests, FailJob(r)
  PROVE  IInv'
<1> USE DEF IInv, TypeOK, FailJob, Unlocked, Reply, Fault, vars, database, dispatch, queue, handler
<1>1. TypeOK'
  BY DEF EntryShape
<1>2. LockDiscipline'
  BY DEF LockDiscipline, KnownJobs
<1>3. KnownJobs'
  BY DEF KnownJobs, LockDiscipline, EntryShape
<1>4. DueIsRight'
  BY DEF DueIsRight, KnownJobs, LockDiscipline
<1>5. OkMeansCommitted'
  BY DEF OkMeansCommitted, KnownJobs, LockDiscipline
<1>6. EntryShape' /\ AppliedOnce' /\ NeverEarly'
  BY DEF EntryShape, AppliedOnce, NeverEarly
<1> QED
  BY <1>1, <1>2, <1>3, <1>4, <1>5, <1>6

(* A restart releases every row a request held.                            *)
LEMMA RestartApiInv ==
  ASSUME IInv, RestartApi
  PROVE  IInv'
<1> USE DEF IInv, TypeOK, RestartApi, Fault, vars, database, dispatch, queue, handler
<1>1. TypeOK'
  BY DEF EntryShape
<1>2. LockDiscipline'
  BY DEF LockDiscipline, KnownJobs
<1>3. KnownJobs'
  BY DEF KnownJobs, LockDiscipline, EntryShape
<1>4. DueIsRight'
  BY DEF DueIsRight, KnownJobs, LockDiscipline
<1>5. OkMeansCommitted'
  BY DEF OkMeansCommitted, KnownJobs, LockDiscipline
<1>6. EntryShape' /\ AppliedOnce' /\ NeverEarly'
  BY DEF EntryShape, AppliedOnce, NeverEarly
<1> QED
  BY <1>1, <1>2, <1>3, <1>4, <1>5, <1>6

(* Every step keeps the invariant.                                         *)
LEMMA NextInv == IInv /\ [Next]_vars => IInv'
<1> SUFFICES ASSUME IInv, [Next]_vars
             PROVE  IInv'
  OBVIOUS
<1>1. CASE \E j \in Jobs : Schedule(j)
  BY <1>1, ScheduleInv
<1>2. CASE Progress
  <2>1. CASE \E d \in Dispatchers : DispatcherStep(d)
    BY <2>1, SelectBatchInv, EnqueueInv, CommitBatchInv DEF DispatcherStep
  <2>2. CASE \E j \in Jobs : QueueStep(j)
    BY <2>2, TakeJobInv, DeliverInv DEF QueueStep
  <2>3. CASE \E r \in Requests : RowStep(r)
    BY <2>3, AnswerCompletedInv, AnswerNotDueInv, RunJobInv DEF RowStep
  <2> QED
    BY <1>2, <2>1, <2>2, <2>3, TickInv, BeginTxInv, CommitJobInv, DiscardInv
       DEF Progress
<1>3. CASE Failure
  BY <1>3, RollbackBatchInv, TimeoutInv, StallInv, LoseEntryInv, FailJobInv,
     RestartApiInv DEF Failure
<1>4. CASE UNCHANGED vars
  BY <1>4 DEF vars, database, dispatch, queue, handler, IInv, TypeOK,
     EntryShape, LockDiscipline, KnownJobs, DueIsRight, AppliedOnce,
     NeverEarly, OkMeansCommitted
<1> QED
  BY <1>1, <1>2, <1>3, <1>4 DEF Next

(* IInv holds in every reachable state.                                    *)
THEOREM Invariance == Spec => []IInv
  BY InitInv, NextInv, PTL DEF Spec

-----------------------------------------------------------------------------
(* Every variable keeps its type.                                          *)
THEOREM TypeCorrect == Spec => []TypeOK
  BY Invariance, PTL DEF IInv

(* However often a job is delivered, its effects are committed once, and   *)
(* completed_at says whether they were.                                    *)
THEOREM ExactlyOnce == Spec => []AppliedOnce
  BY Invariance, PTL DEF IInv

(* No job takes effect before its run_at, whatever the worker's clock.     *)
THEOREM OnTime == Spec => []NeverEarly
  BY Invariance, PTL DEF IInv

(* A 204 is only ever sent for a committed job.                            *)
THEOREM HonestAnswers == Spec => []OkMeansCommitted
  BY Invariance, PTL DEF IInv

(* SKIP LOCKED keeps any number of dispatchers on different rows.          *)
THEOREM NoSharedRows == Spec => []DispatchersApart
<1>1. IInv => DispatchersApart
  BY DEF IInv, LockDiscipline, TypeOK, DispatchersApart
<1> QED
  BY <1>1, Invariance, PTL

(* A completed job is never added to the queue again.                      *)
THEOREM StaysOut == Spec => NoResurrection
<1> DEFINE Stays == \A j \in Jobs : row[j] = "completed" /\ entry[j] = "none"
                                    => entry'[j] = "none"
<1>1. ASSUME IInv, [Next]_vars
      PROVE  Stays
  <2> SUFFICES ASSUME NEW k \in Jobs, row[k] = "completed", entry[k] = "none"
               PROVE  entry'[k] = "none"
    OBVIOUS
  <2> USE DEF vars, queue, handler
  <2>1. ASSUME NEW d \in Dispatchers, NEW j \in Jobs, Enqueue(d, j)
        PROVE  entry'[k] = "none"
    <3>1. j # k
      BY <1>1, <2>1, NamesAssumption
         DEF Enqueue, IInv, LockDiscipline, TypeOK
    <3> QED
      BY <1>1, <2>1, <3>1 DEF Enqueue, AddToQueue, IInv, TypeOK
  <2>2. CASE \E d \in Dispatchers : SelectBatch(d) \/ CommitBatch(d) \/ RollbackBatch(d)
    BY <2>2 DEF SelectBatch, CommitBatch, RollbackBatch
  <2>3. ASSUME NEW j \in Jobs, NEW r \in Requests, TakeJob(j, r) \/ Deliver(j, r)
        PROVE  entry'[k] = "none"
    <3>1. j # k
      BY <1>1, <2>3 DEF TakeJob, Deliver, IInv, TypeOK, EntryShape
    <3> QED
      BY <1>1, <2>3, <3>1
         DEF TakeJob, Deliver, AttemptSucceeds, AttemptFails, IInv, TypeOK
  <2>4. ASSUME NEW j \in Jobs, Timeout(j) \/ Stall(j) \/ LoseEntry(j)
        PROVE  entry'[k] = "none"
    BY <1>1, <2>4 DEF Timeout, Stall, LoseEntry, AttemptFails, IInv, TypeOK, EntryShape
  <2>5. CASE \E r \in Requests : \/ BeginTx(r) \/ RowStep(r) \/ CommitJob(r)
                                 \/ Discard(r) \/ FailJob(r)
    BY <2>5 DEF BeginTx, RowStep, AnswerCompleted, AnswerNotDue, RunJob,
       CommitJob, Discard, FailJob
  <2>6. CASE Tick \/ RestartApi \/ (\E j \in Jobs : Schedule(j)) \/ UNCHANGED vars
    BY <2>6 DEF Tick, RestartApi, Schedule
  <2> QED
    BY <1>1, <2>1, <2>2, <2>3, <2>4, <2>5, <2>6
       DEF Next, Progress, Failure, DispatcherStep, QueueStep
<1>2. Spec => [][Stays]_vars
  BY <1>1, Invariance, PTL DEF Spec
<1> QED
  BY <1>2 DEF NoResurrection

-----------------------------------------------------------------------------
(* Every step of the machinery is a step of the promise, or none of its    *)
(* business.                                                               *)
LEMMA StepSimulation ==
  ASSUME IInv, [Next]_vars
  PROVE  [Abstract!Next]_Abstract!vars
<1> USE DEF Abstract!Next, Abstract!vars, vars, database
<1>1. ASSUME NEW j \in Jobs, Schedule(j)
      PROVE  Abstract!Schedule(j)
  BY <1>1 DEF Schedule, Abstract!Schedule
<1>2. ASSUME Tick
      PROVE  Abstract!Elapse
  <2>1. ASSUME NEW j \in Jobs
        PROVE  Minus(left[j], 1) = IF left[j] = 0 THEN 0 ELSE left[j] - 1
    <3>1. left[j] \in Nat
      BY DEF IInv, TypeOK
    <3> QED
      BY <3>1 DEF Minus
  <2>2. left' = [j \in Jobs |-> IF left[j] = 0 THEN 0 ELSE left[j] - 1]
    BY <1>2, <2>1 DEF Tick
  <2> QED
    BY <1>2, <2>2 DEF Tick, Abstract!Elapse
<1>3. ASSUME NEW r \in Requests, CommitJob(r)
      PROVE  Abstract!Apply(about[r])
  BY <1>3 DEF CommitJob, Abstract!Apply, IInv, TypeOK, LockDiscipline,
     KnownJobs, DueIsRight
<1>4. ASSUME NEW r \in Requests, CommitJob(r)
      PROVE  about[r] \in Jobs
  BY <1>4 DEF CommitJob, IInv, KnownJobs
<1>5. CASE \E d \in Dispatchers : \/ SelectBatch(d) \/ CommitBatch(d) \/ RollbackBatch(d)
                                  \/ \E j \in Jobs : Enqueue(d, j)
  BY <1>5 DEF SelectBatch, CommitBatch, RollbackBatch, Enqueue
<1>6. CASE \E j \in Jobs : \/ Timeout(j) \/ Stall(j) \/ LoseEntry(j)
                           \/ \E r \in Requests : TakeJob(j, r) \/ Deliver(j, r)
  BY <1>6 DEF Timeout, Stall, LoseEntry, TakeJob, Deliver
<1>7. CASE \E r \in Requests : BeginTx(r) \/ RowStep(r) \/ Discard(r) \/ FailJob(r)
  BY <1>7 DEF BeginTx, RowStep, AnswerCompleted, AnswerNotDue, RunJob,
     Discard, FailJob
<1>8. CASE RestartApi \/ UNCHANGED vars
  BY <1>8 DEF RestartApi
<1> QED
  BY <1>1, <1>2, <1>3, <1>4, <1>5, <1>6, <1>7, <1>8
     DEF Next, Progress, Failure, DispatcherStep, QueueStep

(* The delivery machinery implements ScheduledEffects.                     *)
THEOREM Refinement == Spec => Implements
<1>1. Init => Abstract!Init
  BY DEF Init, Abstract!Init
<1> QED
  BY <1>1, StepSimulation, Invariance, PTL DEF Spec, Implements, Abstract!Spec
=============================================================================
