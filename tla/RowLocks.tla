------------------------------ MODULE RowLocks ------------------------------
(***************************************************************************)
(* The row locks behind Military's atomic steps: the transactions of the   *)
(* API statement by statement, as far as they lock rows of scheduled_jobs  *)
(* and villages, read what those locks protect, and write it at commit.    *)
(*                                                                         *)
(* A statement that needs a lock waits until nobody holds a conflicting    *)
(* one; there are two modes, FOR UPDATE and the FOR KEY SHARE that the     *)
(* check of a foreign key takes on the row it refers to.  PostgreSQL (not  *)
(* under src/) aborts a transaction of a cycle of waiting ones.  Every     *)
(* transaction uses one connection of the pool from BEGIN to its end.      *)
(***************************************************************************)
EXTENDS Naturals, Sequences, FiniteSets

CONSTANTS Villages,  \* UUIDs, in their order: positive numbers
          Commands,  \* the villages whose players give commands
          Sends,     \* pairs <<source, target>>: attacks players may send
          Jobs,      \* due jobs: records of JobKinds
          Txns,      \* requests in progress at once
          PoolSize   \* max_connections(10)

JobKinds == {"arrive", "return", "home"}

ASSUME LocksAssumption ==
  /\ Villages \subseteq Nat \ {0}
  /\ IsFiniteSet(Villages)
  /\ Commands \subseteq Villages
  /\ Sends \subseteq Villages \X Villages
  /\ \A p \in Sends : p[1] # p[2]
  /\ Jobs \subseteq [kind : JobKinds, from : Villages, to : Villages]
  /\ \A j \in Jobs : j.kind # "home" => j.from # j.to
  /\ PoolSize \in Nat \ {0}

Idle == [kind |-> "idle"]

(* "command" stands for every request about the player's own village only: *)
(* both bootstraps, start_upgrade, start_recruit, rename; "home" for the   *)
(* jobs about one village: building.upgrade.v1, army.recruit.complete.v1.  *)
Work == [kind : {"command"}, from : Commands] \cup Jobs
        \cup {[kind |-> "send", from |-> p[1], to |-> p[2]] : p \in Sends}

VARIABLES
  work,       \* what a transaction is about
  stage,      \* "idle", "queued" for a connection, or "open"
  pc,         \* the transaction's next statement
  fresh,      \* villages it has read and nobody has changed since
  completed   \* jobs with completed_at

vars == <<work, stage, pc, fresh, completed>>

Init ==
  /\ work = [t \in Txns |-> Idle]
  /\ stage = [t \in Txns |-> "idle"]
  /\ pc = [t \in Txns |-> 1]
  /\ fresh = [t \in Txns |-> {}]
  /\ completed = {}

-----------------------------------------------------------------------------
(* The statements of a transaction.                                        *)

Village(do, v) == [do |-> do, table |-> "villages", row |-> v]
JobRow(w)      == [do |-> "update", table |-> "scheduled_jobs", row |-> w]

Lower(v, w)  == IF v <= w THEN v ELSE w
Higher(v, w) == IF v <= w THEN w ELSE v

(* The village whose army and resources a job changes.                     *)
Changed(w) == IF w.kind = "arrive" THEN w.to ELSE w.from

(* Mutated form of BattlePlan: source first, whatever the UUIDs.           *)
BattlePlanUnsorted(w) ==
  <<JobRow(w), Village("update", w.from), Village("update", w.to),
    Village("read", Changed(w))>>

(* Mutated form of BattlePlan: locks the attacker's village only.          *)
BattlePlanOwn(w) == <<JobRow(w), Village("update", w.from), Village("read", Changed(w))>>

(* execute_job of an attack: both villages in the order of their UUIDs.    *)
(* The row of army_attacks or army_recruits that a job locks next belongs  *)
(* to that job alone, as does the job's own row.                           *)
BattlePlan(w) ==
  <<JobRow(w), Village("update", Lower(w.from, w.to)),
    Village("update", Higher(w.from, w.to)), Village("read", Changed(w))>>

(* A command locks its village, then reads what it will write.  bootstrap  *)
(* of military.rs, a command here, reads the soldiers at home in the       *)
(* locking statement itself, but writes only what settle reads after it;   *)
(* VillagePage is about what it shows.                                     *)
Plan(w) ==
  CASE w.kind = "command" -> <<Village("update", w.from), Village("read", w.from)>>
    [] w.kind = "send"    -> <<Village("update", w.from), Village("read", w.from),
                               Village("key", w.to)>>
    [] w.kind = "home"    -> <<JobRow(w), Village("update", w.from),
                               Village("read", w.from)>>
    [] w.kind \in {"arrive", "return"} -> BattlePlan(w)

Open(t) == stage[t] = "open"
Over(t) == pc[t] > Len(Plan(work[t]))
Now(t)  == Plan(work[t])[pc[t]]

(* Only two FOR KEY SHARE agree with each other.                           *)
Conflict(s, z) == /\ s.do # "read" /\ z.do # "read"
                  /\ "update" \in {s.do, z.do}
                  /\ s.table = z.table
                  /\ s.row = z.row

(* t cannot go on before u ends.                                           *)
Waits(t, u) ==
  /\ t # u /\ Open(t) /\ Open(u) /\ ~Over(t)
  /\ \E i \in 1..(pc[u] - 1) : Conflict(Now(t), Plan(work[u])[i])

Cycle(C) == C # {} /\ \A t \in C : \E u \in C : Waits(t, u)

-----------------------------------------------------------------------------
End(t) ==
  /\ work' = [work EXCEPT ![t] = Idle]
  /\ stage' = [stage EXCEPT ![t] = "idle"]
  /\ pc' = [pc EXCEPT ![t] = 1]

(* A request comes in and asks for a connection.                           *)
Request(t) ==
  /\ stage[t] = "idle"
  /\ \E w \in Work : work' = [work EXCEPT ![t] = w]
  /\ stage' = [stage EXCEPT ![t] = "queued"]
  /\ UNCHANGED <<pc, fresh, completed>>

Connected == {t \in Txns : Open(t)}

Begin(t) ==
  /\ stage[t] = "queued"
  /\ Cardinality(Connected) < PoolSize
  /\ stage' = [stage EXCEPT ![t] = "open"]
  /\ UNCHANGED <<work, pc, fresh, completed>>

(* acquire_timeout(5 s)                                                    *)
GiveUp(t) ==
  /\ stage[t] = "queued"
  /\ Cardinality(Connected) >= PoolSize
  /\ End(t)
  /\ UNCHANGED <<fresh, completed>>

(* A job whose row is locked and completed has nothing left to do.         *)
Redelivered(t) == work[t] \in completed /\ pc[t] = 2

(* Mutated form of Execute: every statement asks the pool for a connection *)
(* of its own.                                                             *)
ExecuteOnPool(t) ==
  /\ Open(t) /\ ~Over(t) /\ ~Redelivered(t)
  /\ \A u \in Txns : ~Waits(t, u)
  /\ Cardinality(Connected) < PoolSize
  /\ pc' = [pc EXCEPT ![t] = @ + 1]
  /\ fresh' = IF Now(t).do = "read"
                THEN [fresh EXCEPT ![t] = @ \cup {Now(t).row}] ELSE fresh
  /\ UNCHANGED <<work, stage, completed>>

Execute(t) ==
  /\ Open(t) /\ ~Over(t) /\ ~Redelivered(t)
  /\ \A u \in Txns : ~Waits(t, u)
  /\ pc' = [pc EXCEPT ![t] = @ + 1]
  /\ fresh' = IF Now(t).do = "read"
                THEN [fresh EXCEPT ![t] = @ \cup {Now(t).row}] ELSE fresh
  /\ UNCHANGED <<work, stage, completed>>

AnswerCompleted(t) ==
  /\ Open(t) /\ Redelivered(t)
  /\ End(t)
  /\ fresh' = [fresh EXCEPT ![t] = {}]
  /\ UNCHANGED completed

Commit(t) ==
  /\ Open(t) /\ Over(t)
  /\ End(t)
  /\ fresh' = [u \in Txns |-> IF u = t THEN {}
                              ELSE fresh[u] \ {Changed(work[t])}]
  /\ completed' = IF work[t] \in Jobs THEN completed \cup {work[t]} ELSE completed

Rollback(t) ==
  /\ End(t)
  /\ fresh' = [fresh EXCEPT ![t] = {}]
  /\ UNCHANGED completed

(* A statement fails, the caller goes away, the API stops.                 *)
Fail(t) == Open(t) /\ Rollback(t)

(* After deadlock_timeout a backend that waits in a cycle is aborted.      *)
Deadlocked(t) == \E C \in SUBSET Txns :
                   /\ t \in C /\ Cycle(C)
                   /\ \A D \in SUBSET C : D # C => ~Cycle(D)

Abort(t) == Deadlocked(t) /\ Rollback(t)

Run(t) == Execute(t) \/ AnswerCompleted(t) \/ Commit(t)

Next == \E t \in Txns : \/ Request(t) \/ Begin(t) \/ GiveUp(t)
                        \/ Run(t) \/ Fail(t) \/ Abort(t)

Spec == Init /\ [][Next]_vars

(* Waiters for a lock and for a connection are served in order, so nobody  *)
(* is passed over for ever; the deadlock detector runs.                    *)
FairSpec ==
  /\ Spec
  /\ \A t \in Txns : SF_vars(Run(t)) /\ SF_vars(Begin(t))
  /\ WF_vars(\E t \in Txns : Abort(t))

-----------------------------------------------------------------------------
TypeOK ==
  /\ work \in [Txns -> Work \cup {Idle}]
  /\ stage \in [Txns -> {"idle", "queued", "open"}]
  /\ pc \in [Txns -> 1..5]
  /\ fresh \in [Txns -> SUBSET Villages]
  /\ completed \subseteq Jobs
  /\ \A t \in Txns : stage[t] = "idle" <=> work[t] = Idle

(* What a transaction has read of a village is still so when it writes:    *)
(* resolve_combat's result and the looted stock are written as absolute    *)
(* values, and the comment on send_attack says that all spending of an     *)
(* army is protected by the lock of its village.                           *)
NoLostUpdate ==
  \A t \in Txns : Open(t) /\ Over(t) => Changed(work[t]) \in fresh[t]

(* The comment in execute_job: two villages are always locked in the order *)
(* of their UUIDs, and mutual attacks make no inverse lock order.          *)
NoWaitCycle == \A C \in SUBSET Txns : ~Cycle(C)

(* A send asks for its target's row while it holds its own village.        *)
Downhill(w) == w.kind = "send" /\ w.to < w.from

(* A circle of waiting contains an attack being sent to a village of       *)
(* smaller UUID: the jobs, and all other commands, keep to the order.      *)
CyclesGoDownhill ==
  \A C \in SUBSET Txns : Cycle(C) => \E t \in C : Downhill(work[t])

(* Every transaction ends and gives its connection and its locks back,     *)
(* deadlocks and a pool smaller than the crowd notwithstanding.            *)
EveryoneFinishes == \A t \in Txns : stage[t] # "idle" ~> stage[t] = "idle"
=============================================================================
