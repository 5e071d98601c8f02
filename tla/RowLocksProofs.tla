--------------------------- MODULE RowLocksProofs ---------------------------
(***************************************************************************)
(* Proofs about RowLocks, for any number of villages, requests, jobs and   *)
(* connections: no write is based on a stale read, and a circle of waiting *)
(* transactions contains an attack being sent to a village of smaller      *)
(* UUID.  The inductive invariant is that no two transactions hold         *)
(* conflicting locks.                                                      *)
(***************************************************************************)
EXTENDS RowLocks, FiniteSetTheorems, WellFoundedInduction, TLAPS

(* Only an open transaction has executed statements, and only its plan's.  *)
ProperPlace ==
  \A t \in Txns : /\ ~Open(t) => pc[t] = 1
                  /\ Open(t) => pc[t] \in 1..(Len(Plan(work[t])) + 1)

(* No two transactions hold conflicting locks.                             *)
LocksExclusive ==
  \A t, u \in Txns : t # u /\ Open(t) /\ Open(u) =>
    \A i \in 1..(pc[t] - 1), k \in 1..(pc[u] - 1) :
      ~Conflict(Plan(work[t])[i], Plan(work[u])[k])

(* What a transaction has read is still so.                                *)
ReadsFresh ==
  \A t \in Txns : Open(t) =>
    \A i \in 1..(pc[t] - 1) :
      Plan(work[t])[i].do = "read" => Plan(work[t])[i].row \in fresh[t]

IInv == TypeOK /\ ProperPlace /\ LocksExclusive /\ ReadsFresh

(* The order of the rows: jobs first, then villages by their UUIDs.        *)
Rank(s) == IF s.table = "villages" THEN s.row ELSE 0

(* Who is waited for, and waits for a lock itself, waits for a later row,  *)
(* unless it sends an attack downhill.                                     *)
WaitsClimb ==
  \A t, u, v \in Txns :
    Waits(t, u) /\ Waits(u, v) /\ ~Downhill(work[u])
      => Rank(Now(t)) < Rank(Now(u))

-----------------------------------------------------------------------------
(* What plans look like.                                                   *)

(* The plan of each kind of transaction, spelt out.                        *)
LEMMA PlanOf ==
  ASSUME NEW w \in Work
  PROVE  /\ w.from \in Villages
         /\ \/ /\ w.kind = "command"
               /\ Plan(w) = <<Village("update", w.from), Village("read", w.from)>>
            \/ /\ w.kind = "send"
               /\ w.to \in Villages /\ w.from # w.to
               /\ Plan(w) = <<Village("update", w.from), Village("read", w.from),
                              Village("key", w.to)>>
            \/ /\ w.kind = "home"
               /\ Plan(w) = <<JobRow(w), Village("update", w.from),
                              Village("read", w.from)>>
            \/ /\ w.kind \in {"arrive", "return"}
               /\ w.to \in Villages /\ w.from # w.to
               /\ Plan(w) = <<JobRow(w), Village("update", Lower(w.from, w.to)),
                              Village("update", Higher(w.from, w.to)),
                              Village("read", Changed(w))>>
<1>1. CASE w \in [kind : {"command"}, from : Commands]
  BY <1>1, LocksAssumption DEF Plan
<1>2. CASE w \in Jobs
  BY <1>2, LocksAssumption DEF Plan, BattlePlan, JobKinds
<1>3. CASE w \in {[kind |-> "send", from |-> p[1], to |-> p[2]] : p \in Sends}
  BY <1>3, LocksAssumption DEF Plan
<1> QED BY <1>1, <1>2, <1>3 DEF Work

(* Rows are read after they have been locked for update, and the row that  *)
(* the transaction will change is among them.                              *)
LEMMA PlanReads ==
  ASSUME NEW w \in Work
  PROVE  /\ Len(Plan(w)) \in 1..4
         /\ \A i \in 1..Len(Plan(w)) : Plan(w)[i].do = "read" =>
              /\ Plan(w)[i].row \in Villages
              /\ \E k \in 1..(i - 1) :
                   Plan(w)[k] = Village("update", Plan(w)[i].row)
         /\ \E i \in 1..Len(Plan(w)) :
              Plan(w)[i] = Village("read", Changed(w))
<1>1. CASE w.kind = "command"
  BY <1>1, PlanOf DEF Changed, Village, JobRow
<1>2. CASE w.kind = "send"
  BY <1>2, PlanOf DEF Changed, Village, JobRow
<1>3. CASE w.kind = "home"
  BY <1>3, PlanOf DEF Changed, Village, JobRow
<1>4. CASE w.kind \in {"arrive", "return"}
  <2>1. /\ Plan(w) = <<JobRow(w), Village("update", Lower(w.from, w.to)),
                       Village("update", Higher(w.from, w.to)),
                       Village("read", Changed(w))>>
        /\ w.from \in Villages /\ w.to \in Villages
    BY <1>4, PlanOf
  <2>2. Changed(w) \in {Lower(w.from, w.to), Higher(w.from, w.to)}
    BY <2>1 DEF Changed, Lower, Higher
  <2> QED BY <2>1, <2>2 DEF Village, JobRow, Changed
<1> QED BY <1>1, <1>2, <1>3, <1>4, PlanOf

(* Except for a send downhill, every lock is later in the order than those *)
(* before it.                                                              *)
LEMMA PlanClimbs ==
  ASSUME NEW w \in Work, ~Downhill(w),
         NEW i \in 1..Len(Plan(w)), NEW k \in 1..Len(Plan(w)), i < k,
         Plan(w)[i].do # "read", Plan(w)[k].do # "read"
  PROVE  Rank(Plan(w)[i]) < Rank(Plan(w)[k])
<1>1. CASE w.kind = "command"
  BY <1>1, PlanOf DEF Village
<1>2. CASE w.kind = "send"
  <2>1. /\ Plan(w) = <<Village("update", w.from), Village("read", w.from),
                       Village("key", w.to)>>
        /\ w.from \in Nat /\ w.to \in Nat /\ w.from # w.to
    BY <1>2, PlanOf, LocksAssumption
  <2>2. i = 1 /\ k = 3
    BY <2>1 DEF Village
  <2>3. Plan(w)[i] = Village("update", w.from) /\ Plan(w)[k] = Village("key", w.to)
    BY <2>1, <2>2
  <2>4. Rank(Plan(w)[i]) = w.from /\ Rank(Plan(w)[k]) = w.to
    BY <2>3 DEF Village, Rank
  <2>5. w.from < w.to
    BY <1>2, <2>1 DEF Downhill
  <2> QED BY <2>4, <2>5
<1>3. CASE w.kind = "home"
  <2>1. /\ Plan(w) = <<JobRow(w), Village("update", w.from), Village("read", w.from)>>
        /\ w.from \in Nat \ {0}
    BY <1>3, PlanOf, LocksAssumption
  <2>2. i = 1 /\ k = 2
    BY <2>1 DEF Village
  <2>3. Plan(w)[i] = JobRow(w) /\ Plan(w)[k] = Village("update", w.from)
    BY <2>1, <2>2
  <2>4. Rank(Plan(w)[i]) = 0 /\ Rank(Plan(w)[k]) = w.from
    BY <2>3 DEF Village, JobRow, Rank
  <2> QED BY <2>1, <2>4
<1>4. CASE w.kind \in {"arrive", "return"}
  <2> DEFINE low == Lower(w.from, w.to)
             high == Higher(w.from, w.to)
  <2>1. /\ Plan(w) = <<JobRow(w), Village("update", low), Village("update", high),
                       Village("read", Changed(w))>>
        /\ w.from \in Nat \ {0} /\ w.to \in Nat \ {0} /\ w.from # w.to
    BY <1>4, PlanOf, LocksAssumption
  <2>2. low \in Nat \ {0} /\ high \in Nat \ {0} /\ low < high
    BY <2>1 DEF Lower, Higher
  <2>3. i \in 1..3 /\ k \in 1..3
    BY <2>1 DEF Village
  <2>4. Rank(JobRow(w)) = 0 /\ Rank(Village("update", low)) = low
        /\ Rank(Village("update", high)) = high
    BY DEF Village, JobRow, Rank
  <2> HIDE DEF low, high
  <2>5. CASE i = 1 /\ k = 2
    BY <2>1, <2>2, <2>4, <2>5
  <2>6. CASE i = 1 /\ k = 3
    BY <2>1, <2>2, <2>4, <2>6
  <2>7. CASE i = 2 /\ k = 3
    BY <2>1, <2>2, <2>4, <2>7
  <2> QED BY <2>3, <2>5, <2>6, <2>7
<1> QED BY <1>1, <1>2, <1>3, <1>4, PlanOf

(* The order of rows is a finite set of numbers.                           *)
LEMMA RankInOrder ==
  ASSUME NEW w \in Work, NEW i \in 1..Len(Plan(w))
  PROVE  Rank(Plan(w)[i]) \in Villages \cup {0}
<1>1. CASE w.kind = "command"
  BY <1>1, PlanOf DEF Village, Rank
<1>2. CASE w.kind = "send"
  BY <1>2, PlanOf DEF Village, Rank
<1>3. CASE w.kind = "home"
  BY <1>3, PlanOf DEF Village, JobRow, Rank
<1>4. CASE w.kind \in {"arrive", "return"}
  BY <1>4, PlanOf DEF Village, JobRow, Rank, Lower, Higher, Changed
<1> QED BY <1>1, <1>2, <1>3, <1>4, PlanOf
-----------------------------------------------------------------------------
(* The invariant.                                                          *)

LEMMA ConflictSymmetric ==
  ASSUME NEW s, NEW z PROVE Conflict(s, z) <=> Conflict(z, s)
BY DEF Conflict

LEMMA InitInv == Init => IInv
BY DEF Init, IInv, TypeOK, ProperPlace, LocksExclusive, ReadsFresh, Open, Work

(* What an open transaction is about.                                      *)
LEMMA OpenWork ==
  ASSUME TypeOK, NEW t \in Txns, Open(t) PROVE work[t] \in Work
BY DEF TypeOK, Open

LEMMA RequestInv ==
  ASSUME IInv, NEW t \in Txns, Request(t) PROVE IInv'
<1>1. PICK w \in Work : work' = [work EXCEPT ![t] = w]
  BY DEF Request
<1>2. /\ stage' = [stage EXCEPT ![t] = "queued"]
      /\ UNCHANGED <<pc, fresh, completed>>
      /\ stage[t] = "idle"
  BY DEF Request
<1>3. w # Idle
  BY PlanOf DEF Idle
<1>4. TypeOK'
  BY <1>1, <1>2, <1>3 DEF IInv, TypeOK
<1>5. \A u \in Txns : Open(u)' => u # t /\ Open(u) /\ work'[u] = work[u]
  BY <1>1, <1>2 DEF IInv, TypeOK, Open
<1>6. ProperPlace'
  BY <1>1, <1>2, <1>5 DEF IInv, TypeOK, ProperPlace, Open
<1>7. LocksExclusive'
  BY <1>2, <1>5 DEF IInv, LocksExclusive
<1>8. ReadsFresh'
  BY <1>2, <1>5 DEF IInv, ReadsFresh
<1> QED BY <1>4, <1>6, <1>7, <1>8 DEF IInv

LEMMA BeginInv ==
  ASSUME IInv, NEW t \in Txns, Begin(t) PROVE IInv'
<1>1. /\ stage' = [stage EXCEPT ![t] = "open"]
      /\ UNCHANGED <<work, pc, fresh, completed>>
      /\ stage[t] = "queued"
  BY DEF Begin
<1>2. TypeOK'
  BY <1>1 DEF IInv, TypeOK
<1>3. pc[t] = 1 /\ \A u \in Txns : u # t => (Open(u)' <=> Open(u))
  BY <1>1 DEF IInv, TypeOK, Open, ProperPlace
<1>4. Len(Plan(work[t])) \in Nat
  BY <1>1, PlanReads DEF IInv, TypeOK
<1>5. ProperPlace'
  BY <1>1, <1>3, <1>4 DEF IInv, TypeOK, ProperPlace, Open
<1>6. LocksExclusive'
  BY <1>1, <1>3 DEF IInv, LocksExclusive
<1>7. ReadsFresh'
  BY <1>1, <1>3 DEF IInv, ReadsFresh
<1> QED BY <1>2, <1>5, <1>6, <1>7 DEF IInv

(* A transaction that ends without a commit.                               *)
LEMMA EndInv ==
  ASSUME IInv, NEW t \in Txns, End(t),
         \A u \in Txns : u # t => fresh'[u] = fresh[u],
         fresh' \in [Txns -> SUBSET Villages],
         completed' = completed
  PROVE  IInv'
<1>1. TypeOK'
  <2>1. /\ work' \in [Txns -> Work \cup {Idle}]
        /\ stage' \in [Txns -> {"idle", "queued", "open"}]
        /\ pc' \in [Txns -> 1..5]
        /\ completed' \subseteq Jobs
    BY DEF IInv, TypeOK, End
  <2>2. \A u \in Txns : stage'[u] = "idle" <=> work'[u] = Idle
    BY DEF IInv, TypeOK, End
  <2> QED BY <2>1, <2>2 DEF TypeOK
<1>2. \A u \in Txns : Open(u)' => /\ u # t /\ Open(u)
                                  /\ work'[u] = work[u] /\ pc'[u] = pc[u]
                                  /\ fresh'[u] = fresh[u]
  BY DEF IInv, TypeOK, Open, End
<1>3. ProperPlace'
  BY <1>2 DEF IInv, TypeOK, ProperPlace, Open, End
<1>4. LocksExclusive'
  BY <1>2 DEF IInv, LocksExclusive
<1>5. ReadsFresh'
  BY <1>2 DEF IInv, ReadsFresh
<1> QED BY <1>1, <1>3, <1>4, <1>5 DEF IInv

LEMMA GiveUpInv ==
  ASSUME IInv, NEW t \in Txns, GiveUp(t) PROVE IInv'
BY EndInv DEF GiveUp, IInv, TypeOK

LEMMA RollbackInv ==
  ASSUME IInv, NEW t \in Txns, Rollback(t) PROVE IInv'
BY EndInv DEF Rollback, IInv, TypeOK

LEMMA AnswerCompletedInv ==
  ASSUME IInv, NEW t \in Txns, AnswerCompleted(t) PROVE IInv'
BY EndInv DEF AnswerCompleted, IInv, TypeOK

(* A statement is executed when it conflicts with no lock held.            *)
LEMMA ExecuteInv ==
  ASSUME IInv, NEW t \in Txns, Execute(t) PROVE IInv'
<1> DEFINE n == pc[t]
           w == work[t]
<1>1. /\ Open(t) /\ ~Over(t) /\ \A u \in Txns : ~Waits(t, u)
      /\ pc' = [pc EXCEPT ![t] = n + 1]
      /\ UNCHANGED <<work, stage, completed>>
      /\ fresh' = IF Now(t).do = "read"
                    THEN [fresh EXCEPT ![t] = @ \cup {Now(t).row}] ELSE fresh
  BY DEF Execute
<1>2. w \in Work /\ Len(Plan(w)) \in 1..4 /\ n \in 1..Len(Plan(w))
  BY <1>1, OpenWork, PlanReads DEF IInv, ProperPlace, Over
<1>3. Now(t) = Plan(w)[n]
  BY DEF Now
<1>4. Now(t).do = "read" => Now(t).row \in Villages
  BY <1>2, <1>3, PlanReads
<1>5. /\ fresh' \in [Txns -> SUBSET Villages]
      /\ \A u \in Txns : fresh[u] \subseteq fresh'[u]
      /\ Now(t).do = "read" => Now(t).row \in fresh'[t]
  BY <1>1, <1>4 DEF IInv, TypeOK
<1>6. TypeOK'
  <2>1. pc' \in [Txns -> 1..5]
    <3>1. \A l \in 1..4 : \A m \in 1..l : m + 1 \in 1..5
      OBVIOUS
    <3>2. n + 1 \in 1..5
      BY <1>2, <3>1
    <3> QED BY <1>1, <3>2 DEF IInv, TypeOK
  <2> QED BY <1>1, <1>5, <2>1 DEF IInv, TypeOK
<1>7. \A u \in Txns : /\ stage'[u] = stage[u]
                      /\ work'[u] = work[u]
                      /\ u # t => pc'[u] = pc[u]
                      /\ u = t => pc'[u] = n + 1
                      /\ pc[u] \in 1..5
  BY <1>1 DEF IInv, TypeOK
<1>8. ProperPlace'
  <2> SUFFICES ASSUME NEW u \in Txns
               PROVE  /\ stage'[u] # "open" => pc'[u] = 1
                      /\ stage'[u] = "open" => pc'[u] \in 1..(Len(Plan(work'[u])) + 1)
    BY DEF ProperPlace, Open
  <2>1. CASE u = t
    BY <2>1, <1>1, <1>2, <1>7 DEF Open
  <2>2. CASE u # t
    BY <2>2, <1>7 DEF IInv, ProperPlace, Open
  <2> QED BY <2>1, <2>2
<1>9. \A u \in Txns : u # t /\ Open(u) =>
        \A k \in 1..(pc[u] - 1) : ~Conflict(Plan(w)[n], Plan(work[u])[k])
  BY <1>1, <1>3 DEF Waits
<1>10. LocksExclusive'
  <2> SUFFICES ASSUME NEW u \in Txns, NEW v \in Txns, u # v, Open(u)', Open(v)',
                      NEW i \in 1..(pc'[u] - 1), NEW k \in 1..(pc'[v] - 1)
               PROVE  ~Conflict(Plan(work'[u])[i], Plan(work'[v])[k])
    BY DEF LocksExclusive
  <2>1. Open(u) /\ Open(v) /\ work'[u] = work[u] /\ work'[v] = work[v]
    BY <1>7 DEF Open
  <2>2. CASE u = t /\ i = n
    <3>1. pc'[v] = pc[v]
      BY <2>2, <1>7
    <3> QED BY <2>1, <2>2, <3>1, <1>9
  <2>3. CASE v = t /\ k = n
    <3>1. pc'[u] = pc[u]
      BY <2>3, <1>7
    <3>2. ~Conflict(Plan(work[t])[n], Plan(work[u])[i])
      BY <2>1, <2>3, <3>1, <1>9
    <3> QED BY <2>1, <2>3, <3>2, ConflictSymmetric
  <2>4. CASE ~(u = t /\ i = n) /\ ~(v = t /\ k = n)
    <3>1. i \in 1..(pc[u] - 1)
      BY <2>4, <1>7
    <3>2. k \in 1..(pc[v] - 1)
      BY <2>4, <1>7
    <3> QED BY <2>1, <3>1, <3>2 DEF IInv, LocksExclusive
  <2> QED BY <2>2, <2>3, <2>4
<1>11. ReadsFresh'
  <2> SUFFICES ASSUME NEW u \in Txns, Open(u)', NEW i \in 1..(pc'[u] - 1),
                      Plan(work'[u])[i].do = "read"
               PROVE  Plan(work'[u])[i].row \in fresh'[u]
    BY DEF ReadsFresh
  <2>1. Open(u) /\ work'[u] = work[u]
    BY <1>7 DEF Open
  <2>2. CASE u = t /\ i = n
    BY <2>1, <2>2, <1>3, <1>5
  <2>3. CASE ~(u = t /\ i = n)
    <3>1. i \in 1..(pc[u] - 1)
      BY <2>3, <1>7
    <3>2. Plan(work[u])[i].row \in fresh[u]
      BY <2>1, <3>1 DEF IInv, ReadsFresh
    <3> QED BY <2>1, <3>2, <1>5
  <2> QED BY <2>2, <2>3
<1> QED BY <1>6, <1>8, <1>10, <1>11 DEF IInv

(* Who commits has the changed village locked, so nobody else has read it. *)
LEMMA CommitInv ==
  ASSUME IInv, NEW t \in Txns, Commit(t) PROVE IInv'
<1> DEFINE w == work[t]
<1>1. /\ Open(t) /\ Over(t) /\ End(t)
      /\ fresh' = [u \in Txns |-> IF u = t THEN {} ELSE fresh[u] \ {Changed(w)}]
      /\ completed' = IF w \in Jobs THEN completed \cup {w} ELSE completed
  BY DEF Commit
<1>2. TypeOK'
  BY <1>1 DEF IInv, TypeOK, End
<1>3. \A u \in Txns : Open(u)' => /\ u # t /\ Open(u)
                                  /\ work'[u] = work[u] /\ pc'[u] = pc[u]
                                  /\ fresh'[u] = fresh[u] \ {Changed(w)}
  BY <1>1 DEF IInv, TypeOK, Open, End
<1>4. ProperPlace'
  BY <1>1, <1>3 DEF IInv, TypeOK, ProperPlace, Open, End
<1>5. LocksExclusive'
  BY <1>3 DEF IInv, LocksExclusive
<1>6. w \in Work
  BY <1>1, OpenWork DEF IInv
<1>7. PICK k \in 1..(pc[t] - 1) : Plan(w)[k] = Village("update", Changed(w))
  <2>1. PICK i \in 1..Len(Plan(w)) : Plan(w)[i] = Village("read", Changed(w))
    BY <1>6, PlanReads
  <2>2. PICK k \in 1..(i - 1) : Plan(w)[k] = Village("update", Plan(w)[i].row)
    BY <1>6, <2>1, PlanReads DEF Village
  <2>3. k \in 1..(pc[t] - 1)
    BY <1>1, <1>6, <2>1, <2>2, PlanReads DEF Over, IInv, TypeOK
  <2> QED BY <2>1, <2>2, <2>3 DEF Village
<1>8. ReadsFresh'
  <2> SUFFICES ASSUME NEW u \in Txns, Open(u)', NEW i \in 1..(pc'[u] - 1),
                      Plan(work'[u])[i].do = "read"
               PROVE  Plan(work'[u])[i].row \in fresh'[u]
    BY DEF ReadsFresh
  <2> DEFINE s == Plan(work[u])[i]
  <2>1. /\ u # t /\ Open(u) /\ work'[u] = work[u] /\ pc'[u] = pc[u]
        /\ fresh'[u] = fresh[u] \ {Changed(w)}
    BY <1>3
  <2>2. s.row \in fresh[u] /\ s.do = "read"
    BY <2>1 DEF IInv, ReadsFresh
  <2>3. work[u] \in Work /\ i \in 1..Len(Plan(work[u]))
    BY <2>1, OpenWork, PlanReads DEF IInv, ProperPlace
  <2>4. PICK m \in 1..(i - 1) : Plan(work[u])[m] = Village("update", s.row)
    BY <2>2, <2>3, PlanReads
  <2>5. m \in 1..(pc[u] - 1)
    BY <2>1, <2>4 DEF IInv, TypeOK
  <2>6. ~Conflict(Plan(w)[k], Plan(work[u])[m])
    BY <1>1, <1>7, <2>1, <2>5 DEF IInv, LocksExclusive
  <2>7. s.row # Changed(w)
    BY <1>7, <2>4, <2>6 DEF Conflict, Village
  <2> QED BY <2>1, <2>2, <2>7
<1> QED BY <1>2, <1>4, <1>5, <1>8 DEF IInv

LEMMA NextInv == IInv /\ [Next]_vars => IInv'
<1> SUFFICES ASSUME IInv, [Next]_vars PROVE IInv'
  OBVIOUS
<1>1. ASSUME NEW t \in Txns, Request(t) PROVE IInv'
  BY <1>1, RequestInv
<1>2. ASSUME NEW t \in Txns, Begin(t) PROVE IInv'
  BY <1>2, BeginInv
<1>3. ASSUME NEW t \in Txns, GiveUp(t) PROVE IInv'
  BY <1>3, GiveUpInv
<1>4. ASSUME NEW t \in Txns, Execute(t) PROVE IInv'
  BY <1>4, ExecuteInv
<1>5. ASSUME NEW t \in Txns, AnswerCompleted(t) PROVE IInv'
  BY <1>5, AnswerCompletedInv
<1>6. ASSUME NEW t \in Txns, Commit(t) PROVE IInv'
  BY <1>6, CommitInv
<1>7. ASSUME NEW t \in Txns, Fail(t) \/ Abort(t) PROVE IInv'
  BY <1>7, RollbackInv DEF Fail, Abort
<1>8. CASE UNCHANGED vars
  BY <1>8 DEF vars, IInv, TypeOK, ProperPlace, LocksExclusive, ReadsFresh, Open
<1> QED BY <1>1, <1>2, <1>3, <1>4, <1>5, <1>6, <1>7, <1>8 DEF Next, Run

(* The invariant holds in every reachable state.                           *)
THEOREM Invariance == Spec => []IInv
BY InitInv, NextInv, PTL DEF Spec

-----------------------------------------------------------------------------
(* Every variable keeps its type.                                          *)
THEOREM TypeCorrect == Spec => []TypeOK
BY Invariance, PTL DEF IInv

LEMMA WritesAreCurrent == IInv => NoLostUpdate
<1> SUFFICES ASSUME IInv, NEW t \in Txns, Open(t), Over(t)
             PROVE  Changed(work[t]) \in fresh[t]
  BY DEF NoLostUpdate
<1>1. work[t] \in Work
  BY OpenWork DEF IInv
<1>2. PICK i \in 1..Len(Plan(work[t])) :
        Plan(work[t])[i] = Village("read", Changed(work[t]))
  BY <1>1, PlanReads
<1>3. i \in 1..(pc[t] - 1)
  BY <1>1, <1>2, PlanReads DEF Over, IInv, TypeOK
<1> QED BY <1>2, <1>3 DEF IInv, ReadsFresh, Village

(* Whatever a transaction writes at its commit is based on reads that      *)
(* still hold: combat results and loot are never written over the changes  *)
(* of another transaction.                                                 *)
THEOREM NoStaleWrites == Spec => []NoLostUpdate
BY Invariance, WritesAreCurrent, PTL

LEMMA ClimbsInv == IInv => WaitsClimb
<1> SUFFICES ASSUME IInv, NEW t \in Txns, NEW u \in Txns, NEW v \in Txns,
                    Waits(t, u), Waits(u, v), ~Downhill(work[u])
             PROVE  Rank(Now(t)) < Rank(Now(u))
  BY DEF WaitsClimb
<1> DEFINE w == work[u]
<1>1. PICK i \in 1..(pc[u] - 1) : Conflict(Now(t), Plan(w)[i])
  BY DEF Waits
<1>2. Open(u) /\ w \in Work /\ pc[u] \in 1..Len(Plan(w)) /\ Len(Plan(w)) \in Nat
  BY OpenWork, PlanReads DEF Waits, IInv, ProperPlace, Over
<1>3. i \in 1..Len(Plan(w)) /\ i < pc[u]
  BY <1>1, <1>2
<1>4. Now(u) = Plan(w)[pc[u]] /\ Now(u).do # "read"
  BY DEF Now, Waits, Conflict
<1>5. Plan(w)[i].do # "read" /\ Rank(Now(t)) = Rank(Plan(w)[i])
  BY <1>1 DEF Conflict, Rank
<1>6. Rank(Plan(w)[i]) < Rank(Plan(w)[pc[u]])
  BY <1>2, <1>3, <1>4, <1>5, PlanClimbs
<1> QED BY <1>4, <1>5, <1>6

(* Waiting climbs the order of the rows in every reachable state.          *)
THEOREM Climbing == Spec => []WaitsClimb
BY Invariance, ClimbsInv, PTL

-----------------------------------------------------------------------------
(* Hence there is no circle: a finite set of numbers has a maximum.        *)

LEMMA FiniteHasMax ==
  ASSUME NEW S, S \subseteq Nat, IsFiniteSet(S), S # {}
  PROVE  \E m \in S : \A n \in S : n <= m
<1> DEFINE Above(x) == {y \in S : x < y}
           T == {Above(x) : x \in S}
<1>1. T # {} /\ T \subseteq FiniteSubsetsOf(S)
  <2>1. FiniteSubsetsOf(S) = SUBSET S
    BY FS_FiniteSubsetsOfFinite
  <2>2. \A x \in S : Above(x) \in SUBSET S
    OBVIOUS
  <2>3. T \subseteq SUBSET S
    BY <2>2
  <2>4. T # {}
    OBVIOUS
  <2> QED BY <2>1, <2>3, <2>4
<1>2. IsWellFoundedOn(StrictSubsetOrdering(S), FiniteSubsetsOf(S))
  BY FS_StrictSubsetOrderingWellFounded
<1>3. PICK A \in T : \A B \in T : <<B, A>> \notin StrictSubsetOrdering(S)
  <2> HIDE DEF T
  <2> QED BY <1>1, <1>2, WFMin
<1>4. PICK m \in S : A = Above(m)
  OBVIOUS
<1>5. ASSUME NEW n \in S, m < n PROVE FALSE
  <2>1. ASSUME NEW y \in S, n < y PROVE m < y
    BY <1>5, <2>1
  <2>2. n \in Above(m) /\ n \notin Above(n)
    BY <1>5
  <2>4. Above(n) \subseteq Above(m)
    BY <2>1
  <2>3. <<Above(n), Above(m)>> \in StrictSubsetOrdering(S)
    BY <2>2, <2>4 DEF StrictSubsetOrdering
  <2> QED BY <2>3, <1>3, <1>4
<1> QED BY <1>5

LEMMA CyclesInv == IInv => CyclesGoDownhill
<1> SUFFICES ASSUME IInv, NEW C \in SUBSET Txns, Cycle(C),
                    \A t \in C : ~Downhill(work[t])
             PROVE  FALSE
  BY DEF CyclesGoDownhill
<1> DEFINE R == {Rank(Now(t)) : t \in C}
<1>1. \A t \in C : Rank(Now(t)) \in Villages \cup {0}
  <2> SUFFICES ASSUME NEW t \in C PROVE Rank(Now(t)) \in Villages \cup {0}
    OBVIOUS
  <2>1. Open(t) /\ ~Over(t) /\ t \in Txns
    BY DEF Cycle, Waits
  <2>2. work[t] \in Work /\ pc[t] \in 1..Len(Plan(work[t]))
    BY <2>1, OpenWork, PlanReads DEF IInv, ProperPlace, Over
  <2> QED BY <2>2, RankInOrder DEF Now
<1>2. IsFiniteSet(Villages \cup {0})
  BY FS_AddElement, LocksAssumption
<1>3. R \subseteq Nat /\ IsFiniteSet(R) /\ R # {}
  <2>1. R \subseteq Villages \cup {0} /\ R # {}
    BY <1>1 DEF Cycle
  <2>2. Villages \cup {0} \subseteq Nat
    BY LocksAssumption
  <2>3. IsFiniteSet(R)
    BY <2>1, <1>2, FS_Subset
  <2> QED BY <2>1, <2>2, <2>3
<1>4. PICK t \in C : \A u \in C : Rank(Now(u)) <= Rank(Now(t))
  <2>1. PICK m \in R : \A n \in R : n <= m
    BY <1>3, FiniteHasMax
  <2> QED BY <2>1
<1>5. PICK u \in C : Waits(t, u)
  BY DEF Cycle
<1>6. PICK v \in C : Waits(u, v)
  BY DEF Cycle
<1>7. Rank(Now(t)) < Rank(Now(u))
  BY <1>5, <1>6, ClimbsInv DEF WaitsClimb
<1>8. \A x \in Villages \cup {0} : x \in Nat
  BY LocksAssumption
<1>9. Rank(Now(t)) \in Nat /\ Rank(Now(u)) \in Nat
  BY <1>1, <1>8
<1> QED BY <1>4, <1>7, <1>9

(* A deadlock needs an attack sent to a village of smaller UUID.           *)
THEOREM DeadlockNeedsSend == Spec => []CyclesGoDownhill
BY Invariance, CyclesInv, PTL

(* The comment in execute_job is right as long as every attack is sent to  *)
(* a village of larger UUID: then nobody ever waits in a circle.           *)
LEMMA UphillInv ==
  ASSUME IInv, \A p \in Sends : p[1] < p[2] PROVE NoWaitCycle
<1>1. ASSUME NEW w \in Work, Downhill(w) PROVE FALSE
  <2>1. PICK p \in Sends : w = [kind |-> "send", from |-> p[1], to |-> p[2]]
    BY <1>1, LocksAssumption DEF Downhill, Work, JobKinds
  <2>2. p[1] \in Nat /\ p[2] \in Nat /\ p[1] < p[2]
    BY LocksAssumption
  <2> QED BY <1>1, <2>1, <2>2 DEF Downhill
<1>2. ASSUME NEW C \in SUBSET Txns, Cycle(C) PROVE FALSE
  <2>1. PICK t \in C : Downhill(work[t])
    BY <1>2, CyclesInv DEF CyclesGoDownhill
  <2>2. work[t] \in Work
    BY <1>2, OpenWork DEF Cycle, Waits, IInv
  <2> QED BY <1>1, <2>1, <2>2
<1> QED BY <1>2 DEF NoWaitCycle

(* Without sends downhill there is no deadlock.                            *)
THEOREM OrderPreventsDeadlock ==
  ASSUME \A p \in Sends : p[1] < p[2]
  PROVE  Spec => []NoWaitCycle
<1>1. IInv => NoWaitCycle
  BY UphillInv
<1> QED BY <1>1, Invariance, PTL
=============================================================================
