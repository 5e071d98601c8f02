-------------------------- MODULE ScheduledEffects --------------------------
(***************************************************************************)
(* What the job subsystem promises to the game: a scheduled job takes      *)
(* effect once, never before its run_at, and, when nothing keeps failing,  *)
(* some time after it.  No queue, worker, lock or retry appears here.      *)
(***************************************************************************)
EXTENDS Naturals

CONSTANTS Jobs,       \* identifiers of scheduled jobs
          RunDelays   \* how far in the future a job may be scheduled

VARIABLES status,     \* "absent", "pending" or "completed"
          left,       \* time left until run_at
          applied     \* how many times the job took effect

vars == <<status, left, applied>>

Init == /\ status  = [j \in Jobs |-> "absent"]
        /\ left    = [j \in Jobs |-> 0]
        /\ applied = [j \in Jobs |-> 0]

Schedule(j) ==
  /\ status[j] = "absent"
  /\ status' = [status EXCEPT ![j] = "pending"]
  /\ \E d \in RunDelays : left' = [left EXCEPT ![j] = d]
  /\ UNCHANGED applied

Apply(j) ==
  /\ status[j] = "pending"
  /\ left[j] = 0
  /\ status' = [status EXCEPT ![j] = "completed"]
  /\ applied' = [applied EXCEPT ![j] = @ + 1]
  /\ UNCHANGED left

Elapse ==
  /\ left' = [j \in Jobs |-> IF left[j] = 0 THEN 0 ELSE left[j] - 1]
  /\ UNCHANGED <<status, applied>>

Next == Elapse \/ \E j \in Jobs : Schedule(j) \/ Apply(j)

Spec == Init /\ [][Next]_vars
=============================================================================
