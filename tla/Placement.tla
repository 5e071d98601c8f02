----------------------------- MODULE Placement -----------------------------
(***************************************************************************)
(* create_village (web/api.rs): a player's first village is put on the     *)
(* free place of the starting area that is nearest to the centre, under an *)
(* advisory lock; asked again, the request only adds what rows are         *)
(* missing.  One action per statement, READ COMMITTED: a statement sees    *)
(* what is committed when it starts.                                       *)
(***************************************************************************)
EXTENDS Integers

CONSTANTS Players,
          Tabs,         \* requests that may be in progress at once
          Grid,         \* places of the starting area, pairs of coordinates
          CentreX, CentreY,
          Nowhere,      \* no place
          NoTab,        \* nobody holds the lock
          OldVillages   \* where the migration put the villages of old

ASSUME PlacementAssumption ==
  /\ Grid \subseteq Int \X Int
  /\ CentreX \in Int /\ CentreY \in Int
  /\ Nowhere \notin Int \X Int /\ NoTab \notin Tabs
  /\ OldVillages \in [Players -> (Int \X Int) \cup {Nowhere}]
  /\ \A p, q \in Players :
       p # q /\ OldVillages[p] # Nowhere => OldVillages[p] # OldVillages[q]

VARIABLES
  villages,  \* villages: where each player's is
  rows,      \* its rows in village_buildings and village_armies: "none", as
             \* they are at the "start", or "played" with
  lock,      \* who holds pg_advisory_xact_lock
  at,        \* the next statement of a tab's request
  owner,     \* its player
  spot,      \* the position found for a new village
  answer     \* the last answer of a tab

vars == <<villages, rows, lock, at, owner, spot, answer>>

Init ==
  /\ villages = OldVillages
  /\ rows = [p \in Players |-> IF villages[p] = Nowhere THEN "none" ELSE "start"]
  /\ lock = NoTab
  /\ at = [t \in Tabs |-> "idle"]
  /\ owner \in [Tabs -> Players]
  /\ spot = [t \in Tabs |-> Nowhere]
  /\ answer = [t \in Tabs |-> "none"]

-----------------------------------------------------------------------------
Sq(x) == x * x

Distance2(a, b) == Sq(a[1] - b[1]) + Sq(a[2] - b[2])

(* Mutated form of Near: a village keeps only its own place free.          *)
NearOnTop(a, b) == Distance2(a, b) < 1

(* A place that a village keeps free.                                      *)
Near(a, b) == Distance2(a, b) < 16

Free == {g \in Grid : \A p \in Players :
                        villages[p] # Nowhere => ~Near(villages[p], g)}

FromCentre(g) == Distance2(g, <<CentreX, CentreY>>)

(* Mutated form of Precedes: row by row.                                   *)
PrecedesByRow(g, h) == g[2] < h[2] \/ (g[2] = h[2] /\ g[1] < h[1])

(* ORDER BY distance, y, x.                                                *)
Precedes(g, h) ==
  \/ FromCentre(g) < FromCentre(h)
  \/ FromCentre(g) = FromCentre(h) /\ g[2] < h[2]
  \/ FromCentre(g) = FromCentre(h) /\ g[2] = h[2] /\ g[1] < h[1]

-----------------------------------------------------------------------------
(* The end of a request and of its transaction, which held the lock or     *)
(* waited for it.                                                          *)
Answer(t, a) ==
  /\ at' = [at EXCEPT ![t] = "idle"]
  /\ answer' = [answer EXCEPT ![t] = a]
  /\ spot' = [spot EXCEPT ![t] = Nowhere]
  /\ lock' = IF lock = t THEN NoTab ELSE lock

Request(t, p) ==
  /\ at[t] = "idle"
  /\ at' = [at EXCEPT ![t] = "lock"]
  /\ owner' = [owner EXCEPT ![t] = p]
  /\ answer' = [answer EXCEPT ![t] = "none"]
  /\ UNCHANGED <<villages, rows, lock, spot>>

(* Mutated form of Lock: nobody waits.                                     *)
LockShared(t) ==
  /\ at[t] = "lock"
  /\ lock' = t
  /\ at' = [at EXCEPT ![t] = "look"]
  /\ UNCHANGED <<villages, rows, owner, spot, answer>>

Lock(t) ==
  /\ at[t] = "lock" /\ lock = NoTab
  /\ lock' = t
  /\ at' = [at EXCEPT ![t] = "look"]
  /\ UNCHANGED <<villages, rows, owner, spot, answer>>

(* Is there a village already?                                             *)
Look(t) ==
  /\ at[t] = "look"
  /\ at' = [at EXCEPT ![t] =
              IF villages[owner[t]] = Nowhere THEN "place" ELSE "rows"]
  /\ UNCHANGED <<villages, rows, lock, owner, spot, answer>>

Choose(t) ==
  /\ at[t] = "place"
  /\ \E g \in Free : /\ \A h \in Free \ {g} : Precedes(g, h)
                    /\ spot' = [spot EXCEPT ![t] = g]
  /\ at' = [at EXCEPT ![t] = "insert"]
  /\ UNCHANGED <<villages, rows, lock, owner, answer>>

(* "Starting area is full"                                                 *)
Full(t) ==
  /\ at[t] = "place" /\ Free = {}
  /\ Answer(t, "full")
  /\ UNCHANGED <<villages, rows, owner>>

(* owner_id is unique, and so are the coordinates of a world.              *)
Conflict(t) ==
  \/ villages[owner[t]] # Nowhere
  \/ \E p \in Players : villages[p] = spot[t]

(* An insertion waits for one that conflicts and is not committed.         *)
MustWait(t) ==
  \E u \in Tabs \ {t} : /\ at[u] = "rows" /\ spot[u] # Nowhere
                        /\ owner[u] = owner[t] \/ spot[u] = spot[t]

(* A violated constraint makes the request fail with 500.                  *)
Insert(t) ==
  /\ at[t] = "insert" /\ ~MustWait(t)
  /\ IF Conflict(t)
     THEN Answer(t, "conflict")
     ELSE /\ at' = [at EXCEPT ![t] = "rows"]
          /\ UNCHANGED <<lock, spot, answer>>
  /\ UNCHANGED <<villages, rows, owner>>

(* Mutated form of Missing: what is there is replaced.                     *)
MissingOrNot(p) == TRUE

(* ON CONFLICT DO NOTHING                                                  *)
Missing(p) == rows[p] = "none"

(* Buildings and army, and COMMIT.                                         *)
Finish(t) ==
  LET p == owner[t]
  IN  /\ at[t] = "rows"
      /\ villages' = IF spot[t] = Nowhere THEN villages
                     ELSE [villages EXCEPT ![p] = spot[t]]
      /\ rows' = IF Missing(p) THEN [rows EXCEPT ![p] = "start"] ELSE rows
      /\ Answer(t, "done")
      /\ UNCHANGED owner

(* Mutated form of Fail: the lock outlives the transaction.                *)
FailKeepingLock(t) ==
  /\ at[t] # "idle"
  /\ at' = [at EXCEPT ![t] = "idle"]
  /\ answer' = [answer EXCEPT ![t] = "failed"]
  /\ spot' = [spot EXCEPT ![t] = Nowhere]
  /\ UNCHANGED <<villages, rows, owner, lock>>

(* Any statement, and the waiting for the lock, may fail: the transaction  *)
(* is rolled back.                                                         *)
Fail(t) ==
  /\ at[t] # "idle"
  /\ Answer(t, "failed")
  /\ UNCHANGED <<villages, rows, owner>>

(* The rest of the game, which does not take this lock.                    *)
Play(p) ==
  /\ rows[p] = "start"
  /\ rows' = [rows EXCEPT ![p] = "played"]
  /\ UNCHANGED <<villages, lock, at, owner, spot, answer>>

Step(t) == Look(t) \/ Choose(t) \/ Full(t) \/ Insert(t) \/ Finish(t)

Next ==
  \/ \E t \in Tabs : Lock(t) \/ Step(t) \/ Fail(t) \/ (\E p \in Players : Request(t, p))
  \/ \E p \in Players : Play(p)

Spec == Init /\ [][Next]_vars

(* PostgreSQL queues those who wait for the lock.                          *)
FairSpec == Spec /\ \A t \in Tabs : WF_vars(Step(t)) /\ SF_vars(Lock(t))

-----------------------------------------------------------------------------
Places == {"idle", "lock", "look", "place", "insert", "rows"}

(* No village is ever seen without its buildings and army.                 *)
TypeOK ==
  /\ \A p \in Players : rows[p] = "none" <=> villages[p] = Nowhere
  /\ villages \in [Players -> (Int \X Int) \cup {Nowhere}]
  /\ rows \in [Players -> {"none", "start", "played"}]
  /\ lock \in Tabs \cup {NoTab}
  /\ at \in [Tabs -> Places]
  /\ owner \in [Tabs -> Players]
  /\ spot \in [Tabs -> Grid \cup {Nowhere}]
  /\ answer \in [Tabs -> {"none", "done", "full", "conflict", "failed"}]

(* The advisory lock covers the check, the search and the insertion, so    *)
(* neither a second tab of the player nor another player makes a request   *)
(* run into a constraint (the comment on create_village: two tabs opened   *)
(* at once cannot create a second village).                                *)
NeverConflicts == \A t \in Tabs : answer[t] # "conflict"

(* A new village is four fields or more away from every other one.         *)
KeepsDistance ==
  \A p, q \in Players :
    p # q /\ villages[p] # Nowhere /\ villages[q] # Nowhere
      /\ OldVillages[p] = Nowhere
      => Distance2(villages[p], villages[q]) >= 16

(* The world fills up from its centre: when a village appears, nobody      *)
(* could have been put nearer.                                             *)
FillsFromCentre ==
  [][\A p \in Players : villages'[p] # villages[p] =>
       \A g \in Free : FromCentre(villages'[p]) <= FromCentre(g)]_vars

(* Asked for a village again, however late, the server takes nothing back  *)
(* and gives nothing twice.                                                *)
KeepsProgress ==
  [][\A p \in Players : rows[p] # "none" => rows'[p] \in {rows[p], "played"}]_vars

(* Every request is answered, whoever fails meanwhile.                     *)
Answered == \A t \in Tabs : at[t] # "idle" ~> at[t] = "idle"
=============================================================================
