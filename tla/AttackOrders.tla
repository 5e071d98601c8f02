---------------------------- MODULE AttackOrders ----------------------------
(***************************************************************************)
(* An attack ordered on the map (the dialog of map/map.js) and the request *)
(* that carries it out (send_attack in military.rs).  The page gives each  *)
(* order an id of its own and, when it does not learn what became of it,   *)
(* sends it again under the same id.                                       *)
(*                                                                         *)
(* A request may be lost, its answer may be lost, or the page may give it  *)
(* up while it still reaches the server, after its repetition even.  The   *)
(* session may end between two attempts.  send_attack is one step: it      *)
(* holds the lock of the player's village (RowLocks).                      *)
(***************************************************************************)
EXTENDS Integers

CONSTANTS Targets,      \* villages of others
          Ids,          \* request ids (crypto.randomUUID)
          MaxSpears,    \* bound: soldiers at home
          MaxTries,     \* bound: attempts of one order
          NoTarget, NoOrder

Order == [id : Ids, target : Targets, spears : 1..MaxSpears]

ASSUME OrdersAssumption == /\ MaxSpears \in Nat \ {0} /\ MaxTries \in Nat \ {0}
                           /\ NoTarget \notin Targets /\ NoOrder \notin Order

VARIABLES
  dialog,        \* command-dialog: closed, or open for an attack or another command
  attackTarget,
  input,         \* attack-spears
  pending,       \* pendingAttack
  sending,       \* attackSending
  answer,        \* what the server answered to the attempt the page waits for
  fate,          \* what the page made of each order (in the model only)
  tries,         \* attempts made of each order (in the model only)
  wire,          \* attempts on their way to the server
  armies,        \* army_attacks: the orders carried out
  home,          \* village_armies: soldiers at home
  session        \* the browser's session is valid

page == <<dialog, attackTarget, input, pending, sending, answer, fate, tries>>
server == <<wire, armies, home, session>>
orderVars == <<page, server>>

OrdersInit ==
  /\ dialog = "closed" /\ attackTarget = NoTarget /\ input = 1
  /\ pending = NoOrder /\ sending = FALSE /\ answer = "none"
  /\ fate = [i \in Ids |-> "new"] /\ tries = [i \in Ids |-> 0]
  /\ wire = {} /\ armies = {} /\ home = MaxSpears /\ session = TRUE

-----------------------------------------------------------------------------
(* The dialog.  It is modal: the map cannot be used while it is open.      *)

(* Mutated form of MayOpen: the order in doubt is not thought of.          *)
MayOpenAny(type, v) == dialog = "closed" /\ ~sending

(* An order in doubt is settled first: its target may be chosen only.      *)
MayOpen(type, v) ==
  /\ dialog = "closed" /\ ~sending
  /\ pending # NoOrder => type = "attack" /\ v = pending.target

OpenCommand(type, v) ==
  /\ MayOpen(type, v)
  /\ dialog' = type
  /\ attackTarget' = v
  /\ input' = IF type # "attack" THEN input
              ELSE IF pending # NoOrder THEN pending.spears ELSE 1
  /\ UNCHANGED <<pending, sending, answer, fate, tries, server>>

CloseDialog ==
  /\ dialog # "closed"
  /\ dialog' = "closed"
  /\ UNCHANGED <<attackTarget, input, pending, sending, answer, fate, tries, server>>

(* The input is read-only while there is an order.                         *)
EditSpears(n) ==
  /\ dialog = "attack" /\ pending = NoOrder
  /\ input' = n
  /\ UNCHANGED <<dialog, attackTarget, pending, sending, answer, fate, tries, server>>

Post(o) ==
  /\ tries[o.id] < MaxTries
  /\ tries' = [tries EXCEPT ![o.id] = @ + 1]
  /\ wire' = wire \cup {[order |-> o, try |-> tries[o.id] + 1]}
  /\ pending' = o /\ sending' = TRUE /\ answer' = "none"
  /\ fate' = [fate EXCEPT ![o.id] = "pending"]
  /\ UNCHANGED <<dialog, attackTarget, input, armies, home, session>>

(* Mutated form of Resubmit: what the dialog shows is sent.                *)
ResubmitNewSelection ==
  /\ dialog = "attack" /\ ~sending /\ pending # NoOrder
  /\ \E v \in Targets :
       Post([pending EXCEPT !.target = v])

(* command-submit.  More soldiers than the last snapshot of the army shows *)
(* are not sent; that may be any number, the snapshot being of any age.    *)
Submit ==
  /\ dialog = "attack" /\ ~sending /\ pending = NoOrder
  /\ \E i \in Ids : /\ fate[i] = "new"
                    /\ Post([id |-> i, target |-> attackTarget, spears |-> input])

Resubmit ==
  /\ dialog = "attack" /\ ~sending /\ pending # NoOrder
  /\ Post(pending)

-----------------------------------------------------------------------------
(* The page learns something of its attempt.                               *)

Awaited(w) == sending /\ w.order.id = pending.id /\ w.try = tries[pending.id]

Conclude(f) ==
  /\ pending' = NoOrder /\ sending' = FALSE /\ answer' = "none"
  /\ fate' = [fate EXCEPT ![pending.id] = f]

Accept ==
  /\ answer = "accepted"
  /\ Conclude("left")
  /\ dialog' = "closed"
  /\ UNCHANGED <<attackTarget, input, tries, server>>

(* The status arrives, the body does not (response.json() fails): the      *)
(* order has been forgotten when reading arrives_at throws.                *)
AcceptGarbled ==
  /\ answer = "accepted"
  /\ Conclude("garbled")
  /\ UNCHANGED <<dialog, attackTarget, input, tries, server>>

(* A status from 400 to 499.                                               *)
Refused ==
  /\ answer \in {"refused", "expired"}
  /\ Conclude(answer)
  /\ UNCHANGED <<dialog, attackTarget, input, tries, server>>

(* Mutated form of ServerError: every error status is taken for final.     *)
ServerErrorFinal ==
  /\ answer = "error"
  /\ Conclude("refused")
  /\ UNCHANGED <<dialog, attackTarget, input, tries, server>>

(* A status of 500: the order is kept.                                     *)
ServerError ==
  /\ answer = "error"
  /\ sending' = FALSE /\ answer' = "none"
  /\ UNCHANGED <<dialog, attackTarget, input, pending, fate, tries, server>>

(* fetch fails.  The attempt, if it has not been answered, is lost or still *)
(* under way.                                                              *)
NetworkError ==
  /\ sending
  /\ sending' = FALSE /\ answer' = "none"
  /\ \E lost \in SUBSET {w \in wire : Awaited(w)} : wire' = wire \ lost
  /\ UNCHANGED <<dialog, attackTarget, input, pending, fate, tries, armies, home, session>>

(* The page is loaded again: what it remembers is gone.                    *)
ReloadDialog ==
  /\ dialog' = "closed" /\ attackTarget' = NoTarget /\ input' = 1
  /\ pending' = NoOrder /\ sending' = FALSE /\ answer' = "none"
  /\ fate' = [i \in Ids |-> IF fate[i] = "pending" THEN "reloaded" ELSE fate[i]]
  /\ UNCHANGED <<tries, server>>

-----------------------------------------------------------------------------
(* send_attack.                                                            *)

Reply(w, status) ==
  /\ wire' = wire \ {w}
  /\ answer' = IF Awaited(w) THEN status ELSE answer
  /\ UNCHANGED <<dialog, attackTarget, input, pending, sending, fate, tries, session>>

Known(o) == \E a \in armies : a.id = o.id

Carry(o) == armies' = armies \cup {o} /\ home' = home - o.spears

(* Mutated form of Execute: the soldiers are counted before the id is      *)
(* looked up.                                                              *)
ExecuteCountingFirst(w) ==
  LET o == w.order IN
  \/ ~session /\ Reply(w, "expired") /\ UNCHANGED <<armies, home>>
  \/ session /\ home < o.spears /\ Reply(w, "refused") /\ UNCHANGED <<armies, home>>
  \/ session /\ home >= o.spears /\ o \in armies
       /\ Reply(w, "accepted") /\ UNCHANGED <<armies, home>>
  \/ session /\ home >= o.spears /\ ~Known(o) /\ Reply(w, "accepted") /\ Carry(o)

(* An order known by its id is answered as before, if it is the same.      *)
Execute(w) ==
  LET o == w.order IN
  \/ ~session /\ Reply(w, "expired") /\ UNCHANGED <<armies, home>>
  \/ session /\ o \in armies /\ Reply(w, "accepted") /\ UNCHANGED <<armies, home>>
  \/ session /\ (IF Known(o) THEN o \notin armies ELSE home < o.spears)
       /\ Reply(w, "refused") /\ UNCHANGED <<armies, home>>
  \/ session /\ ~Known(o) /\ home >= o.spears /\ Reply(w, "accepted") /\ Carry(o)

(* The transaction fails, or its commit is not confirmed: status 500.      *)
ExecuteFailing(w) ==
  /\ session
  /\ Reply(w, "error")
  /\ \/ UNCHANGED <<armies, home>>
     \/ ~Known(w.order) /\ home >= w.order.spears /\ Carry(w.order)

(* Training, battles at home, returns.                                     *)
HomeChanges == home' \in 0..MaxSpears /\ UNCHANGED <<page, wire, armies, session>>

(* The session ends; the player logs in again in another tab.              *)
SessionChanges == session' = ~session /\ UNCHANGED <<page, wire, armies, home>>

Serving == \/ \E w \in wire : Execute(w) \/ ExecuteFailing(w)
           \/ HomeChanges \/ SessionChanges

Dialog == \/ CloseDialog \/ Submit \/ Resubmit
          \/ \E n \in 1..MaxSpears : EditSpears(n)
          \/ Accept \/ AcceptGarbled \/ Refused \/ ServerError \/ NetworkError

Commands == {"attack", "other"}

OrdersNext == \/ \E type \in Commands, v \in Targets : OpenCommand(type, v)
              \/ Dialog \/ Serving \/ ReloadDialog

OrdersSpec == OrdersInit /\ [][OrdersNext]_orderVars

-----------------------------------------------------------------------------
Fates == {"new", "pending", "left", "refused", "expired", "garbled", "reloaded"}

OrdersTypeOK ==
  /\ dialog \in {"closed", "attack", "other"}
  /\ attackTarget \in Targets \cup {NoTarget}
  /\ input \in 1..MaxSpears
  /\ pending \in Order \cup {NoOrder} /\ sending \in BOOLEAN
  /\ answer \in {"none", "accepted", "refused", "expired", "error"}
  /\ fate \in [Ids -> Fates] /\ tries \in [Ids -> 0..MaxTries]
  /\ wire \subseteq [order : Order, try : 1..MaxTries]
  /\ armies \subseteq Order
  /\ home \in 0..MaxSpears /\ session \in BOOLEAN

(* An id stands for one order wherever it turns up, so that the server     *)
(* never has to say that an id was used for a different command            *)
(* (military.rs:568).                                                      *)
Orders == {w.order : w \in wire} \cup armies \cup ({pending} \ {NoOrder})

IdNamesOneOrder == \A o, p \in Orders : o.id = p.id => o = p

(* What the dialog shows is what will be sent: the order in doubt, if      *)
(* there is one (map.js:546, 610).                                         *)
ShowsWhatItSends ==
  dialog = "attack" /\ pending # NoOrder =>
    attackTarget = pending.target /\ input = pending.spears

(* When the server refuses the order of the page, no army has left on it:  *)
(* an order carried out is recognised before anything else is looked at.   *)
RefusalIsTrue ==
  [][answer' = "refused" /\ answer # "refused" =>
       \A a \in armies' : a.id # pending.id]_orderVars

(* An order sent once is never given up as failed when its army has left,  *)
(* but for an answer cut in two and a page loaded again.                   *)
FailedOnceIsFailed ==
  \A a \in armies : tries[a.id] = 1 => fate[a.id] \notin {"refused", "expired"}

(* map.js:712: only a definite refusal lets the player choose anew.        *)
ForgottenMeansRefused ==
  \A a \in armies : fate[a.id] \notin {"refused", "expired", "garbled"}
=============================================================================
