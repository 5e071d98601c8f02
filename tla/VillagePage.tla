---------------------------- MODULE VillagePage ----------------------------
(***************************************************************************)
(* The page of the village (web/game.js) and the two queries it polls:     *)
(* /api/game (bootstrap in web/api.rs), which reads everything under the   *)
(* lock of the village, and /api/military (bootstrap in military.rs),      *)
(* which reads the soldiers at home in the statement that waits for the    *)
(* lock, as they were when it began.                                       *)
(*                                                                         *)
(* Of the village it matters only which change of it a query has seen:     *)
(* the changes are counted, the first one founds the village.  Whoever     *)
(* holds the lock is one step (RowLocks); waiting for it is the time       *)
(* between two steps.                                                      *)
(***************************************************************************)
EXTENDS Integers

CONSTANTS MaxRev,       \* bound: changes of the village
          MaxTroubles,  \* bound: failed requests and pages loaded again
          Unread

ASSUME PageAssumption == MaxRev \in Nat \ {0} /\ MaxTroubles \in Nat /\ Unread \notin Int

NotLoaded == -1

NoArmy == [home |-> NotLoaded, rest |-> NotLoaded]

VARIABLES
  rev,             \* changes of the village committed
  session,         \* the browser's session is valid
  shown,           \* snapshot
  refreshing,
  polls,           \* answers of /api/game under way: what they have read
  army,            \* militarySnapshot
  armyRefreshing,  \* militaryRefreshing
  armyPolls,       \* answers of /api/military under way
  command,         \* the request of mutate; mutating, unless it is "none"
  recruit,         \* how far the handler of recruit-form is; recruiting, unless "none"
  expired,         \* sessionExpired
  hidden,          \* document.hidden
  own, since,      \* the last change made here, polls shown since (in the model only)
  troubles

gameVars  == <<shown, refreshing, polls, since>>
armyVars  == <<army, armyRefreshing, armyPolls>>
orderVars == <<command, recruit>>
vars == <<rev, session, gameVars, armyVars, orderVars, expired, hidden, own, troubles>>

mutating   == command # "none"
hasVillage == shown > 0

NewPoll     == Unread
NewArmyPoll == [home |-> Unread, rest |-> Unread]

Init ==
  /\ rev \in {0, 1} /\ session = TRUE
  /\ shown = NotLoaded /\ refreshing = TRUE /\ polls = {NewPoll} /\ since = 0
  /\ army = NoArmy /\ armyRefreshing = FALSE /\ armyPolls = {}
  /\ command = "none" /\ recruit = "none"
  /\ expired = FALSE /\ hidden = FALSE
  /\ own = 0 /\ troubles = 0

Trouble == troubles < MaxTroubles /\ troubles' = troubles + 1

-----------------------------------------------------------------------------
(* refresh and refreshMilitary, up to their awaits; a call may also return *)
(* at once.                                                                *)

(* Mutated form of MayRefresh: a poll under way is no reason to wait.      *)
MayRefreshAgain(busy, over) == ~busy /\ ~over

MayRefresh(busy, over) == ~refreshing /\ ~busy /\ ~over

MayRefreshArmy(village, over) == village /\ ~armyRefreshing /\ ~over

StartPoll == refreshing' = TRUE /\ polls' = polls \cup {NewPoll}

StartArmyPoll == armyRefreshing' = TRUE /\ armyPolls' = armyPolls \cup {NewArmyPoll}

CallRefresh(busy, over) ==
  IF MayRefresh(busy, over) THEN StartPoll ELSE UNCHANGED <<refreshing, polls>>

CallRefreshArmy(village, over) ==
  IF MayRefreshArmy(village, over)
  THEN StartArmyPoll ELSE UNCHANGED <<armyRefreshing, armyPolls>>

(* The timers, a click on retry, the page coming back from the history.    *)
Refresh ==
  /\ MayRefresh(mutating, expired)
  /\ StartPoll
  /\ UNCHANGED <<rev, session, shown, since, armyVars, orderVars, expired, hidden, own, troubles>>

RefreshArmy ==
  /\ MayRefreshArmy(hasVillage, expired)
  /\ StartArmyPoll
  /\ UNCHANGED <<rev, session, gameVars, army, orderVars, expired, hidden, own, troubles>>

(* visibilitychange                                                        *)
Hide ==
  /\ ~hidden /\ hidden' = TRUE
  /\ UNCHANGED <<rev, session, gameVars, armyVars, orderVars, expired, own, troubles>>

Unhide ==
  /\ hidden /\ hidden' = FALSE
  /\ CallRefresh(mutating, expired)
  /\ UNCHANGED <<rev, session, shown, since, armyVars, orderVars, expired, own, troubles>>

-----------------------------------------------------------------------------
(* /api/game.                                                              *)

(* Mutated form of ReadGame: the browser answers from its cache.           *)
ReadGameCached(p) ==
  /\ p = Unread /\ session
  /\ polls' = (polls \ {p}) \cup {IF shown = NotLoaded THEN rev ELSE shown}
  /\ UNCHANGED <<rev, session, shown, refreshing, since, armyVars, orderVars, expired, hidden,
                 own, troubles>>

ReadGame(p) ==
  /\ p = Unread /\ session
  /\ polls' = (polls \ {p}) \cup {rev}
  /\ UNCHANGED <<rev, session, shown, refreshing, since, armyVars, orderVars, expired, hidden,
                 own, troubles>>

(* When a poll is over, the handler of recruit-form that awaited it goes   *)
(* on to refreshMilitary; so does render for a village it has not known.   *)
AfterPoll(appeared, village, over) ==
  IF recruit = "refresh" \/ appeared
  THEN /\ CallRefreshArmy(village, over)
       /\ recruit' = IF recruit # "refresh" THEN recruit
                     ELSE IF MayRefreshArmy(village, over) /\ ~appeared THEN "army"
                     ELSE "none"
  ELSE UNCHANGED <<armyRefreshing, armyPolls, recruit>>

ShowGame(p) ==
  /\ p # Unread
  /\ polls' = polls \ {p} /\ refreshing' = FALSE
  /\ shown' = p
  /\ since' = IF since < 2 THEN since + 1 ELSE since
  /\ AfterPoll(~hasVillage /\ p > 0, p > 0, expired)
  /\ UNCHANGED <<rev, session, army, command, expired, hidden, own, troubles>>

(* Status 401.                                                             *)
GameExpired(p) ==
  /\ p = Unread /\ ~session
  /\ polls' = polls \ {p} /\ refreshing' = FALSE
  /\ expired' = TRUE
  /\ AfterPoll(FALSE, hasVillage, TRUE)
  /\ UNCHANGED <<rev, session, shown, since, army, command, hidden, own, troubles>>

(* Mutated form of GameFails: an exception leaves refreshing as it is.     *)
GameFailsBusy(p) ==
  /\ Trouble
  /\ polls' = polls \ {p}
  /\ AfterPoll(FALSE, hasVillage, expired)
  /\ UNCHANGED <<rev, session, shown, refreshing, since, army, command, expired, hidden, own>>

(* Another status, or none.                                                *)
GameFails(p) ==
  /\ Trouble
  /\ polls' = polls \ {p} /\ refreshing' = FALSE
  /\ AfterPoll(FALSE, hasVillage, expired)
  /\ UNCHANGED <<rev, session, shown, since, army, command, expired, hidden, own>>

-----------------------------------------------------------------------------
(* /api/military.                                                          *)

(* The statement that locks the village begins: it reads the soldiers at   *)
(* home from its snapshot.                                                 *)
ReadHome(a) ==
  /\ a.home = Unread /\ session
  /\ armyPolls' = (armyPolls \ {a}) \cup {[a EXCEPT !.home = rev]}
  /\ UNCHANGED <<rev, session, gameVars, army, armyRefreshing, orderVars, expired, hidden, own,
                 troubles>>

(* The lock is there: the armies under way, the training, the resources.   *)
ReadRest(a) ==
  /\ a.home # Unread /\ a.rest = Unread
  /\ armyPolls' = (armyPolls \ {a}) \cup {[a EXCEPT !.rest = rev]}
  /\ UNCHANGED <<rev, session, gameVars, army, armyRefreshing, orderVars, expired, hidden, own,
                 troubles>>

ArmyPollEnds(a) ==
  /\ armyPolls' = armyPolls \ {a} /\ armyRefreshing' = FALSE
  /\ recruit' = IF recruit = "army" THEN "none" ELSE recruit
  /\ UNCHANGED <<rev, session, gameVars, command, hidden, own>>

ShowArmy(a) ==
  /\ a.rest # Unread
  /\ ArmyPollEnds(a)
  /\ army' = a
  /\ UNCHANGED <<expired, troubles>>

(* Mutated form of ArmyExpired: nothing is done once the session is over.  *)
ArmyExpiredBusy(a) ==
  /\ a.home = Unread /\ ~session
  /\ armyPolls' = armyPolls \ {a}
  /\ expired' = TRUE
  /\ UNCHANGED <<rev, session, gameVars, army, armyRefreshing, orderVars, hidden, own, troubles>>

ArmyExpired(a) ==
  /\ a.home = Unread /\ ~session
  /\ ArmyPollEnds(a)
  /\ expired' = TRUE
  /\ UNCHANGED <<army, troubles>>

ArmyFails(a) ==
  /\ Trouble
  /\ ArmyPollEnds(a)
  /\ UNCHANGED <<army, expired>>

-----------------------------------------------------------------------------
(* Changes of the village.                                                 *)
Change == rev < MaxRev /\ rev' = rev + 1

OwnChange == Change /\ own' = rev + 1 /\ since' = 0

(* Jobs, other tabs, and requests that come through though they were given *)
(* up here.                                                                *)
OthersChange ==
  /\ Change
  /\ UNCHANGED <<session, gameVars, armyVars, orderVars, expired, hidden, own, troubles>>

(* mutate: a village founded, an upgrade, a new name.                      *)
Mutate ==
  /\ ~mutating /\ ~expired
  /\ command' = "sent"
  /\ UNCHANGED <<rev, session, gameVars, armyVars, recruit, expired, hidden, own, troubles>>

(* The server's part: carried out, refused, or refused for good.           *)
RunCommand ==
  /\ command = "sent"
  /\ \/ session /\ OwnChange /\ command' = "done"
     \/ session /\ command' = "refused" /\ UNCHANGED <<rev, own, since>>
     \/ ~session /\ command' = "expired" /\ UNCHANGED <<rev, own, since>>
  /\ UNCHANGED <<session, shown, refreshing, polls, armyVars, recruit, expired, hidden, troubles>>

EndMutate(over) ==
  /\ command' = "none"
  /\ expired' = over
  /\ CallRefresh(FALSE, over)
  /\ UNCHANGED <<rev, session, shown, since, armyVars, recruit, hidden, own>>

CommandAnswered ==
  /\ command \in {"done", "refused", "expired"}
  /\ EndMutate(expired \/ command = "expired")
  /\ UNCHANGED troubles

CommandFails == mutating /\ Trouble /\ EndMutate(expired)

(* The handler of recruit-form.  On success it awaits refresh, and after   *)
(* it refreshMilitary.                                                     *)
Recruit ==
  /\ recruit = "none" /\ ~mutating /\ army # NoArmy
  /\ recruit' = "sent"
  /\ UNCHANGED <<rev, session, gameVars, armyVars, command, expired, hidden, own, troubles>>

RunRecruit ==
  /\ recruit = "sent"
  /\ \/ session /\ OwnChange /\ recruit' = "done"
     \/ session /\ recruit' = "refused" /\ UNCHANGED <<rev, own, since>>
     \/ ~session /\ recruit' = "expired" /\ UNCHANGED <<rev, own, since>>
  /\ UNCHANGED <<session, shown, refreshing, polls, armyVars, command, expired, hidden, troubles>>

RecruitDone ==
  /\ recruit = "done"
  /\ IF MayRefresh(mutating, expired)
     THEN /\ StartPoll /\ recruit' = "refresh"
          /\ UNCHANGED <<armyRefreshing, armyPolls>>
     ELSE /\ CallRefreshArmy(hasVillage, expired)
          /\ recruit' = IF MayRefreshArmy(hasVillage, expired) THEN "army" ELSE "none"
          /\ UNCHANGED <<refreshing, polls>>
  /\ UNCHANGED <<rev, session, shown, since, army, command, expired, hidden, own, troubles>>

RecruitRefused ==
  /\ recruit \in {"refused", "expired"}
  /\ expired' = (expired \/ recruit = "expired")
  /\ recruit' = "none"
  /\ UNCHANGED <<rev, session, gameVars, armyVars, command, hidden, own, troubles>>

RecruitFails ==
  /\ recruit \in {"sent", "done", "refused", "expired"} /\ Trouble
  /\ recruit' = "none"
  /\ UNCHANGED <<rev, session, gameVars, armyVars, command, expired, hidden, own>>

(* The session ends: logout in another tab, or its time is over.           *)
SessionEnds ==
  /\ session /\ session' = FALSE
  /\ UNCHANGED <<rev, gameVars, armyVars, orderVars, expired, hidden, own, troubles>>

(* The page is loaded again; nothing of the old one is heard of any more.  *)
Reload ==
  /\ session /\ Trouble
  /\ shown' = NotLoaded /\ refreshing' = TRUE /\ polls' = {NewPoll}
  /\ army' = NoArmy /\ armyRefreshing' = FALSE /\ armyPolls' = {}
  /\ command' = "none" /\ recruit' = "none" /\ expired' = FALSE
  /\ UNCHANGED <<rev, session, hidden, own, since>>

-----------------------------------------------------------------------------
PollStep     == \E p \in polls : ReadGame(p) \/ ShowGame(p) \/ GameExpired(p)
ArmyPollStep == \E a \in armyPolls : ReadHome(a) \/ ReadRest(a) \/ ShowArmy(a) \/ ArmyExpired(a)
CommandStep  == RunCommand \/ CommandAnswered
RecruitStep  == RunRecruit \/ RecruitDone \/ RecruitRefused

Player == Mutate \/ Recruit \/ Hide \/ Unhide \/ Reload

Failure == \/ \E p \in polls : GameFails(p)
           \/ \E a \in armyPolls : ArmyFails(a)
           \/ CommandFails \/ RecruitFails \/ SessionEnds

Next == \/ Refresh \/ RefreshArmy \/ PollStep \/ ArmyPollStep \/ CommandStep \/ RecruitStep
        \/ OthersChange \/ Player \/ Failure

Spec == Init /\ [][Next]_vars

(* Timers run while the page is in view; a request is answered, or fails.  *)
FairSpec ==
  /\ Spec
  /\ WF_vars(~hidden /\ Refresh) /\ WF_vars(~hidden /\ RefreshArmy)
  /\ WF_vars(PollStep) /\ WF_vars(ArmyPollStep)
  /\ WF_vars(CommandStep) /\ WF_vars(RecruitStep)

-----------------------------------------------------------------------------
Stages == {"none", "sent", "done", "refused", "expired"}

TypeOK ==
  /\ rev \in 0..MaxRev /\ session \in BOOLEAN
  /\ shown \in NotLoaded..MaxRev /\ refreshing \in BOOLEAN
  /\ polls \subseteq {Unread} \cup 0..MaxRev
  /\ army \in [home : NotLoaded..MaxRev, rest : NotLoaded..MaxRev]
  /\ armyRefreshing \in BOOLEAN
  /\ armyPolls \subseteq [home : {Unread} \cup 0..MaxRev, rest : {Unread} \cup 0..MaxRev]
  /\ command \in Stages /\ recruit \in Stages \cup {"refresh", "army"}
  /\ expired \in BOOLEAN /\ hidden \in BOOLEAN
  /\ own \in 0..MaxRev /\ since \in 0..2 /\ troubles \in 0..MaxTroubles

(* Until it is loaded again, the page never falls back to a village or an  *)
(* army older than it has shown, whatever polls, commands and failures do  *)
(* meanwhile.                                                              *)
NeverBackwards ==
  [][shown' # NotLoaded => /\ shown' >= shown
                           /\ army'.home >= army.home /\ army'.rest >= army.rest]_vars

(* What the player does here is on the page by the second poll that is     *)
(* shown after it: the refresh at the end of mutate is skipped if a poll   *)
(* is under way that has read the village before (game.js:919, 941).       *)
LateByOnePoll == since = 2 /\ shown # NotLoaded => shown >= own

(* However polls, failures and reloads meet, what the page waits for is    *)
(* under way: it takes itself to be refreshing only while a request will   *)
(* end that, it never forgets a request, and the recruit form is disabled  *)
(* by its refreshes only until they are over (game.js:820, 937, 1029).     *)
NobodyWaitsInVain ==
  /\ refreshing <=> polls # {}
  /\ armyRefreshing <=> armyPolls # {}
  /\ recruit = "refresh" => refreshing
  /\ recruit = "army" => armyRefreshing

UpToDate == shown = rev /\ (rev > 0 => army = [home |-> rev, rest |-> rev])

(* However polls, commands and failures meet, a page in view comes to show *)
(* the village and the army as they are, unless they change again or the   *)
(* session is over; an army read from two moments does not stay.           *)
CatchesUp ==
  \A n \in 0..MaxRev :
    rev = n /\ ~hidden /\ ~expired ~> UpToDate \/ rev # n \/ hidden \/ expired
=============================================================================
