-------------------------- MODULE VillagePageProofs --------------------------
(***************************************************************************)
(* Proofs that the village page never falls back and is late by one poll   *)
(* at most, for any number of changes and of troubles.                     *)
(***************************************************************************)
EXTENDS VillagePage, TLAPS

(* A poll is under way as long as refreshing says so, and no other with    *)
(* it; it has read the village after the page was last drawn, and no later *)
(* than now.  Once a poll has been shown after a change made here, all     *)
(* further ones have been started after that change.                       *)
GameInv ==
  /\ refreshing => \E p \in polls : polls = {p}
  /\ ~refreshing => polls = {}
  /\ shown <= rev /\ own <= rev
  /\ \A p \in polls : p # Unread => /\ shown <= p /\ p <= rev
                                    /\ since > 0 => own <= p
  /\ since = 2 /\ shown # NotLoaded => own <= shown

(* The same of the army, which is read in two parts, home first.           *)
ArmyInv ==
  /\ armyRefreshing => \E a \in armyPolls : armyPolls = {a}
  /\ ~armyRefreshing => armyPolls = {}
  /\ army.home <= rev /\ army.rest <= rev
  /\ \A a \in armyPolls :
       /\ a.home # Unread => army.home <= a.home /\ a.home <= rev
       /\ a.rest # Unread => /\ army.rest <= a.rest /\ a.rest <= rev
                             /\ a.home # Unread

(* The types, by the part of the page they are about.                      *)
GameTypes ==
  /\ rev \in 0..MaxRev /\ shown \in NotLoaded..MaxRev /\ refreshing \in BOOLEAN
  /\ polls \subseteq {Unread} \cup 0..MaxRev
  /\ own \in 0..MaxRev /\ since \in 0..2

ArmyTypes ==
  /\ army \in [home : NotLoaded..MaxRev, rest : NotLoaded..MaxRev]
  /\ armyRefreshing \in BOOLEAN
  /\ armyPolls \subseteq [home : {Unread} \cup 0..MaxRev, rest : {Unread} \cup 0..MaxRev]

OrderTypes ==
  /\ session \in BOOLEAN /\ expired \in BOOLEAN /\ hidden \in BOOLEAN
  /\ command \in Stages /\ recruit \in Stages \cup {"refresh", "army"}
  /\ troubles \in 0..MaxTroubles

GameOK  == GameTypes /\ GameInv
ArmyOK  == GameTypes /\ ArmyTypes /\ ArmyInv

IInv == GameOK /\ ArmyOK /\ OrderTypes

(* Together they are the type invariant.                                   *)
LEMMA TypesTogether == TypeOK <=> GameTypes /\ ArmyTypes /\ OrderTypes
  BY DEF TypeOK, GameTypes, ArmyTypes, OrderTypes

-----------------------------------------------------------------------------
(* What steps do to the village as it is polled and shown.                 *)

(* The village changes, or not, and the page does not notice.              *)
LEMMA GameKept ==
  ASSUME GameOK, UNCHANGED <<gameVars, own>>, UNCHANGED rev \/ Change
  PROVE  GameOK'
  BY PageAssumption DEF GameOK, GameTypes, GameInv, gameVars, Change, NotLoaded

(* A change made here: what polls under way have read is older.            *)
LEMMA GameChangedHere ==
  ASSUME GameOK, OwnChange, UNCHANGED <<shown, refreshing, polls>>
  PROVE  GameOK'
  BY PageAssumption DEF GameOK, GameTypes, GameInv, OwnChange, Change, NotLoaded

(* A poll begins if none is under way.                                     *)
LEMMA GameCalled ==
  ASSUME GameOK, NEW busy, NEW over, CallRefresh(busy, over),
         UNCHANGED <<rev, own, shown, since>>
  PROVE  GameOK'
<1>1. CASE UNCHANGED <<refreshing, polls>>
  BY <1>1 DEF GameOK, GameTypes, GameInv
<1>2. CASE ~refreshing /\ StartPoll
  <2>1. refreshing' = TRUE /\ polls' = {Unread}
    BY <1>2 DEF GameOK, GameInv, StartPoll, NewPoll
  <2> QED BY <2>1 DEF GameOK, GameTypes, GameInv
<1> QED BY <1>1, <1>2 DEF CallRefresh, MayRefresh

(* A poll ends with nothing to show.                                       *)
LEMMA GameNotShown ==
  ASSUME GameOK, NEW p \in polls, polls' = polls \ {p}, refreshing' = FALSE,
         UNCHANGED <<rev, own, shown, since>>
  PROVE  GameOK'
<1>1. polls' = {}
  BY DEF GameOK, GameInv
<1> QED BY <1>1 DEF GameOK, GameTypes, GameInv

(* The query reads the village as it is.                                   *)
LEMMA GameRead ==
  ASSUME GameOK, NEW p \in polls, ReadGame(p)
  PROVE  GameOK'
<1>1. polls = {p} /\ refreshing
  BY DEF GameOK, GameInv
<1>2. polls' = {rev} /\ UNCHANGED <<rev, shown, refreshing, since, own>>
  BY <1>1 DEF ReadGame
<1> QED BY <1>1, <1>2, PageAssumption DEF GameOK, GameTypes, GameInv

(* Its answer is shown.                                                    *)
LEMMA GameShown ==
  ASSUME GameOK, NEW p \in polls, ShowGame(p)
  PROVE  GameOK' /\ shown' >= shown
<1>1. polls' = {} /\ refreshing' = FALSE /\ UNCHANGED <<rev, own>>
  BY DEF GameOK, GameInv, ShowGame
<1>2. /\ p # Unread /\ p \in 0..MaxRev /\ shown <= p /\ p <= rev
      /\ since > 0 => own <= p
      /\ shown' = p /\ since' = IF since < 2 THEN since + 1 ELSE since
  BY DEF GameOK, GameTypes, GameInv, ShowGame
<1> QED BY <1>1, <1>2, PageAssumption DEF GameOK, GameTypes, GameInv, NotLoaded

(* The page begins anew.                                                   *)
LEMMA GameReloaded ==
  ASSUME GameOK, Reload
  PROVE  GameOK'
  BY PageAssumption DEF GameOK, GameTypes, GameInv, Reload, NewPoll, NotLoaded

-----------------------------------------------------------------------------
(* What steps do to the army as it is polled and shown.                    *)

LEMMA ArmyKept ==
  ASSUME ArmyOK, GameTypes', UNCHANGED armyVars, UNCHANGED rev \/ Change
  PROVE  ArmyOK'
<1>1. ArmyTypes'
  BY DEF ArmyOK, ArmyTypes, armyVars
<1>2. rev \in Int /\ rev <= rev' /\ rev' \in Int
  BY DEF ArmyOK, GameTypes, Change
<1>3. ArmyInv'
  <2>1. army.home \in Int /\ army.rest \in Int
    BY DEF ArmyOK, ArmyTypes, NotLoaded
  <2>2. \A a \in armyPolls : /\ a.home # Unread => a.home \in Int
                             /\ a.rest # Unread => a.rest \in Int
    BY DEF ArmyOK, ArmyTypes
  <2> QED BY <1>2, <2>1, <2>2 DEF ArmyOK, ArmyInv, armyVars
<1> QED BY <1>1, <1>3 DEF ArmyOK

(* A poll of the army begins if none is under way.                         *)
LEMMA ArmyCalled ==
  ASSUME ArmyOK, GameTypes', NEW village, NEW over, CallRefreshArmy(village, over),
         UNCHANGED <<rev, army>>
  PROVE  ArmyOK'
<1>1. CASE UNCHANGED <<armyRefreshing, armyPolls>>
  BY <1>1 DEF ArmyOK, ArmyTypes, ArmyInv
<1>2. CASE ~armyRefreshing /\ StartArmyPoll
  <2>1. armyRefreshing' = TRUE /\ armyPolls' = {NewArmyPoll}
    BY <1>2 DEF ArmyOK, ArmyInv, StartArmyPoll
  <2> QED BY <2>1 DEF ArmyOK, ArmyTypes, ArmyInv, NewArmyPoll
<1> QED BY <1>1, <1>2 DEF CallRefreshArmy, MayRefreshArmy

(* When a poll of the village is over, one of the army may begin.          *)
LEMMA ArmyAfterPoll ==
  ASSUME ArmyOK, GameTypes', NEW appeared, NEW village, NEW over,
         AfterPoll(appeared, village, over), UNCHANGED <<rev, army>>
  PROVE  ArmyOK'
<1>1. CASE CallRefreshArmy(village, over)
  BY <1>1, ArmyCalled
<1>2. CASE UNCHANGED <<armyRefreshing, armyPolls>>
  BY <1>2, ArmyKept DEF armyVars
<1> QED BY <1>1, <1>2 DEF AfterPoll

(* A poll of the army ends with nothing to show.                           *)
LEMMA ArmyNotShown ==
  ASSUME ArmyOK, GameTypes', NEW a \in armyPolls, ArmyPollEnds(a), UNCHANGED army
  PROVE  ArmyOK'
<1>1. armyPolls' = {} /\ armyRefreshing' = FALSE /\ UNCHANGED rev
  BY DEF ArmyOK, ArmyInv, ArmyPollEnds
<1> QED BY <1>1 DEF ArmyOK, ArmyTypes, ArmyInv

(* Its answer is shown.                                                    *)
LEMMA ArmyShown ==
  ASSUME ArmyOK, GameTypes', NEW a \in armyPolls, ShowArmy(a)
  PROVE  ArmyOK' /\ army'.home >= army.home /\ army'.rest >= army.rest
<1>1. armyPolls' = {} /\ armyRefreshing' = FALSE /\ army' = a /\ UNCHANGED rev
  BY DEF ArmyOK, ArmyInv, ArmyPollEnds, ShowArmy
<1>2. /\ a.home # Unread /\ a.rest # Unread
      /\ army.home <= a.home /\ a.home <= rev
      /\ army.rest <= a.rest /\ a.rest <= rev
  BY DEF ArmyOK, ArmyInv, ShowArmy
<1>3. /\ a \in [home : NotLoaded..MaxRev, rest : NotLoaded..MaxRev]
      /\ army.home \in Int /\ army.rest \in Int
  BY <1>2, PageAssumption DEF ArmyOK, ArmyTypes, NotLoaded
<1> QED BY <1>1, <1>2, <1>3 DEF ArmyOK, ArmyTypes, ArmyInv

(* The soldiers at home are read.                                          *)
LEMMA HomeRead ==
  ASSUME ArmyOK, GameTypes', NEW a \in armyPolls, ReadHome(a)
  PROVE  ArmyOK'
<1>1. armyPolls = {a} /\ armyRefreshing
  BY DEF ArmyOK, ArmyInv
<1>2. PICK b : b = [a EXCEPT !.home = rev]
  OBVIOUS
<1>3. armyPolls' = {b} /\ UNCHANGED <<rev, army, armyRefreshing>>
  BY <1>1, <1>2 DEF ReadHome
<1>4. /\ a.home = Unread /\ a.rest = Unread
      /\ a \in [home : {Unread} \cup 0..MaxRev, rest : {Unread} \cup 0..MaxRev]
  BY DEF ReadHome, ArmyOK, ArmyInv, ArmyTypes
<1>5. b.home = rev /\ b.rest = Unread
      /\ b \in [home : {Unread} \cup 0..MaxRev, rest : {Unread} \cup 0..MaxRev]
  BY <1>2, <1>4 DEF ArmyOK, GameTypes
<1>6. ArmyTypes'
  BY <1>3, <1>5 DEF ArmyOK, ArmyTypes
<1>7. ArmyInv'
  BY <1>1, <1>3, <1>5 DEF ArmyOK, ArmyInv, GameTypes
<1> QED BY <1>6, <1>7 DEF ArmyOK

(* The rest is read.                                                       *)
LEMMA RestRead ==
  ASSUME ArmyOK, GameTypes', NEW a \in armyPolls, ReadRest(a)
  PROVE  ArmyOK'
<1>1. armyPolls = {a} /\ armyRefreshing
  BY DEF ArmyOK, ArmyInv
<1>2. PICK b : b = [a EXCEPT !.rest = rev]
  OBVIOUS
<1>3. armyPolls' = {b} /\ UNCHANGED <<rev, army, armyRefreshing>>
  BY <1>1, <1>2 DEF ReadRest
<1>4. /\ a.home # Unread /\ army.home <= a.home /\ a.home <= rev
      /\ a \in [home : {Unread} \cup 0..MaxRev, rest : {Unread} \cup 0..MaxRev]
  BY DEF ReadRest, ArmyOK, ArmyInv, ArmyTypes
<1>5. b.home = a.home /\ b.rest = rev
      /\ b \in [home : {Unread} \cup 0..MaxRev, rest : {Unread} \cup 0..MaxRev]
  BY <1>2, <1>4 DEF ArmyOK, GameTypes
<1>6. ArmyTypes'
  BY <1>3, <1>5 DEF ArmyOK, ArmyTypes
<1>7. ArmyInv'
  BY <1>1, <1>3, <1>4, <1>5 DEF ArmyOK, ArmyInv, GameTypes
<1> QED BY <1>6, <1>7 DEF ArmyOK

(* The army of a page that has not seen one yet.                           *)
LEMMA NoArmyType == NoArmy \in [home : NotLoaded..MaxRev, rest : NotLoaded..MaxRev]
<1>1. -1 \in -1..MaxRev
  BY PageAssumption
<1> QED BY <1>1 DEF NoArmy, NotLoaded

(* The page begins anew.                                                   *)
LEMMA ArmyReloaded ==
  ASSUME ArmyOK, GameTypes', Reload
  PROVE  ArmyOK'
<1>1. /\ army' = NoArmy /\ armyRefreshing' = FALSE /\ armyPolls' = {} /\ UNCHANGED rev
      /\ rev \in 0..MaxRev /\ MaxRev \in Nat
  BY PageAssumption DEF Reload, ArmyOK, GameTypes
<1>2. army'.home = -1 /\ army'.rest = -1
  BY <1>1 DEF NoArmy, NotLoaded
<1>3. ArmyTypes'
  BY <1>1, NoArmyType DEF ArmyTypes
<1>4. ArmyInv'
  BY <1>1, <1>2 DEF ArmyInv
<1> QED BY <1>3, <1>4 DEF ArmyOK, GameTypes

-----------------------------------------------------------------------------
(* The actions.                                                            *)

(* The page starts with one poll and nothing to show.                      *)
LEMMA InitInv == ASSUME Init PROVE IInv
<1>1. GameTypes /\ GameInv
  BY PageAssumption DEF Init, GameTypes, GameInv, NewPoll, NotLoaded
<1>2. ArmyTypes /\ ArmyInv
  <2>1. NoArmy.home = -1 /\ NoArmy.rest = -1
    BY DEF NoArmy, NotLoaded
  <2>2. rev \in Nat
    BY DEF Init
  <2>3. army.home <= rev /\ army.rest <= rev
    BY <2>1, <2>2 DEF Init
  <2>4. ArmyTypes
    BY NoArmyType DEF Init, ArmyTypes
  <2> QED BY <2>3, <2>4 DEF Init, ArmyInv
<1>3. OrderTypes
  <2>1. troubles \in 0..MaxTroubles
    BY PageAssumption DEF Init
  <2> QED BY <2>1 DEF Init, OrderTypes, Stages
<1> QED BY <1>1, <1>2, <1>3 DEF IInv, GameOK, ArmyOK

(* Troubles are counted up to their bound.                                 *)
LEMMA TroublesCounted ==
  ASSUME troubles \in 0..MaxTroubles, Trouble \/ UNCHANGED troubles
  PROVE  troubles' \in 0..MaxTroubles
  BY PageAssumption DEF Trouble

(* The timers and what shows or hides the page.                            *)
LEMMA TimersInv ==
  ASSUME IInv, Refresh \/ RefreshArmy \/ Hide \/ Unhide
  PROVE  IInv'
<1>1. OrderTypes'
  BY DEF IInv, OrderTypes, orderVars, Refresh, RefreshArmy, Hide, Unhide
<1>2. CASE Refresh
  <2>1. CallRefresh(mutating, expired)
    BY <1>2 DEF Refresh, CallRefresh
  <2>2. GameOK'
    BY <1>2, <2>1, GameCalled DEF IInv, Refresh
  <2>3. ArmyOK'
    BY <1>2, <2>2, ArmyKept DEF IInv, GameOK, Refresh
  <2> QED BY <1>1, <2>2, <2>3 DEF IInv
<1>3. CASE RefreshArmy
  <2>1. CallRefreshArmy(hasVillage, expired)
    BY <1>3 DEF RefreshArmy, CallRefreshArmy
  <2>2. GameOK'
    BY <1>3, GameKept DEF IInv, RefreshArmy
  <2>3. ArmyOK'
    BY <1>3, <2>1, <2>2, ArmyCalled DEF IInv, GameOK, RefreshArmy
  <2> QED BY <1>1, <2>2, <2>3 DEF IInv
<1>4. CASE Hide
  <2>1. GameOK'
    BY <1>4, GameKept DEF IInv, Hide
  <2>2. ArmyOK'
    BY <1>4, <2>1, ArmyKept DEF IInv, GameOK, Hide
  <2> QED BY <1>1, <2>1, <2>2 DEF IInv
<1>5. CASE Unhide
  <2>1. GameOK'
    BY <1>5, GameCalled DEF IInv, Unhide
  <2>2. ArmyOK'
    BY <1>5, <2>1, ArmyKept DEF IInv, GameOK, Unhide
  <2> QED BY <1>1, <2>1, <2>2 DEF IInv
<1> QED BY <1>2, <1>3, <1>4, <1>5

(* A poll of the village goes on.                                          *)
LEMMA PollInv ==
  ASSUME IInv, NEW p \in polls,
         ReadGame(p) \/ ShowGame(p) \/ GameExpired(p) \/ GameFails(p)
  PROVE  IInv'
<1>1. OrderTypes'
  <2>1. recruit' \in Stages \cup {"refresh", "army"}
    BY DEF IInv, OrderTypes, orderVars, Stages, ReadGame, ShowGame, GameExpired, GameFails,
           AfterPoll
  <2>2. troubles' \in 0..MaxTroubles
    BY TroublesCounted DEF IInv, OrderTypes, ReadGame, ShowGame, GameExpired, GameFails
  <2> QED BY <2>1, <2>2 DEF IInv, OrderTypes, orderVars, ReadGame, ShowGame,
          GameExpired, GameFails
<1>2. GameOK'
  BY GameRead, GameShown, GameNotShown DEF IInv, GameExpired, GameFails
<1>3. CASE ReadGame(p)
  <2>1. ArmyOK'
    BY <1>2, <1>3, ArmyKept DEF IInv, GameOK, ReadGame
  <2> QED BY <1>1, <1>2, <2>1 DEF IInv
<1>4. CASE ShowGame(p) \/ GameExpired(p) \/ GameFails(p)
  <2>1. UNCHANGED <<rev, army>>
    BY <1>4 DEF ShowGame, GameExpired, GameFails
  <2>2. \E appeared, village, over : AfterPoll(appeared, village, over)
    BY <1>4 DEF ShowGame, GameExpired, GameFails
  <2>3. ArmyOK'
    BY <1>2, <2>1, <2>2, ArmyAfterPoll DEF IInv, GameOK
  <2> QED BY <1>1, <1>2, <2>3 DEF IInv
<1> QED BY <1>3, <1>4

(* A poll of the army goes on.                                             *)
LEMMA ArmyPollInv ==
  ASSUME IInv, NEW a \in armyPolls,
         ReadHome(a) \/ ReadRest(a) \/ ShowArmy(a) \/ ArmyExpired(a) \/ ArmyFails(a)
  PROVE  IInv'
<1>1. UNCHANGED <<rev, own>> /\ UNCHANGED gameVars
  BY DEF ReadHome, ReadRest, ShowArmy, ArmyExpired, ArmyFails, ArmyPollEnds
<1>2. GameOK'
  BY <1>1, GameKept DEF IInv
<1>3. ArmyOK'
  <2>1. CASE ArmyExpired(a) \/ ArmyFails(a)
    BY <1>2, <2>1, ArmyNotShown DEF IInv, GameOK, ArmyExpired, ArmyFails
  <2> QED BY <1>2, <2>1, HomeRead, RestRead, ArmyShown DEF IInv, GameOK
<1>4. OrderTypes'
  <2>1. recruit' \in Stages \cup {"refresh", "army"}
    BY DEF IInv, OrderTypes, orderVars, Stages, ReadHome, ReadRest, ShowArmy, ArmyExpired,
           ArmyFails, ArmyPollEnds
  <2>2. troubles' \in 0..MaxTroubles
    BY TroublesCounted DEF IInv, OrderTypes, ReadHome, ReadRest, ShowArmy, ArmyExpired,
       ArmyFails
  <2> QED BY <2>1, <2>2 DEF IInv, OrderTypes, orderVars, ReadHome, ReadRest,
          ShowArmy, ArmyExpired, ArmyFails, ArmyPollEnds
<1> QED BY <1>2, <1>3, <1>4 DEF IInv

(* The village changes, without the player or by one of the two requests.  *)
LEMMA ChangeInv ==
  ASSUME IInv, OthersChange \/ RunCommand \/ RunRecruit
  PROVE  IInv'
<1>1. OrderTypes'
  BY DEF IInv, OrderTypes, orderVars, Stages, OthersChange, RunCommand, RunRecruit
<1>2. GameOK'
  <2>1. CASE OthersChange
    BY <2>1, GameKept DEF IInv, OthersChange
  <2>2. CASE OwnChange /\ (RunCommand \/ RunRecruit)
    BY <2>2, GameChangedHere DEF IInv, RunCommand, RunRecruit
  <2>3. CASE UNCHANGED <<rev, own, since>> /\ (RunCommand \/ RunRecruit)
    BY <2>3, GameKept DEF IInv, RunCommand, RunRecruit, gameVars
  <2> QED BY <2>1, <2>2, <2>3 DEF RunCommand, RunRecruit
<1>3. UNCHANGED armyVars /\ (UNCHANGED rev \/ Change)
  BY DEF OthersChange, RunCommand, RunRecruit, OwnChange
<1>4. ArmyOK'
  BY <1>2, <1>3, ArmyKept DEF IInv, GameOK
<1> QED BY <1>1, <1>2, <1>4 DEF IInv

(* A command is sent, answered, or given up.                               *)
LEMMA CommandInv ==
  ASSUME IInv, Mutate \/ CommandAnswered \/ CommandFails
  PROVE  IInv'
<1>1. OrderTypes'
  <2>1. troubles' \in 0..MaxTroubles
    BY TroublesCounted DEF IInv, OrderTypes, Mutate, CommandAnswered, CommandFails
  <2>2. expired' \in BOOLEAN
    BY DEF IInv, OrderTypes, Mutate, CommandAnswered, CommandFails, EndMutate
  <2> QED BY <2>1, <2>2 DEF IInv, OrderTypes, Stages, Mutate, CommandAnswered,
          CommandFails, EndMutate
<1>2. UNCHANGED armyVars /\ UNCHANGED rev
  BY DEF Mutate, CommandAnswered, CommandFails, EndMutate
<1>3. GameOK'
  <2>1. CASE Mutate
    BY <2>1, GameKept DEF IInv, Mutate
  <2>2. CASE CommandAnswered \/ CommandFails
    <3>1. PICK over : EndMutate(over)
      BY <2>2 DEF CommandAnswered, CommandFails
    <3> QED BY <3>1, GameCalled DEF IInv, EndMutate
  <2> QED BY <2>1, <2>2
<1>4. ArmyOK'
  BY <1>2, <1>3, ArmyKept DEF IInv, GameOK
<1> QED BY <1>1, <1>3, <1>4 DEF IInv

(* The recruit form is sent, answered, or given up.                        *)
LEMMA RecruitInv ==
  ASSUME IInv, Recruit \/ RecruitDone \/ RecruitRefused \/ RecruitFails
  PROVE  IInv'
<1>1. OrderTypes'
  <2>1. troubles' \in 0..MaxTroubles
    BY TroublesCounted DEF IInv, OrderTypes, Recruit, RecruitDone, RecruitRefused,
       RecruitFails
  <2>2. expired' \in BOOLEAN
    BY DEF IInv, OrderTypes, Recruit, RecruitDone, RecruitRefused, RecruitFails
  <2> QED BY <2>1, <2>2 DEF IInv, OrderTypes, Stages, Recruit, RecruitDone,
          RecruitRefused, RecruitFails
<1>2. CASE Recruit \/ RecruitRefused \/ RecruitFails
  <2>1. UNCHANGED <<rev, own>> /\ UNCHANGED gameVars /\ UNCHANGED armyVars
    BY <1>2 DEF Recruit, RecruitRefused, RecruitFails
  <2>2. GameOK'
    BY <2>1, GameKept DEF IInv
  <2>3. ArmyOK'
    BY <2>1, <2>2, ArmyKept DEF IInv, GameOK
  <2> QED BY <1>1, <2>2, <2>3 DEF IInv
<1>3. CASE RecruitDone
  <2>1. UNCHANGED <<rev, own, shown, since, army>>
    BY <1>3 DEF RecruitDone
  <2>2. CASE MayRefresh(mutating, expired)
    <3>1. CallRefresh(mutating, expired) /\ UNCHANGED <<armyRefreshing, armyPolls>>
      BY <1>3, <2>2 DEF RecruitDone, CallRefresh
    <3>2. GameOK'
      BY <2>1, <3>1, GameCalled DEF IInv
    <3>3. ArmyOK'
      BY <2>1, <3>1, <3>2, ArmyKept DEF IInv, GameOK, armyVars
    <3> QED BY <1>1, <3>2, <3>3 DEF IInv
  <2>3. CASE ~MayRefresh(mutating, expired)
    <3>1. CallRefreshArmy(hasVillage, expired) /\ UNCHANGED <<refreshing, polls>>
      BY <1>3, <2>3 DEF RecruitDone
    <3>2. GameOK'
      BY <2>1, <3>1, GameKept DEF IInv, gameVars
    <3>3. ArmyOK'
      BY <2>1, <3>1, <3>2, ArmyCalled DEF IInv, GameOK
    <3> QED BY <1>1, <3>2, <3>3 DEF IInv
  <2> QED BY <2>2, <2>3
<1> QED BY <1>2, <1>3

(* The session ends; the page is loaded again.                             *)
LEMMA SessionInv ==
  ASSUME IInv, SessionEnds \/ Reload
  PROVE  IInv'
<1>1. OrderTypes'
  <2>1. troubles' \in 0..MaxTroubles
    BY TroublesCounted DEF IInv, OrderTypes, SessionEnds, Reload
  <2> QED BY <2>1 DEF IInv, OrderTypes, orderVars, Stages, SessionEnds, Reload
<1>2. CASE SessionEnds
  <2>1. GameOK'
    BY <1>2, GameKept DEF IInv, SessionEnds
  <2>2. ArmyOK'
    BY <1>2, <2>1, ArmyKept DEF IInv, GameOK, SessionEnds
  <2> QED BY <1>1, <2>1, <2>2 DEF IInv
<1>3. CASE Reload
  <2>1. GameOK'
    BY <1>3, GameReloaded DEF IInv
  <2>2. ArmyOK'
    BY <1>3, <2>1, ArmyReloaded DEF IInv, GameOK
  <2> QED BY <1>1, <2>1, <2>2 DEF IInv
<1> QED BY <1>2, <1>3

(* Every step preserves the invariant.                                     *)
LEMMA NextInv == ASSUME IInv, [Next]_vars PROVE IInv'
<1>1. CASE UNCHANGED vars
  <2>1. GameOK'
    BY <1>1, GameKept DEF IInv, vars
  <2>2. ArmyOK'
    BY <1>1, <2>1, ArmyKept DEF IInv, GameOK, vars
  <2>3. OrderTypes'
    BY <1>1 DEF IInv, OrderTypes, vars, orderVars
  <2> QED BY <2>1, <2>2, <2>3 DEF IInv
<1>2. CASE Refresh \/ RefreshArmy \/ OthersChange \/ CommandStep \/ RecruitStep
  BY <1>2, TimersInv, ChangeInv, CommandInv, RecruitInv DEF CommandStep, RecruitStep
<1>3. CASE PollStep \/ ArmyPollStep
  BY <1>3, PollInv, ArmyPollInv DEF PollStep, ArmyPollStep
<1>4. CASE Player
  BY <1>4, TimersInv, CommandInv, RecruitInv, SessionInv DEF Player
<1>5. CASE Failure
  BY <1>5, PollInv, ArmyPollInv, CommandInv, RecruitInv, SessionInv DEF Failure
<1> QED BY <1>1, <1>2, <1>3, <1>4, <1>5 DEF Next

(* The inductive invariant.                                                *)
THEOREM Invariance == Spec => []IInv
<1>1. Init => IInv
  BY InitInv
<1>2. IInv /\ [Next]_vars => IInv'
  BY NextInv
<1> QED BY <1>1, <1>2, PTL DEF Spec

(* All that the page keeps has its type; in particular an answer is never  *)
(* shown before all of it has been read.                                   *)
THEOREM TypeCorrect == Spec => []TypeOK
<1>1. IInv => TypeOK
  BY TypesTogether DEF IInv, GameOK, ArmyOK
<1> QED BY <1>1, Invariance, PTL

(* What is done here is on the page by the second poll shown after it.     *)
THEOREM LateByOne == Spec => []LateByOnePoll
<1>1. IInv => LateByOnePoll
  BY PageAssumption DEF IInv, GameOK, GameTypes, GameInv, LateByOnePoll, NotLoaded
<1> QED BY <1>1, Invariance, PTL

(* The recruit form waits for a refresh that is under way: the step that   *)
(* ends the refresh lets the form go on.                                   *)
FormInv ==
  /\ recruit = "refresh" => refreshing
  /\ recruit = "army" => armyRefreshing

LEMMA FormKept == ASSUME FormInv, [Next]_vars PROVE FormInv'
<1> USE DEF FormInv
<1>1. CASE \E p \in polls : ShowGame(p) \/ GameExpired(p) \/ GameFails(p)
  <2>1. \E appeared, village, over : AfterPoll(appeared, village, over)
    BY <1>1 DEF ShowGame, GameExpired, GameFails
  <2>2. recruit' # "refresh" /\ (recruit' = "army" => armyRefreshing')
    BY <2>1 DEF AfterPoll, CallRefreshArmy, StartArmyPoll
  <2> QED BY <2>2
<1>2. CASE \E a \in armyPolls : ShowArmy(a) \/ ArmyExpired(a) \/ ArmyFails(a)
  BY <1>2 DEF ShowArmy, ArmyExpired, ArmyFails, ArmyPollEnds, gameVars
<1>3. CASE RecruitDone
  BY <1>3 DEF RecruitDone, StartPoll, CallRefreshArmy, StartArmyPoll
<1>4. CASE Reload
  BY <1>4 DEF Reload
<1>5. CASE \/ Recruit \/ RunRecruit \/ RecruitRefused \/ RecruitFails
           \/ Refresh \/ RefreshArmy \/ Unhide \/ CommandAnswered \/ CommandFails
  BY <1>5 DEF Recruit, RunRecruit, RecruitRefused, RecruitFails, Refresh, RefreshArmy,
     Unhide, CommandAnswered, CommandFails, EndMutate, CallRefresh, StartPoll,
     StartArmyPoll, gameVars, armyVars, orderVars
<1>6. CASE \/ UNCHANGED vars \/ Hide \/ OthersChange \/ Mutate \/ RunCommand \/ SessionEnds
           \/ \E p \in polls : ReadGame(p)
           \/ \E a \in armyPolls : ReadHome(a) \/ ReadRest(a)
  BY <1>6 DEF Hide, OthersChange, Mutate, RunCommand, SessionEnds, ReadGame, ReadHome,
     ReadRest, vars, gameVars, armyVars, orderVars
<1> QED BY <1>1, <1>2, <1>3, <1>4, <1>5, <1>6 DEF Next, PollStep, ArmyPollStep,
        CommandStep, RecruitStep, Player, Failure

(* What the page waits for is under way.                                   *)
THEOREM WaitsEnd == Spec => []NobodyWaitsInVain
<1>1. Init => FormInv
  BY DEF Init, FormInv
<1>2. FormInv /\ [Next]_vars => FormInv'
  BY FormKept
<1>3. IInv /\ FormInv => NobodyWaitsInVain
  BY DEF IInv, GameOK, GameInv, ArmyOK, ArmyInv, FormInv, NobodyWaitsInVain
<1> QED BY <1>1, <1>2, <1>3, Invariance, PTL DEF Spec

(* Until it is loaded again, the page never falls back to an older village *)
(* or army.                                                                *)
THEOREM Forwards == Spec => NeverBackwards
<1> DEFINE forwards == /\ shown' >= shown
                       /\ army'.home >= army.home /\ army'.rest >= army.rest
<1>1. ASSUME IInv, IInv', [Next]_vars, shown' # NotLoaded PROVE forwards
  <2>1. shown \in Int /\ army.home \in Int /\ army.rest \in Int
    <3>1. shown \in Int
      BY <1>1 DEF IInv, GameOK, GameTypes, NotLoaded
    <3>2. army.home \in Int /\ army.rest \in Int
      BY <1>1 DEF IInv, ArmyOK, ArmyTypes, NotLoaded
    <3> QED BY <3>1, <3>2
  <2>2. CASE \E p \in polls : ShowGame(p)
    <3>1. shown' >= shown
      BY <1>1, <2>2, GameShown DEF IInv
    <3>2. army' = army
      BY <2>2 DEF ShowGame
    <3> QED BY <2>1, <3>1, <3>2
  <2>3. CASE \E a \in armyPolls : ShowArmy(a)
    <3>1. army'.home >= army.home /\ army'.rest >= army.rest
      BY <1>1, <2>3, ArmyShown DEF IInv, GameOK
    <3>2. shown' = shown
      BY <2>3 DEF ShowArmy, ArmyPollEnds, gameVars
    <3> QED BY <2>1, <3>1, <3>2
  <2>4. CASE Reload
    BY <1>1, <2>4 DEF Reload
  <2>5. CASE UNCHANGED <<shown, army>>
    BY <2>1, <2>5
  <2>6. \/ \E p \in polls : ShowGame(p)
        \/ \E a \in armyPolls : ShowArmy(a)
        \/ Reload
        \/ UNCHANGED <<shown, army>>
    BY <1>1 DEF Next, vars, gameVars, armyVars, Refresh, RefreshArmy, Hide, Unhide,
       PollStep, ReadGame, GameExpired, ArmyPollStep, ReadHome, ReadRest, ArmyExpired,
       ArmyPollEnds, CommandStep, RunCommand, CommandAnswered, EndMutate, RecruitStep,
       RunRecruit, RecruitDone, RecruitRefused, OthersChange, Player, Mutate, Recruit,
       Failure, GameFails, ArmyFails, CommandFails, RecruitFails, SessionEnds
  <2> QED BY <2>2, <2>3, <2>4, <2>5, <2>6
<1>2. IInv /\ IInv' /\ [Next]_vars => [shown' # NotLoaded => forwards]_vars
  BY <1>1
<1> QED BY <1>2, Invariance, PTL DEF Spec, NeverBackwards
=============================================================================
