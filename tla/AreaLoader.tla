----------------------------- MODULE AreaLoader -----------------------------
(***************************************************************************)
(* The map as it is drawn (map/map.js), and the request it is drawn from   *)
(* (area in map/mod.rs).  Moving the map starts a timer; when it ends, the *)
(* villages of the window are asked for, the request before it is aborted  *)
(* and its answer, if it comes all the same, is dropped.                   *)
(*                                                                         *)
(* Of the two coordinates one is modelled; the other is treated alike.     *)
(* The state begins when start() has shown the player's own village.       *)
(***************************************************************************)
EXTENDS Integers, FiniteSets

CONSTANTS Villages, Home,
          Place,      \* the tile a village lies on
          Width,      \* tiles of the world
          Unit,       \* positions of the camera on a tile
          Spots,      \* where the camera is moved to
          Halves,     \* half widths of the window, in positions
          MaxSpan,    \* tiles a window shows at most (minimumScale)
          Limit,      \* tiles the server accepts
          MaxPoints,  \* bound: points of a village
          MaxFlight,  \* bound: answers not aborted in time
          NoVillage, Unread

ASSUME MapAssumption ==
  /\ Width \in Nat \ {0} /\ Unit \in Nat \ {0} /\ MaxSpan \in Nat /\ Limit \in Nat
  /\ Spots \subseteq Int
  /\ Halves \subseteq {h \in Nat : 2 * h <= MaxSpan * Unit}
  /\ MaxSpan <= Width
  /\ Place \in [Villages -> 0..(Width - 1)]
  /\ MaxPoints \in Nat \ {0} /\ MaxFlight \in Nat \ {0}
  /\ Home \in Villages /\ NoVillage \notin Villages

(* minimumScale keeps the window, with its margins, below the limit.       *)
ASSUME LimitAssumption == MaxSpan + 4 <= Limit

VARIABLES
  points,    \* villages: their points in the database, 0 before they exist
  camera,    \* state.camera
  half,      \* half of state.width / state.scale
  timer,     \* state.loadTimer is running
  flight,    \* requests whose answer has not been handled
  drawn,     \* state.villages: the points shown, 0 for villages not drawn
  drawnFor,  \* the area drawn is the answer for (in the model only)
  failed,    \* the last area could not be loaded: status says so
  selected,  \* state.selected
  own        \* state.home: the own village as it was when the page was loaded

areaVars == <<points, camera, half, timer, flight, drawn, drawnFor, failed, selected, own>>

Bigger(a, b)  == IF a > b THEN a ELSE b
Smaller(a, b) == IF a < b THEN a ELSE b

Floor(p) == p \div Unit
Ceil(p)  == -((-p) \div Unit)

(* clampCamera, for a window of half width h.                              *)
Clamp(c, h) == Bigger(h, Smaller(Width * Unit - h, c))

(* Mutated form of View: the end of the world is not thought of.           *)
ViewUnclipped(c, h) == [lo |-> Floor(c - h) - 1, hi |-> Ceil(c + h) + 1]

(* viewBounds: the window and a tile on each side.                         *)
View(c, h) == [lo |-> Bigger(0, Floor(c - h) - 1),
               hi |-> Smaller(Width - 1, Ceil(c + h) + 1)]

Tiles(b) == b.hi - b.lo + 1

(* What area accepts.                                                      *)
Accepted(b) == /\ b.lo >= 0 /\ b.hi <= Width - 1 /\ b.lo <= b.hi
               /\ Tiles(b) <= Limit

(* What area reads: the villages within the bounds.                        *)
VillagesIn(b) == [v \in Villages |-> IF Place[v] \in b.lo..b.hi THEN points[v] ELSE 0]

Centre(v) == Place[v] * Unit + Unit \div 2

OwnAlone == [v \in Villages |-> IF v = Home THEN points[Home] ELSE 0]

OwnNow == [id |-> Home, points |-> points[Home]]

(* start(): the own village is drawn and selected, its surroundings are    *)
(* still to be loaded.                                                     *)
AreaInit ==
  /\ points \in [Villages -> {0, 1}] /\ points[Home] = 1
  /\ half \in Halves
  /\ camera = Clamp(Centre(Home), half)
  /\ timer = TRUE
  /\ flight = {}
  /\ drawn = OwnAlone
  /\ drawnFor = [lo |-> Place[Home], hi |-> Place[Home]]
  /\ failed = FALSE
  /\ selected = OwnNow /\ own = OwnNow

-----------------------------------------------------------------------------
(* updateView, after a drag, a key, the wheel, coordinates entered or a    *)
(* centre chosen.                                                          *)
Move(c, h) ==
  /\ half' = h
  /\ camera' = Clamp(c, h)
  /\ timer' = TRUE
  /\ UNCHANGED <<points, flight, drawn, drawnFor, failed, selected, own>>

(* resize: the window gets another size, whatever the player is at.        *)
Resize == \E h \in Halves : Move(camera, h)

(* go-home: the village is selected as it was when the page was loaded.    *)
GoHome ==
  /\ camera' = Clamp(Centre(Home), half)
  /\ timer' = TRUE
  /\ selected' = own
  /\ UNCHANGED <<points, half, flight, drawn, drawnFor, failed, own>>

(* The page is loaded again; nothing of the old one is heard of any more.  *)
ReloadMap ==
  /\ half' \in Halves
  /\ camera' = Clamp(Centre(Home), half')
  /\ timer' = TRUE
  /\ flight' = {}
  /\ drawn' = OwnAlone
  /\ drawnFor' = [lo |-> Place[Home], hi |-> Place[Home]]
  /\ failed' = FALSE
  /\ selected' = OwnNow /\ own' = OwnNow
  /\ UNCHANGED points

(* A click on the map.                                                     *)
InWindow(v) == Place[v] \in Floor(camera - half)..Floor(camera + half)

Click(v) ==
  /\ drawn[v] > 0 /\ InWindow(v)
  /\ selected' = [id |-> v, points |-> drawn[v]]
  /\ UNCHANGED <<points, camera, half, timer, flight, drawn, drawnFor, failed, own>>

ClickBeside ==
  /\ selected' = NoVillage
  /\ UNCHANGED <<points, camera, half, timer, flight, drawn, drawnFor, failed, own>>

-----------------------------------------------------------------------------
(* abort() rejects a request that is under way; one whose answer is        *)
(* complete may come through, but no longer as the latest.                 *)
Late(r) == [r EXCEPT !.latest = FALSE]

(* Mutated form of LoadArea: a load under way is waited for.               *)
LoadAreaUnlessBusy ==
  /\ timer
  /\ timer' = FALSE
  /\ IF flight = {}
       THEN flight' = {[of |-> View(camera, half), data |-> Unread, latest |-> TRUE]}
       ELSE UNCHANGED flight
  /\ UNCHANGED <<points, camera, half, drawn, drawnFor, failed, selected, own>>

(* loadArea, up to its await.                                              *)
LoadArea ==
  /\ timer
  /\ timer' = FALSE
  /\ \E through \in SUBSET {r \in flight : r.data # Unread} :
       /\ Cardinality(through) < MaxFlight
       /\ flight' = {Late(r) : r \in through}
                      \cup {[of |-> View(camera, half), data |-> Unread, latest |-> TRUE]}
  /\ UNCHANGED <<points, camera, half, drawn, drawnFor, failed, selected, own>>

(* The handler of the API reads the villages.                              *)
AnswerArea(r) ==
  /\ r \in flight /\ r.data = Unread
  /\ Accepted(r.of)
  /\ flight' = (flight \ {r}) \cup {[r EXCEPT !.data = VillagesIn(r.of)]}
  /\ UNCHANGED <<points, camera, half, timer, drawn, drawnFor, failed, selected, own>>

(* Mutated form of Current: whatever comes is drawn.                       *)
CurrentOrNot(r) == r \in flight

(* requestId === state.requestId                                           *)
Current(r) == r.latest

(* The selected village is refreshed if it is among those loaded.          *)
Refreshed(s, data) ==
  IF s # NoVillage /\ data[s.id] > 0 THEN [s EXCEPT !.points = data[s.id]] ELSE s

(* loadArea goes on with the answer.                                       *)
Draw(r) ==
  /\ r \in flight /\ r.data # Unread /\ Current(r)
  /\ flight' = flight \ {r}
  /\ drawn' = r.data /\ drawnFor' = r.of
  /\ selected' = Refreshed(selected, r.data)
  /\ failed' = FALSE
  /\ UNCHANGED <<points, camera, half, timer, own>>

(* ... which is no longer the latest.                                      *)
Drop(r) ==
  /\ r \in flight /\ ~Current(r)
  /\ flight' = flight \ {r}
  /\ UNCHANGED <<points, camera, half, timer, drawn, drawnFor, failed, selected, own>>

(* The network or the server fails: the player is told to move the map.    *)
FailArea(r) ==
  /\ r \in flight /\ Current(r)
  /\ flight' = flight \ {r}
  /\ failed' = TRUE
  /\ UNCHANGED <<points, camera, half, timer, drawn, drawnFor, selected, own>>

(* A village is founded, or a building in it completed.                    *)
Grow(v) ==
  /\ points[v] < MaxPoints
  /\ points' = [points EXCEPT ![v] = @ + 1]
  /\ UNCHANGED <<camera, half, timer, flight, drawn, drawnFor, failed, selected, own>>

-----------------------------------------------------------------------------
(* What the player does with the map, and what happens meanwhile.          *)
MapInput == \/ \E c \in Spots, h \in Halves : Move(c, h)
            \/ GoHome
            \/ \E v \in Villages : Click(v)
            \/ ClickBeside

Loading == \/ LoadArea
           \/ \E r \in flight : AnswerArea(r) \/ Draw(r) \/ Drop(r) \/ FailArea(r)
           \/ \E v \in Villages : Grow(v)

AreaNext == MapInput \/ Resize \/ Loading \/ ReloadMap

AreaSpec == AreaInit /\ [][AreaNext]_areaVars

-----------------------------------------------------------------------------
Bounds == [lo : Int, hi : Int]
Shown  == [Villages -> 0..MaxPoints]

AreaTypeOK ==
  /\ points \in Shown
  /\ camera \in Int /\ half \in Halves /\ timer \in BOOLEAN
  /\ flight \subseteq [of : Bounds, data : Shown \cup {Unread}, latest : BOOLEAN]
  /\ drawn \in Shown /\ drawnFor \in Bounds /\ failed \in BOOLEAN
  /\ selected \in [id : Villages, points : 1..MaxPoints] \cup {NoVillage}
  /\ own \in [id : {Home}, points : 1..MaxPoints]

(* The server never refuses an area: whatever the window, wherever the     *)
(* camera, what loadArea asks for lies in the world and within the limit   *)
(* of map/mod.rs:177, which minimumScale claims to respect (map.js:71).    *)
AreaAccepted == \A r \in flight : Accepted(r.of)

(* When the map rests (no timer, no request, no failure shown), it shows   *)
(* the answer for the window as it stands, and the panel of the selected   *)
(* village agrees with the map: no answer overtaken by another is left on  *)
(* the screen (loadArea, map.js:165).                                      *)
AtRest == ~timer /\ ~failed /\ \A r \in flight : ~r.latest

RestShowsView ==
  AtRest => /\ drawnFor = View(camera, half)
            /\ selected # NoVillage /\ drawn[selected.id] > 0
                 => selected.points = drawn[selected.id]

(* A village on the map never falls back to an older state while it stays  *)
(* drawn, though answers may arrive out of order (map.js:185).             *)
NeverOlder ==
  [][\A v \in Villages :
       drawn[v] > 0 /\ drawn'[v] > 0 => drawn'[v] >= drawn[v]]_areaVars
=============================================================================
