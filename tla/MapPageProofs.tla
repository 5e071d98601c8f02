--------------------------- MODULE MapPageProofs ---------------------------
(***************************************************************************)
(* Proofs about the page of the map, for any world, window, villages,      *)
(* armies and number of attempts: the map at rest shows what it should,    *)
(* areas are never refused, villages never grow younger; an id names one   *)
(* order, refusals are true.  And the page as a whole is one of its map    *)
(* and one of its dialog, so that all of it holds for the page.            *)
(***************************************************************************)
EXTENDS MapPage, TLAPS

(* Products.                                                               *)
LEMMA ProductIsInt == ASSUME NEW m \in Int, NEW n \in Int PROVE m * n \in Int
  OBVIOUS

LEMMA ProductGrows ==
  ASSUME NEW m \in Int, NEW n \in Int, NEW u \in Nat, m <= n
  PROVE  m * u <= n * u
  OBVIOUS

LEMMA ProductCancels ==
  ASSUME NEW m \in Int, NEW n \in Int, NEW u \in Nat, m * u < n * u
  PROVE  m < n
<1>1. m \in Int /\ n \in Int /\ u \in Nat /\ m * u \in Int /\ n * u \in Int
  OBVIOUS
<1>2. n <= m => n * u <= m * u
  BY ProductGrows
<1> QED BY <1>1, <1>2

LEMMA ProductAdds ==
  ASSUME NEW m \in Int, NEW n \in Int, NEW u \in Int
  PROVE  (m + n) * u = m * u + n * u
  OBVIOUS

(* What it means to round down and up.                                     *)
LEMMA Rounding ==
  ASSUME NEW p \in Int
  PROVE  /\ Floor(p) \in Int /\ Floor(p) * Unit <= p /\ p < Floor(p) * Unit + Unit
         /\ Ceil(p) \in Int /\ p <= Ceil(p) * Unit /\ Ceil(p) * Unit < p + Unit
<1>1. Unit \in Nat /\ Unit > 0
  BY MapAssumption
<1>2. ASSUME NEW q \in Int
      PROVE  q \div Unit \in Int /\ (q \div Unit) * Unit <= q /\ q < (q \div Unit) * Unit + Unit
  BY <1>1
<1>3. -p \in Int
  OBVIOUS
<1>4. PICK d : d = (-p) \div Unit
  OBVIOUS
<1>5. d \in Int /\ d * Unit <= -p /\ -p < d * Unit + Unit
  BY <1>2, <1>3, <1>4
<1>6. (-d) * Unit = -(d * Unit) /\ d * Unit \in Int
  BY <1>1, <1>5
<1>7. Ceil(p) = -d
  BY <1>4 DEF Ceil
<1>8. -d \in Int /\ p <= (-d) * Unit /\ (-d) * Unit < p + Unit
  BY <1>1, <1>5, <1>6
<1> QED BY <1>2, <1>7, <1>8 DEF Floor

-----------------------------------------------------------------------------
(* The window.                                                             *)

LEMMA Sizes ==
  ASSUME NEW h \in Halves
  PROVE  /\ h \in Nat /\ 2 * h <= MaxSpan * Unit /\ 2 * h <= Width * Unit
         /\ Width * Unit \in Int /\ MaxSpan * Unit \in Int
<1>1. h \in Nat /\ 2 * h <= MaxSpan * Unit
  BY MapAssumption
<1>2. MaxSpan * Unit <= Width * Unit /\ Width * Unit \in Int /\ MaxSpan * Unit \in Int
  BY MapAssumption, ProductGrows, ProductIsInt
<1>3. PICK a, b : a = MaxSpan * Unit /\ b = Width * Unit
  OBVIOUS
<1> QED BY <1>1, <1>2, <1>3

Centred(c, h) == c \in Int /\ h <= c /\ c <= Width * Unit - h

(* The camera stays where the window is within the world.                  *)
LEMMA ClampCentres ==
  ASSUME NEW c \in Int, NEW h \in Halves
  PROVE  Centred(Clamp(c, h), h)
<1>1. PICK b : b = Width * Unit
  OBVIOUS
<1>2. b \in Int /\ h \in Nat /\ 2 * h <= b
  BY <1>1, Sizes
<1> QED BY <1>1, <1>2 DEF Centred, Clamp, Bigger, Smaller

(* A window with its margins shows no more tiles than the server accepts.  *)
LEMMA ViewIsAccepted ==
  ASSUME NEW h \in Halves, NEW c, Centred(c, h)
  PROVE  View(c, h) \in [lo : Int, hi : Int] /\ Accepted(View(c, h))
<1> DEFINE a == Floor(c - h)
           b == Ceil(c + h)
<1>1. /\ h \in Nat /\ c \in Int /\ c - h \in Int /\ c + h \in Int
      /\ 0 <= c - h /\ 0 <= c + h
  BY Sizes DEF Centred
<1>2. /\ a \in Int /\ a * Unit <= c - h /\ c - h < a * Unit + Unit
      /\ b \in Int /\ c + h <= b * Unit /\ b * Unit < c + h + Unit
  BY <1>1, Rounding
<1> HIDE DEF a, b
<1>3. PICK A, B, U, W, M : /\ A = a * Unit /\ B = b * Unit /\ U = Unit
                           /\ W = Width * Unit /\ M = MaxSpan * Unit
  OBVIOUS
<1>4. /\ A \in Int /\ B \in Int /\ U \in Nat /\ U > 0 /\ W \in Int /\ M \in Int
      /\ Width \in Nat /\ Width > 0 /\ MaxSpan \in Nat
  BY <1>2, <1>3, Sizes, ProductIsInt, MapAssumption
<1>5. a < Width + 1
  <2>1. (Width + 1) * Unit = W + 1 * U
    BY <1>3, ProductAdds, MapAssumption
  <2>2. 1 * U = U
    BY <1>4
  <2>3. A < W + U
    BY <1>1, <1>2, <1>3, <1>4 DEF Centred
  <2>4. a * Unit < (Width + 1) * Unit
    BY <1>3, <2>1, <2>2, <2>3
  <2>5. Width + 1 \in Int /\ Unit \in Nat
    BY MapAssumption
  <2> QED BY <1>2, <2>4, <2>5, ProductCancels
<1>6. -1 < a
  <2>1. (a + 1) * Unit = A + 1 * U
    BY <1>2, <1>3, ProductAdds, MapAssumption
  <2>2. 1 * U = U /\ 0 * Unit = 0
    BY <1>4, MapAssumption
  <2>3. 0 * Unit < (a + 1) * Unit
    BY <1>1, <1>2, <1>3, <1>4, <2>1, <2>2
  <2>4. a + 1 \in Int /\ Unit \in Nat /\ 0 \in Int
    BY <1>2, MapAssumption
  <2>5. 0 < a + 1
    BY <2>3, <2>4, ProductCancels
  <2> QED BY <1>2, <2>5
<1>7. a <= b
  <2>1. (b + 1) * Unit = B + 1 * U
    BY <1>2, <1>3, ProductAdds, MapAssumption
  <2>2. 1 * U = U
    BY <1>4
  <2>3. a * Unit < (b + 1) * Unit
    BY <1>1, <1>2, <1>3, <1>4, <2>1, <2>2
  <2>4. b + 1 \in Int /\ Unit \in Nat
    BY <1>2, MapAssumption
  <2>5. a < b + 1
    BY <1>2, <2>3, <2>4, ProductCancels
  <2> QED BY <1>2, <2>5
<1>8. b - a < MaxSpan + 2
  <2>1. ((a + MaxSpan) + 2) * Unit = (A + M) + 2 * U
    <3>1. ((a + MaxSpan) + 2) * Unit = (a + MaxSpan) * Unit + 2 * Unit
      BY <1>2, <1>4, ProductAdds, MapAssumption
    <3>2. (a + MaxSpan) * Unit = a * Unit + MaxSpan * Unit
      BY <1>2, <1>4, ProductAdds, MapAssumption
    <3> QED BY <1>3, <3>1, <3>2
  <2>2. B < (A + M) + 2 * U
    <3>1. 2 * h <= M
      BY <1>3, Sizes
    <3>2. A <= c - h /\ c - h < A + U /\ c + h <= B /\ B < c + h + U
      BY <1>2, <1>3
    <3> QED BY <1>1, <1>4, <3>1, <3>2
  <2>3. b * Unit < ((a + MaxSpan) + 2) * Unit
    BY <1>3, <2>1, <2>2
  <2>4. (a + MaxSpan) + 2 \in Int /\ Unit \in Nat
    BY <1>2, <1>4, MapAssumption
  <2>5. b < (a + MaxSpan) + 2
    BY <1>2, <2>3, <2>4, ProductCancels
  <2> QED BY <1>2, <1>4, <2>5
<1>9. View(c, h) = [lo |-> Bigger(0, a - 1), hi |-> Smaller(Width - 1, b + 1)]
  BY DEF View, a, b
<1>10. PICK l, k : l = Bigger(0, a - 1) /\ k = Smaller(Width - 1, b + 1)
  OBVIOUS
<1>11. /\ l \in Int /\ k \in Int /\ l >= 0 /\ k <= Width - 1 /\ l <= k
       /\ k - l + 1 <= MaxSpan + 4
  BY <1>2, <1>4, <1>5, <1>6, <1>7, <1>8, <1>10 DEF Bigger, Smaller
<1>12. Limit \in Nat /\ MaxSpan + 4 <= Limit
  BY MapAssumption, LimitAssumption
<1> QED BY <1>4, <1>9, <1>10, <1>11, <1>12 DEF Accepted, Tiles

-----------------------------------------------------------------------------
(* The map.                                                                *)

Read(r) == r.data # Unread

(* Only one request is the latest, and it is for the window as it stands   *)
(* unless the window has moved since.                                      *)
LatestIsRight ==
  /\ \A r, q \in flight : r.latest /\ q.latest => r = q
  /\ \A r \in flight : r.latest /\ ~timer => r.of = View(camera, half)

(* What is drawn, or will be, is no newer than the villages are, and the   *)
(* latest answer no older than what is drawn.                              *)
AgesInOrder ==
  /\ points[Home] > 0
  /\ \A v \in Villages : drawn[v] <= points[v]
  /\ \A r \in flight : Read(r) =>
       \A v \in Villages : /\ r.data[v] <= points[v]
                           /\ r.latest /\ r.data[v] > 0 => drawn[v] <= r.data[v]

AInv == /\ AreaTypeOK /\ Centred(camera, half) /\ AreaAccepted
        /\ LatestIsRight /\ RestShowsView /\ AgesInOrder

(* What the types say.                                                     *)
LEMMA AreaTypes ==
  ASSUME AInv
  PROVE  /\ points \in Shown /\ drawn \in Shown
         /\ \A v \in Villages : points[v] \in 0..MaxPoints /\ drawn[v] \in 0..MaxPoints
         /\ half \in Halves /\ camera \in Int /\ timer \in BOOLEAN /\ failed \in BOOLEAN
         /\ \A r \in flight : /\ r.of \in Bounds /\ r.latest \in BOOLEAN
                              /\ r.data \in Shown \cup {Unread}
                              /\ Read(r) => r.data \in Shown
         /\ own = [id |-> Home, points |-> own.points] /\ own.points \in 1..MaxPoints
         /\ selected # NoVillage => selected.id \in Villages /\ selected.points \in 1..MaxPoints
         /\ MaxPoints \in Nat /\ Home \in Villages
  BY MapAssumption DEF AInv, AreaTypeOK, Shown, Read

LEMMA CentreIsInt == ASSUME NEW v \in Villages PROVE Centre(v) \in Int
<1>1. Place[v] \in Int /\ Unit \in Int /\ Unit > 0
  BY MapAssumption
<1>2. Place[v] * Unit \in Int /\ Unit \div 2 \in Int
  BY <1>1, ProductIsInt
<1> QED BY <1>2 DEF Centre

(* A page that has just been loaded.                                       *)
LEMMA NewPage ==
  ASSUME points \in Shown, points[Home] > 0, half \in Halves,
         camera = Clamp(Centre(Home), half), timer = TRUE, flight = {},
         drawn = OwnAlone, drawnFor = [lo |-> Place[Home], hi |-> Place[Home]],
         failed = FALSE, selected = OwnNow, own = OwnNow
  PROVE  AInv
<1>1. Home \in Villages /\ Place[Home] \in Int /\ MaxPoints \in Nat
  BY MapAssumption
<1>2. \A v \in Villages : points[v] \in 0..MaxPoints
  BY DEF Shown
<1>3. Centred(camera, half)
  BY <1>1, CentreIsInt, ClampCentres
<1>4. OwnAlone \in Shown /\ \A v \in Villages : OwnAlone[v] <= points[v]
  BY <1>1, <1>2 DEF OwnAlone, Shown
<1>5. OwnNow \in [id : Villages, points : 1..MaxPoints]
      /\ OwnNow \in [id : {Home}, points : 1..MaxPoints]
  BY <1>1, <1>2 DEF OwnNow
<1>6. AreaTypeOK
  BY <1>1, <1>3, <1>4, <1>5 DEF AreaTypeOK, Bounds, Centred
<1>7. AreaAccepted /\ LatestIsRight /\ RestShowsView
  BY DEF AreaAccepted, LatestIsRight, RestShowsView, AtRest
<1>8. AgesInOrder
  BY <1>4 DEF AgesInOrder
<1> QED BY <1>3, <1>6, <1>7, <1>8 DEF AInv

(* The same of a page loaded again.                                        *)
LEMMA ReloadedInv ==
  ASSUME AInv, ReloadMap, points' \in Shown, points'[Home] > 0
  PROVE  AInv'
<1>1. Home \in Villages /\ Place[Home] \in Int /\ MaxPoints \in Nat
  BY MapAssumption
<1>2. \A v \in Villages : points[v] \in 0..MaxPoints
  BY AreaTypes
<1>3. points' = points /\ half' \in Halves /\ camera' = Clamp(Centre(Home), half')
  BY DEF ReloadMap
<1>4. Centred(camera, half)'
  <2>1. Centred(Clamp(Centre(Home), half'), half')
    BY <1>1, <1>3, CentreIsInt, ClampCentres
  <2> QED BY <1>3, <2>1 DEF Centred
<1>5. OwnAlone \in Shown /\ \A v \in Villages : OwnAlone[v] <= points[v]
  BY <1>1, <1>2 DEF OwnAlone, Shown
<1>6. OwnNow \in [id : Villages, points : 1..MaxPoints]
      /\ OwnNow \in [id : {Home}, points : 1..MaxPoints]
  BY <1>1, <1>2, <1>3 DEF OwnNow
<1>7. AreaTypeOK'
  BY <1>1, <1>3, <1>4, <1>5, <1>6 DEF ReloadMap, AreaTypeOK, Bounds, Centred
<1>8. AreaAccepted' /\ LatestIsRight' /\ RestShowsView'
  BY DEF ReloadMap, AreaAccepted, LatestIsRight, RestShowsView, AtRest
<1>9. AgesInOrder'
  BY <1>3, <1>5 DEF ReloadMap, AgesInOrder
<1> QED BY <1>4, <1>7, <1>8, <1>9 DEF AInv

LEMMA AreaInitInv == AreaInit => AInv
<1> SUFFICES ASSUME AreaInit PROVE AInv
  OBVIOUS
<1>1. points \in Shown /\ points[Home] > 0
  BY MapAssumption DEF AreaInit, Shown
<1> QED BY <1>1, NewPage DEF AreaInit

(* The window moves: the map is no longer at rest.                         *)
LEMMA WindowMoves ==
  ASSUME AInv, half' \in Halves, NEW c \in Int, camera' = Clamp(c, half'), timer' = TRUE,
         selected' \in {selected, own},
         UNCHANGED <<points, flight, drawn, drawnFor, failed, own>>
  PROVE  AInv'
<1>1. Centred(camera, half)'
  <2>1. Centred(Clamp(c, half'), half')
    BY ClampCentres
  <2> QED BY <2>1 DEF Centred
<1>2. AreaTypeOK'
  <2>1. selected' \in [id : Villages, points : 1..MaxPoints] \cup {NoVillage}
    BY MapAssumption DEF AInv, AreaTypeOK
  <2> QED BY <1>1, <2>1 DEF AInv, AreaTypeOK, Centred
<1>3. AreaAccepted' /\ LatestIsRight' /\ RestShowsView' /\ AgesInOrder'
  BY DEF AInv, AreaAccepted, LatestIsRight, RestShowsView, AtRest, AgesInOrder, Read, Accepted,
         Tiles
<1> QED BY <1>1, <1>2, <1>3 DEF AInv

(* Another village is selected, or none.                                   *)
LEMMA SelectionMoves ==
  ASSUME AInv, UNCHANGED <<points, camera, half, timer, flight, drawn, drawnFor, failed, own>>,
         \/ selected' = NoVillage
         \/ \E v \in Villages : drawn[v] > 0 /\ selected' = [id |-> v, points |-> drawn[v]]
  PROVE  AInv'
<1>1. selected' \in [id : Villages, points : 1..MaxPoints] \cup {NoVillage}
  BY AreaTypes
<1>2. selected' # NoVillage => selected'.points = drawn[selected'.id]
  OBVIOUS
<1>3. AreaTypeOK'
  BY <1>1 DEF AInv, AreaTypeOK
<1>4. Centred(camera, half)' /\ AreaAccepted' /\ LatestIsRight' /\ AgesInOrder'
  BY DEF AInv, Centred, AreaAccepted, LatestIsRight, AgesInOrder, Read, Accepted, Tiles, View,
         Floor, Ceil, Bigger, Smaller
<1>5. RestShowsView'
  BY <1>2 DEF AInv, RestShowsView, AtRest, View, Floor, Ceil, Bigger, Smaller
<1> QED BY <1>3, <1>4, <1>5 DEF AInv

LEMMA InputInv == ASSUME AInv, MapInput PROVE AInv'
<1>1. ASSUME NEW c \in Spots, NEW h \in Halves, Move(c, h) PROVE AInv'
  <2>1. c \in Int
    BY MapAssumption
  <2> QED BY <1>1, <2>1, WindowMoves DEF Move
<1>2. CASE GoHome
  <2>1. Centre(Home) \in Int /\ half \in Halves
    BY CentreIsInt, AreaTypes
  <2> QED BY <1>2, <2>1, WindowMoves DEF GoHome
<1>3. ASSUME NEW v \in Villages, Click(v) PROVE AInv'
  BY <1>3, SelectionMoves DEF Click
<1>4. CASE ClickBeside
  BY <1>4, SelectionMoves DEF ClickBeside
<1> QED BY <1>1, <1>2, <1>3, <1>4 DEF MapInput

(* A request is sent: the new latest.                                      *)
LEMMA LoadAreaInv == ASSUME AInv, LoadArea PROVE AInv'
<1> DEFINE new == [of |-> View(camera, half), data |-> Unread, latest |-> TRUE]
<1>1. PICK through \in SUBSET {r \in flight : Read(r)} :
        flight' = {Late(r) : r \in through} \cup {new}
  BY DEF LoadArea, Read
<1>2. /\ timer' = FALSE
      /\ UNCHANGED <<points, camera, half, drawn, drawnFor, failed, selected, own>>
  BY DEF LoadArea
<1>3. new.of \in Bounds /\ Accepted(new.of)
  BY ViewIsAccepted DEF AInv, AreaTypeOK, Bounds
<1>4. ASSUME NEW r \in through
      PROVE  /\ Late(r) \in [of : Bounds, data : Shown \cup {Unread}, latest : BOOLEAN]
             /\ Late(r).of = r.of /\ Late(r).data = r.data /\ Late(r).latest = FALSE
             /\ r \in flight
  BY <1>4 DEF Late, AInv, AreaTypeOK
<1>5. AreaTypeOK'
  <2>1. new \in [of : Bounds, data : Shown \cup {Unread}, latest : BOOLEAN]
    BY <1>3
  <2>2. flight' \subseteq [of : Bounds, data : Shown \cup {Unread}, latest : BOOLEAN]
    BY <1>1, <1>4, <2>1
  <2> QED BY <1>2, <2>2 DEF AInv, AreaTypeOK
<1>6. AreaAccepted'
  <2>1. \A r \in flight' : Accepted(r.of)
    BY <1>1, <1>3, <1>4 DEF AInv, AreaAccepted
  <2> QED BY <2>1 DEF AreaAccepted, Accepted, Tiles
<1>7. new.latest /\ new.data = Unread /\ new.of = View(camera, half) /\ new \in flight'
  BY <1>1
<1> HIDE DEF new
<1>8. LatestIsRight'
  <2>1. \A r \in flight' : r.latest => r = new
    BY <1>1, <1>4
  <2>2. View(camera, half)' = View(camera, half)
    BY <1>2 DEF View, Floor, Ceil, Bigger, Smaller
  <2> QED BY <1>7, <2>1, <2>2 DEF LatestIsRight
<1>9. RestShowsView'
  <2>1. ~AtRest'
    BY <1>7 DEF AtRest
  <2> QED BY <2>1 DEF RestShowsView
<1>10. AgesInOrder'
  <2>1. ASSUME NEW r \in flight', Read(r), NEW v \in Villages
        PROVE  /\ r.data[v] <= points[v]
               /\ ~r.latest
    <3>1. PICK q \in through : r = Late(q)
      BY <1>1, <1>7, <2>1 DEF Read
    <3>2. q \in flight /\ r.data = q.data /\ r.latest = FALSE
      BY <1>4, <3>1
    <3> QED BY <2>1, <3>2 DEF AInv, AgesInOrder, Read
  <2> QED BY <1>2, <2>1 DEF AInv, AgesInOrder, Read
<1>11. Centred(camera, half)'
  BY <1>2 DEF AInv, Centred
<1> QED BY <1>5, <1>6, <1>8, <1>9, <1>10, <1>11 DEF AInv

(* The server reads the villages as they are.                              *)
LEMMA AnswerAreaInv == ASSUME AInv, NEW r \in flight, AnswerArea(r) PROVE AInv'
<1> DEFINE read == [r EXCEPT !.data = VillagesIn(r.of)]
<1>1. /\ flight' = (flight \ {r}) \cup {read}
      /\ UNCHANGED <<points, camera, half, timer, drawn, drawnFor, failed, selected, own>>
  BY DEF AnswerArea
<1>2. /\ r \in [of : Bounds, data : Shown \cup {Unread}, latest : BOOLEAN]
      /\ VillagesIn(r.of) \in Shown
      /\ \A v \in Villages : VillagesIn(r.of)[v] \in {0, points[v]}
  BY AreaTypes DEF VillagesIn, Shown, AInv, AreaTypeOK
<1>3. /\ read \in [of : Bounds, data : Shown \cup {Unread}, latest : BOOLEAN]
      /\ read.of = r.of /\ read.latest = r.latest /\ read.data = VillagesIn(r.of)
  BY <1>2
<1> HIDE DEF read
<1>4. AreaTypeOK'
  BY <1>1, <1>3 DEF AInv, AreaTypeOK
<1>5. AreaAccepted'
  <2>1. \A q \in flight' : Accepted(q.of)
    BY <1>1, <1>3 DEF AInv, AreaAccepted
  <2> QED BY <2>1 DEF AreaAccepted, Accepted, Tiles
<1>6. LatestIsRight'
  <2>1. \A q \in flight' : q.latest => (q = read /\ r.latest) \/ (q # read /\ q \in flight \ {r})
    BY <1>1, <1>3
  <2>2. \A q, k \in flight' : q.latest /\ k.latest => q = k
    BY <2>1 DEF AInv, LatestIsRight
  <2>3. \A q \in flight' : q.latest /\ ~timer => q.of = View(camera, half)
    BY <1>3, <2>1 DEF AInv, LatestIsRight
  <2> QED BY <1>1, <2>2, <2>3 DEF LatestIsRight, View, Floor, Ceil, Bigger, Smaller
<1>7. RestShowsView'
  <2>1. AtRest' => AtRest
    BY <1>1, <1>3 DEF AtRest
  <2> QED BY <1>1, <2>1 DEF AInv, RestShowsView, View, Floor, Ceil, Bigger, Smaller
<1>8. AgesInOrder'
  <2>1. \A v \in Villages : /\ read.data[v] <= points[v]
                            /\ read.data[v] > 0 => drawn[v] <= read.data[v]
    BY <1>2, <1>3, AreaTypes DEF AInv, AgesInOrder
  <2> QED BY <1>1, <2>1 DEF AInv, AgesInOrder, Read
<1>9. Centred(camera, half)'
  BY <1>1 DEF AInv, Centred
<1> QED BY <1>4, <1>5, <1>6, <1>7, <1>8, <1>9 DEF AInv

(* The latest answer is drawn: nothing is on its way any more.             *)
LEMMA DrawInv == ASSUME AInv, NEW r \in flight, Draw(r) PROVE AInv'
<1>1. /\ Read(r) /\ r.latest
      /\ flight' = flight \ {r} /\ drawn' = r.data /\ drawnFor' = r.of /\ failed' = FALSE
      /\ selected' = Refreshed(selected, r.data)
      /\ UNCHANGED <<points, camera, half, timer, own>>
  BY DEF Draw, Current, Read
<1>2. r.data \in Shown /\ r.of \in Bounds
  BY <1>1, AreaTypes
<1>3. selected' \in [id : Villages, points : 1..MaxPoints] \cup {NoVillage}
  <2>1. selected \in [id : Villages, points : 1..MaxPoints] \cup {NoVillage}
    BY DEF AInv, AreaTypeOK
  <2>2. \A v \in Villages : r.data[v] > 0 => r.data[v] \in 1..MaxPoints
    BY <1>2, AreaTypes DEF Shown
  <2> QED BY <1>1, <2>1, <2>2 DEF Refreshed
<1>4. AreaTypeOK'
  BY <1>1, <1>2, <1>3 DEF AInv, AreaTypeOK
<1>5. AreaAccepted' /\ LatestIsRight'
  BY <1>1 DEF AInv, AreaAccepted, Accepted, Tiles, LatestIsRight, View, Floor, Ceil, Bigger, Smaller
<1>6. RestShowsView'
  <2>1. AtRest' => r.of = View(camera, half)
    BY <1>1 DEF AtRest, AInv, LatestIsRight
  <2>2. selected' # NoVillage /\ drawn'[selected'.id] > 0
          => selected'.points = drawn'[selected'.id]
    <3>1. selected # NoVillage => selected \in [id : Villages, points : 1..MaxPoints]
      BY DEF AInv, AreaTypeOK
    <3> QED BY <1>1, <3>1 DEF Refreshed
  <2> QED BY <1>1, <2>1, <2>2 DEF RestShowsView, View, Floor, Ceil, Bigger, Smaller
<1>7. AgesInOrder'
  <2>1. \A q \in flight' : ~q.latest
    BY <1>1, AreaTypes DEF AInv, LatestIsRight
  <2> QED BY <1>1, <2>1 DEF AInv, AgesInOrder, Read
<1>8. Centred(camera, half)'
  BY <1>1 DEF AInv, Centred
<1> QED BY <1>4, <1>5, <1>6, <1>7, <1>8 DEF AInv

(* An answer is given up: what is drawn stays.                             *)
LEMMA GivenUp ==
  ASSUME AInv, NEW r \in flight, flight' = flight \ {r},
         (~r.latest /\ failed' = failed) \/ failed' = TRUE,
         UNCHANGED <<points, camera, half, timer, drawn, drawnFor, selected, own>>
  PROVE  AInv'
<1>1. AreaTypeOK' /\ AgesInOrder' /\ Centred(camera, half)'
  BY DEF AInv, AreaTypeOK, AgesInOrder, Read, Centred
<1>2. AreaAccepted' /\ LatestIsRight'
  BY DEF AInv, AreaAccepted, Accepted, Tiles, LatestIsRight, View, Floor, Ceil, Bigger, Smaller
<1>3. RestShowsView'
  BY DEF AInv, RestShowsView, AtRest, View, Floor, Ceil, Bigger, Smaller
<1> QED BY <1>1, <1>2, <1>3 DEF AInv

LEMMA GrowInv == ASSUME AInv, NEW v \in Villages, Grow(v) PROVE AInv'
<1>1. /\ points' = [points EXCEPT ![v] = @ + 1] /\ points[v] < MaxPoints
      /\ UNCHANGED <<camera, half, timer, flight, drawn, drawnFor, failed, selected, own>>
  BY DEF Grow
<1>2. /\ points' \in Shown
      /\ \A u \in Villages : points'[u] \in Nat /\ points[u] \in Nat /\ points[u] <= points'[u]
  BY <1>1, AreaTypes DEF Shown
<1>3. AreaTypeOK' /\ Centred(camera, half)'
  BY <1>1, <1>2 DEF AInv, AreaTypeOK, Centred
<1>4. AreaAccepted' /\ LatestIsRight' /\ RestShowsView'
  BY <1>1 DEF AInv, AreaAccepted, Accepted, Tiles, LatestIsRight, RestShowsView, AtRest, View,
              Floor, Ceil, Bigger, Smaller
<1>5. AgesInOrder'
  <2>1. points'[Home] > 0
    BY <1>2, AreaTypes DEF AInv, AgesInOrder
  <2>2. \A u \in Villages : drawn[u] <= points'[u]
    BY <1>2, AreaTypes DEF AInv, AgesInOrder
  <2>3. ASSUME NEW r \in flight, Read(r), NEW u \in Villages
        PROVE  /\ r.data[u] <= points'[u]
               /\ r.latest /\ r.data[u] > 0 => drawn[u] <= r.data[u]
    <3>1. r.data[u] \in Nat /\ r.data[u] <= points[u]
      BY <2>3, AreaTypes DEF AInv, AgesInOrder, Shown
    <3>2. r.latest /\ r.data[u] > 0 => drawn[u] <= r.data[u]
      BY <2>3 DEF AInv, AgesInOrder
    <3> QED BY <1>2, <3>1, <3>2
  <2> QED BY <1>1, <2>1, <2>2, <2>3 DEF AgesInOrder, Read
<1> QED BY <1>3, <1>4, <1>5 DEF AInv

LEMMA AreaNextInv == AInv /\ [AreaNext]_areaVars => AInv'
<1> SUFFICES ASSUME AInv, [AreaNext]_areaVars PROVE AInv'
  OBVIOUS
<1>1. CASE MapInput
  BY <1>1, InputInv
<1>0. CASE Resize
  <2>1. PICK h \in Halves : Move(camera, h)
    BY <1>0 DEF Resize
  <2>2. camera \in Int
    BY AreaTypes
  <2> QED BY <2>1, <2>2, WindowMoves DEF Move
<1>2. CASE LoadArea
  BY <1>2, LoadAreaInv
<1>3. ASSUME NEW r \in flight, AnswerArea(r) \/ Draw(r) \/ Drop(r) \/ FailArea(r) PROVE AInv'
  <2>1. CASE Drop(r)
    BY <2>1, GivenUp DEF Drop, Current
  <2>2. CASE FailArea(r)
    BY <2>2, GivenUp DEF FailArea
  <2> QED BY <1>3, <2>1, <2>2, AnswerAreaInv, DrawInv
<1>4. ASSUME NEW v \in Villages, Grow(v) PROVE AInv'
  BY <1>4, GrowInv
<1>5. CASE ReloadMap
  <2>1. points' \in Shown /\ points'[Home] > 0 /\ half' \in Halves
    BY <1>5, AreaTypes DEF ReloadMap, AInv, AgesInOrder
  <2> QED BY <1>5, <2>1, ReloadedInv
<1>6. CASE UNCHANGED areaVars
  BY <1>6 DEF areaVars, AInv, AreaTypeOK, Centred, AreaAccepted, Accepted, Tiles, LatestIsRight,
              RestShowsView, AtRest, AgesInOrder, Read, View, Floor, Ceil, Bigger, Smaller
<1> QED BY <1>0, <1>1, <1>2, <1>3, <1>4, <1>5, <1>6 DEF AreaNext, Loading

(* What the answers drawn one after the other say of a village.            *)
LEMMA NotOlderStep ==
  ASSUME AInv, [AreaNext]_areaVars, NEW v \in Villages, drawn[v] > 0, drawn'[v] > 0
  PROVE  drawn'[v] >= drawn[v]
<1>1. drawn[v] \in Nat /\ drawn[v] <= points[v]
  BY AreaTypes DEF AInv, AgesInOrder
<1>2. CASE drawn' = drawn
  BY <1>1, <1>2
<1>3. ASSUME NEW r \in flight, Draw(r) PROVE drawn'[v] >= drawn[v]
  <2>1. Read(r) /\ r.latest /\ drawn' = r.data
    BY <1>3 DEF Draw, Current, Read
  <2>2. r.data[v] \in Nat /\ drawn[v] <= r.data[v]
    BY <2>1, AreaTypes DEF AInv, AgesInOrder, Shown
  <2> QED BY <1>1, <2>1, <2>2
<1>4. CASE ReloadMap
  <2>1. drawn'[v] = (IF v = Home THEN points[Home] ELSE 0)
    BY <1>4 DEF ReloadMap, OwnAlone
  <2>2. v = Home /\ drawn'[v] = points[v] /\ points[v] \in Nat
    BY <2>1, AreaTypes
  <2> QED BY <1>1, <2>2
<1> QED BY <1>2, <1>3, <1>4 DEF AreaNext, MapInput, Loading, Resize, Move, GoHome, Click, ClickBeside,
                                LoadArea, AnswerArea, Drop, FailArea, Grow, areaVars

LEMMA AreaInvariant == AreaSpec => []AInv
<1>1. AreaInit => AInv
  BY AreaInitInv
<1>2. AInv /\ [AreaNext]_areaVars => AInv'
  BY AreaNextInv
<1> QED BY <1>1, <1>2, PTL DEF AreaSpec

(* The variables of the map (map.js) keep their types: what is drawn or    *)
(* selected is a village with points it had.                               *)
THEOREM AreaTypeCorrect == AreaSpec => []AreaTypeOK
<1>1. AInv => AreaTypeOK
  BY DEF AInv
<1> QED BY <1>1, AreaInvariant, PTL

(* No window, wherever the camera stands on whatever world, makes loadArea *)
(* ask for an area that area in map/mod.rs refuses.                        *)
THEOREM AreasAreAccepted == AreaSpec => []AreaAccepted
<1>1. AInv => AreaAccepted
  BY DEF AInv
<1> QED BY <1>1, AreaInvariant, PTL

(* However requests and answers cross, the map at rest shows the answer    *)
(* for its window, and the panel agrees with it (loadArea).                *)
THEOREM RestIsRight == AreaSpec => []RestShowsView
<1>1. AInv => RestShowsView
  BY DEF AInv
<1> QED BY <1>1, AreaInvariant, PTL

(* A village on the map never falls back to an older state (loadArea).     *)
THEOREM VillagesNeverOlder == AreaSpec => NeverOlder
<1>1. AInv /\ [AreaNext]_areaVars
        => [\A v \in Villages : drawn[v] > 0 /\ drawn'[v] > 0 => drawn'[v] >= drawn[v]]_areaVars
  BY NotOlderStep
<1> QED BY <1>1, AreaInvariant, PTL DEF AreaSpec, NeverOlder

-----------------------------------------------------------------------------
(* The dialog.                                                             *)

(* An order is sent from an open dialog, and answered while it is pending. *)
DialogInOrder ==
  /\ dialog # "closed" => attackTarget \in Targets
  /\ sending \/ answer # "none" => pending # NoOrder

(* Attempts are counted.                                                   *)
Counted ==
  /\ \A o \in Orders : fate[o.id] # "new"
  /\ pending # NoOrder => tries[pending.id] >= 1
  /\ \A w \in wire : w.try <= tries[w.order.id]

HasArmy(i) == \E a \in armies : a.id = i
Asked(i)   == pending # NoOrder /\ pending.id = i
Failed     == {"refused", "expired"}

(* An order sent once is on its way or has been carried out, not both; and *)
(* it has not been carried out when its answer says so.                    *)
OnceInOnePlace(i) ==
  tries[i] = 1 =>
    /\ \A w \in wire : w.order.id = i =>
         ~HasArmy(i) /\ fate[i] \notin Failed /\ (Asked(i) => answer = "none")
    /\ Asked(i) /\ answer \in Failed => ~HasArmy(i)
    /\ fate[i] \in Failed => ~HasArmy(i)

OInv == /\ OrdersTypeOK /\ DialogInOrder /\ IdNamesOneOrder /\ Counted
        /\ ShowsWhatItSends /\ \A i \in Ids : OnceInOnePlace(i)

(* What the types say.                                                     *)
LEMMA OrderTypes ==
  ASSUME OInv
  PROVE  /\ \A w \in wire : /\ w = [order |-> w.order, try |-> w.try]
                             /\ w.order \in Order /\ w.try \in 1..MaxTries
         /\ armies \subseteq Order
         /\ pending # NoOrder => pending \in Order
         /\ \A o \in Order : o.id \in Ids /\ o.target \in Targets /\ o.spears \in 1..MaxSpears
         /\ \A o \in Orders : o \in Order
         /\ fate \in [Ids -> Fates] /\ tries \in [Ids -> 0..MaxTries]
         /\ MaxTries \in Nat /\ MaxSpears \in Nat /\ 1 \in 1..MaxSpears /\ NoOrder \notin Order
<1>1. /\ wire \subseteq [order : Order, try : 1..MaxTries] /\ armies \subseteq Order
      /\ pending \in Order \cup {NoOrder}
      /\ fate \in [Ids -> Fates] /\ tries \in [Ids -> 0..MaxTries]
  BY DEF OInv, OrdersTypeOK
<1>2. \A o \in Order : o.id \in Ids /\ o.target \in Targets /\ o.spears \in 1..MaxSpears
  BY DEF Order
<1>3. \A o \in Orders : o \in Order
  BY <1>1 DEF Orders
<1> QED BY <1>1, <1>2, <1>3, OrdersAssumption

LEMMA OrdersInitInv == OrdersInit => OInv
<1> SUFFICES ASSUME OrdersInit PROVE OInv
  OBVIOUS
<1>1. OrdersTypeOK
  <2>1. MaxSpears \in 1..MaxSpears /\ 1 \in 1..MaxSpears /\ MaxSpears \in 0..MaxSpears
        /\ 0 \in 0..MaxTries
    BY OrdersAssumption
  <2>2. fate \in [Ids -> Fates] /\ tries \in [Ids -> 0..MaxTries]
    BY <2>1 DEF OrdersInit, Fates
  <2> QED BY <2>1, <2>2 DEF OrdersInit, OrdersTypeOK
<1>2. Orders = {}
  BY DEF OrdersInit, Orders
<1> QED BY <1>1, <1>2 DEF OrdersInit, OInv, DialogInOrder, IdNamesOneOrder, Counted,
                          ShowsWhatItSends, OnceInOnePlace, Failed, HasArmy, Asked

(* The dialog is opened, closed or edited: what is on its way stays.       *)
LEMMA DialogMoves ==
  ASSUME OInv, UNCHANGED <<pending, sending, answer, fate, tries, wire, armies, session>>,
         home' \in 0..MaxSpears, dialog' \in {"closed", "attack", "other"},
         attackTarget' \in Targets \cup {NoTarget}, input' \in 1..MaxSpears,
         dialog' # "closed" => attackTarget' \in Targets,
         dialog' = "attack" /\ pending # NoOrder
           => attackTarget' = pending.target /\ input' = pending.spears
  PROVE  OInv'
<1>1. OrdersTypeOK' /\ DialogInOrder' /\ ShowsWhatItSends'
  BY DEF OInv, OrdersTypeOK, DialogInOrder, ShowsWhatItSends
<1>2. IdNamesOneOrder' /\ Counted'
  BY DEF OInv, IdNamesOneOrder, Orders, Counted
<1>3. ASSUME NEW i \in Ids PROVE OnceInOnePlace(i)'
  BY DEF OInv, OnceInOnePlace, HasArmy, Asked, Failed
<1> QED BY <1>1, <1>2, <1>3 DEF OInv

(* An attempt is made, of a new order or of the one in doubt.              *)
LEMMA PostInv ==
  ASSUME OInv, NEW o \in Order, Post(o), dialog = "attack",
         attackTarget = o.target, input = o.spears,
         fate[o.id] = "new" \/ (pending # NoOrder /\ o = pending)
  PROVE  OInv'
<1> DEFINE new == [order |-> o, try |-> tries[o.id] + 1]
<1>1. /\ tries[o.id] < MaxTries
      /\ tries' = [tries EXCEPT ![o.id] = @ + 1]
      /\ wire' = wire \cup {new}
      /\ pending' = o /\ sending' = TRUE /\ answer' = "none"
      /\ fate' = [fate EXCEPT ![o.id] = "pending"]
      /\ UNCHANGED <<dialog, attackTarget, input, armies, home, session>>
  BY DEF Post
<1>2. /\ o.id \in Ids /\ tries[o.id] + 1 \in 1..MaxTries /\ o # NoOrder
      /\ \A i \in Ids : tries[i] \in Nat
  BY <1>1, OrderTypes
<1>3. /\ \A i \in Ids : /\ tries'[i] = (IF i = o.id THEN tries[i] + 1 ELSE tries[i])
                         /\ fate'[i] = (IF i = o.id THEN "pending" ELSE fate[i])
  BY <1>1, OrderTypes
<1>4. new.order = o /\ new.try = tries'[o.id] /\ new \in [order : Order, try : 1..MaxTries]
  BY <1>2, <1>3
<1> HIDE DEF new
<1>5. OrdersTypeOK'
  BY <1>1, <1>2, <1>4, OrderTypes DEF OInv, OrdersTypeOK, Fates
<1>6. DialogInOrder' /\ ShowsWhatItSends'
  BY <1>1, <1>2 DEF OInv, DialogInOrder, ShowsWhatItSends
<1>7. Orders' \subseteq Orders \cup {o}
  BY <1>1, <1>4 DEF Orders
<1>8. \A p \in Orders : p.id = o.id => p = o
  BY DEF OInv, IdNamesOneOrder, Counted, Orders
<1>9. IdNamesOneOrder'
  <2>1. ASSUME NEW p \in Orders', NEW q \in Orders', p.id = q.id PROVE p = q
    BY <1>7, <1>8, <2>1 DEF OInv, IdNamesOneOrder
  <2> QED BY <2>1 DEF IdNamesOneOrder
<1>10. Counted'
  <2>1. \A p \in Orders' : fate'[p.id] # "new"
    BY <1>2, <1>3, <1>7, OrderTypes DEF OInv, Counted
  <2>2. tries'[pending'.id] >= 1
    BY <1>1, <1>2, <1>3
  <2>3. ASSUME NEW w \in wire PROVE w.try <= tries'[w.order.id]
    <3>1. w.order.id \in Ids /\ w.try \in Nat /\ w.try <= tries[w.order.id]
      BY OrderTypes DEF OInv, Counted
    <3> QED BY <1>2, <1>3, <3>1
  <2>4. new.try <= tries'[new.order.id]
    BY <1>2, <1>3, <1>4
  <2> QED BY <1>1, <2>1, <2>2, <2>3, <2>4 DEF Counted
<1>11. ASSUME NEW i \in Ids PROVE OnceInOnePlace(i)'
  <2>1. CASE i = o.id
    <3>1. ASSUME tries'[i] = 1 PROVE ~HasArmy(i)
      <4>1. tries[i] = 0
        BY <1>2, <1>3, <2>1, <3>1
      <4>2. fate[o.id] = "new"
        BY <2>1, <4>1 DEF OInv, Counted
      <4> QED BY <2>1, <4>2 DEF OInv, Counted, Orders, HasArmy
    <3>2. fate'[i] = "pending" /\ armies' = armies /\ answer' = "none"
      BY <1>1, <1>3, <2>1
    <3> QED BY <3>1, <3>2 DEF OnceInOnePlace, HasArmy, Failed
  <2>2. CASE i # o.id
    <3>1. tries'[i] = tries[i] /\ fate'[i] = fate[i] /\ armies' = armies /\ answer' = "none"
      BY <1>1, <1>3, <2>2
    <3>2. \A w \in wire' : w.order.id = i => w \in wire
      BY <1>1, <1>4, <2>2
    <3> QED BY <3>1, <3>2 DEF OInv, OnceInOnePlace, HasArmy, Failed
  <2> QED BY <2>1, <2>2
<1> QED BY <1>5, <1>6, <1>9, <1>10, <1>11 DEF OInv

(* The order is no longer in doubt.                                        *)
LEMMA ConcludeInv ==
  ASSUME OInv, NEW f \in {"left", "refused", "expired", "garbled"}, Conclude(f),
         answer # "none", f \in Failed => f = answer,
         dialog' \in {dialog, "closed"}, UNCHANGED <<attackTarget, input, tries, server>>
  PROVE  OInv'
<1>1. /\ pending' = NoOrder /\ sending' = FALSE /\ answer' = "none"
      /\ fate' = [fate EXCEPT ![pending.id] = f]
      /\ UNCHANGED <<wire, armies, home, session>>
  BY DEF Conclude, server
<1>2. pending # NoOrder /\ pending \in Order /\ pending.id \in Ids
  BY OrderTypes DEF OInv, DialogInOrder
<1>3. \A i \in Ids : fate'[i] = (IF i = pending.id THEN f ELSE fate[i])
  BY <1>1, OrderTypes
<1>4. Orders' \subseteq Orders
  BY <1>1 DEF Orders
<1>5. OrdersTypeOK'
  BY <1>1, <1>2, OrderTypes DEF OInv, OrdersTypeOK, Fates
<1>6. DialogInOrder' /\ ShowsWhatItSends'
  BY <1>1 DEF OInv, DialogInOrder, ShowsWhatItSends
<1>7. IdNamesOneOrder'
  BY <1>4 DEF OInv, IdNamesOneOrder
<1>8. Counted'
  BY <1>1, <1>3, <1>4, OrderTypes DEF OInv, Counted
<1>9. ASSUME NEW i \in Ids PROVE OnceInOnePlace(i)'
  <2>1. CASE i = pending.id
    <3>1. ASSUME tries[i] = 1, NEW w \in wire, w.order.id = i PROVE FALSE
      BY <1>2, <2>1, <3>1 DEF OInv, OnceInOnePlace, Asked
    <3>2. ASSUME tries[i] = 1, f \in Failed PROVE ~HasArmy(i)
      BY <1>2, <2>1, <3>2 DEF OInv, OnceInOnePlace, Asked
    <3> QED BY <1>1, <1>3, <2>1, <3>1, <3>2 DEF OnceInOnePlace, HasArmy, Asked
  <2>2. CASE i # pending.id
    BY <1>1, <1>3, <2>2 DEF OInv, OnceInOnePlace, HasArmy, Asked
  <2> QED BY <2>1, <2>2
<1> QED BY <1>5, <1>6, <1>7, <1>8, <1>9 DEF OInv

(* The attempt is not waited for any more, the order is kept.              *)
LEMMA WaitEnds ==
  ASSUME OInv, sending' = FALSE, answer' = "none", wire' \subseteq wire,
         UNCHANGED <<dialog, attackTarget, input, pending, fate, tries, armies, home, session>>
  PROVE  OInv'
<1>1. Orders' \subseteq Orders
  BY DEF Orders
<1>2. OrdersTypeOK' /\ DialogInOrder' /\ ShowsWhatItSends'
  BY DEF OInv, OrdersTypeOK, DialogInOrder, ShowsWhatItSends
<1>3. IdNamesOneOrder' /\ Counted'
  BY <1>1 DEF OInv, IdNamesOneOrder, Counted
<1>4. ASSUME NEW i \in Ids PROVE OnceInOnePlace(i)'
  BY DEF OInv, OnceInOnePlace, HasArmy, Asked, Failed
<1> QED BY <1>2, <1>3, <1>4 DEF OInv

LEMMA ReloadDialogInv == ASSUME OInv, ReloadDialog PROVE OInv'
<1>1. /\ dialog' = "closed" /\ attackTarget' = NoTarget /\ input' = 1
      /\ pending' = NoOrder /\ sending' = FALSE /\ answer' = "none"
      /\ fate' = [i \in Ids |-> IF fate[i] = "pending" THEN "reloaded" ELSE fate[i]]
      /\ UNCHANGED <<tries, wire, armies, home, session>>
  BY DEF ReloadDialog, server
<1>2. \A i \in Ids : fate'[i] = (IF fate[i] = "pending" THEN "reloaded" ELSE fate[i])
  BY <1>1
<1>3. Orders' \subseteq Orders
  BY <1>1 DEF Orders
<1>4. OrdersTypeOK'
  <2>1. fate' \in [Ids -> Fates]
    BY <1>1, OrderTypes DEF Fates
  <2> QED BY <1>1, <2>1, OrderTypes DEF OInv, OrdersTypeOK
<1>5. DialogInOrder' /\ ShowsWhatItSends'
  BY <1>1 DEF DialogInOrder, ShowsWhatItSends
<1>6. IdNamesOneOrder' /\ Counted'
  BY <1>1, <1>2, <1>3, OrderTypes DEF OInv, IdNamesOneOrder, Counted
<1>7. ASSUME NEW i \in Ids PROVE OnceInOnePlace(i)'
  BY <1>1, <1>2 DEF OInv, OnceInOnePlace, HasArmy, Asked, Failed
<1> QED BY <1>4, <1>5, <1>6, <1>7 DEF OInv

-----------------------------------------------------------------------------
(* An attempt reaches the server.                                          *)

LEMMA AwaitedIsPending ==
  ASSUME OInv, NEW w \in wire, Awaited(w)
  PROVE  pending # NoOrder /\ pending.id = w.order.id /\ pending = w.order
<1>1. pending # NoOrder /\ pending.id = w.order.id
  BY DEF Awaited, OInv, DialogInOrder
<1>2. pending \in Orders /\ w.order \in Orders
  BY <1>1 DEF Orders
<1> QED BY <1>1, <1>2 DEF OInv, IdNamesOneOrder

(* There is no other attempt of an order sent once.                        *)
LEMMA OnlyAttempt ==
  ASSUME OInv, NEW w \in wire, NEW u \in wire, u.order.id = w.order.id, tries[w.order.id] = 1
  PROVE  u = w
<1>1. w.order \in Orders /\ u.order \in Orders
  BY DEF Orders
<1>2. u.order = w.order
  BY <1>1 DEF OInv, IdNamesOneOrder
<1>3. u.try \in 1..MaxTries /\ w.try \in 1..MaxTries /\ u.try <= 1 /\ w.try <= 1
  BY <1>2, OrderTypes DEF OInv, Counted
<1>4. u.try = w.try
  BY <1>3, OrderTypes
<1> QED BY <1>2, <1>4, OrderTypes

(* It is answered, and the order carried out now, before or never.         *)
LEMMA ReplyInv ==
  ASSUME OInv, NEW w \in wire, NEW status \in {"accepted", "refused", "expired", "error"},
         Reply(w, status), home' \in 0..MaxSpears,
         armies' = armies \/ armies' = armies \cup {w.order},
         status \in Failed => armies' = armies
  PROVE  OInv'
<1>1. /\ wire' = wire \ {w}
      /\ answer' = IF Awaited(w) THEN status ELSE answer
      /\ UNCHANGED <<dialog, attackTarget, input, pending, sending, fate, tries, session>>
  BY DEF Reply
<1>2. Orders' \subseteq Orders
  BY <1>1 DEF Orders
<1>3. OrdersTypeOK'
  BY <1>1, OrderTypes DEF OInv, OrdersTypeOK
<1>4. DialogInOrder' /\ ShowsWhatItSends'
  BY <1>1 DEF OInv, DialogInOrder, ShowsWhatItSends, Awaited
<1>5. IdNamesOneOrder' /\ Counted'
  BY <1>1, <1>2 DEF OInv, IdNamesOneOrder, Counted
<1>6. ASSUME NEW i \in Ids PROVE OnceInOnePlace(i)'
  <2> SUFFICES ASSUME tries[i] = 1 PROVE OnceInOnePlace(i)'
    BY <1>1 DEF OnceInOnePlace
  <2>1. CASE i # w.order.id
    <3>1. HasArmy(i)' <=> HasArmy(i)
      BY <2>1 DEF HasArmy
    <3>2. Asked(i) => answer' = answer
      BY <1>1, <2>1 DEF Asked, Awaited
    <3> QED BY <1>1, <3>1, <3>2 DEF OInv, OnceInOnePlace, Asked, Failed
  <2>2. CASE i = w.order.id
    <3>1. \A u \in wire' : u.order.id # i
      BY <1>1, <2>2, OnlyAttempt
    <3>2. ~HasArmy(i) /\ fate[i] \notin Failed /\ (Asked(i) => answer = "none")
      BY <2>2 DEF OInv, OnceInOnePlace
    <3>3. Asked(i) /\ answer' \in Failed => ~HasArmy(i)'
      BY <1>1, <3>2 DEF HasArmy, Failed
    <3> QED BY <1>1, <3>1, <3>2, <3>3 DEF OnceInOnePlace, Asked, Failed
  <2> QED BY <2>1, <2>2
<1> QED BY <1>3, <1>4, <1>5, <1>6 DEF OInv

LEMMA CarryInRange ==
  ASSUME OInv, NEW o \in Order, home >= o.spears
  PROVE  home - o.spears \in 0..MaxSpears
<1>1. home \in 0..MaxSpears
  BY DEF OInv, OrdersTypeOK
<1> QED BY <1>1, OrderTypes

LEMMA ServingInv == ASSUME OInv, Serving PROVE OInv'
<1>1. home \in 0..MaxSpears
  BY DEF OInv, OrdersTypeOK
<1>2. ASSUME NEW w \in wire, Execute(w) PROVE OInv'
  <2>1. w.order \in Order
    BY OrderTypes
  <2>2. CASE Reply(w, "expired") /\ UNCHANGED <<armies, home>>
    BY <1>1, <2>2, ReplyInv
  <2>3. CASE Reply(w, "accepted") /\ UNCHANGED <<armies, home>>
    BY <1>1, <2>3, ReplyInv DEF Failed
  <2>4. CASE Reply(w, "refused") /\ UNCHANGED <<armies, home>>
    BY <1>1, <2>4, ReplyInv
  <2>5. CASE home >= w.order.spears /\ Reply(w, "accepted") /\ Carry(w.order)
    BY <2>1, <2>5, CarryInRange, ReplyInv DEF Carry, Failed
  <2> QED BY <1>2, <2>2, <2>3, <2>4, <2>5 DEF Execute
<1>3. ASSUME NEW w \in wire, ExecuteFailing(w) PROVE OInv'
  <2>1. w.order \in Order /\ Reply(w, "error")
    BY <1>3, OrderTypes DEF ExecuteFailing
  <2>2. CASE UNCHANGED <<armies, home>>
    BY <1>1, <2>1, <2>2, ReplyInv DEF Failed
  <2>3. CASE home >= w.order.spears /\ Carry(w.order)
    BY <2>1, <2>3, CarryInRange, ReplyInv DEF Carry, Failed
  <2> QED BY <1>3, <2>2, <2>3 DEF ExecuteFailing
<1>4. CASE HomeChanges
  BY <1>4, DialogMoves DEF HomeChanges, page, OInv, OrdersTypeOK, DialogInOrder, ShowsWhatItSends
<1>5. CASE SessionChanges
  <2>1. /\ session' \in BOOLEAN /\ UNCHANGED <<dialog, attackTarget, input, pending, sending,
                                             answer, fate, tries, wire, armies, home>>
    BY <1>5 DEF SessionChanges, page, OInv, OrdersTypeOK
  <2> QED BY <2>1 DEF OInv, OrdersTypeOK, DialogInOrder, IdNamesOneOrder, Orders, Counted,
                     ShowsWhatItSends, OnceInOnePlace, HasArmy, Asked, Failed
<1> QED BY <1>2, <1>3, <1>4, <1>5 DEF Serving

LEMMA OpenCommandInv ==
  ASSUME OInv, NEW type \in Commands, NEW v \in Targets, OpenCommand(type, v)
  PROVE  OInv'
<1>1. /\ dialog' = type /\ attackTarget' = v
      /\ input' = (IF type # "attack" THEN input
                   ELSE IF pending # NoOrder THEN pending.spears ELSE 1)
      /\ UNCHANGED <<pending, sending, answer, fate, tries, wire, armies, home, session>>
      /\ pending # NoOrder => type = "attack" /\ v = pending.target
  BY DEF OpenCommand, MayOpen, server
<1>2. home \in 0..MaxSpears /\ input \in 1..MaxSpears
  BY DEF OInv, OrdersTypeOK
<1>3. input' \in 1..MaxSpears
  BY <1>1, <1>2, OrderTypes
<1> QED BY <1>1, <1>2, <1>3, DialogMoves DEF Commands

LEMMA DialogInv == ASSUME OInv, Dialog PROVE OInv'
<1>1. /\ home \in 0..MaxSpears /\ input \in 1..MaxSpears
      /\ attackTarget \in Targets \cup {NoTarget} /\ dialog \in {"closed", "attack", "other"}
      /\ dialog # "closed" => attackTarget \in Targets
      /\ dialog = "attack" /\ pending # NoOrder
           => attackTarget = pending.target /\ input = pending.spears
  BY DEF OInv, OrdersTypeOK, DialogInOrder, ShowsWhatItSends
<1>2. CASE CloseDialog
  BY <1>1, <1>2, DialogMoves DEF CloseDialog, server
<1>3. ASSUME NEW n \in 1..MaxSpears, EditSpears(n) PROVE OInv'
  BY <1>1, <1>3, DialogMoves DEF EditSpears, server
<1>4. CASE Submit
  <2>1. PICK i \in Ids : /\ fate[i] = "new"
                         /\ Post([id |-> i, target |-> attackTarget, spears |-> input])
    BY <1>4 DEF Submit
  <2>2. dialog = "attack" /\ [id |-> i, target |-> attackTarget, spears |-> input] \in Order
    BY <1>1, <1>4 DEF Submit, Order
  <2> QED BY <2>1, <2>2, PostInv
<1>5. CASE Resubmit
  <2>1. dialog = "attack" /\ pending # NoOrder /\ Post(pending)
    BY <1>5 DEF Resubmit
  <2>2. pending \in Order
    BY <2>1, OrderTypes
  <2> QED BY <1>1, <2>1, <2>2, PostInv
<1>6. CASE Accept
  BY <1>6, ConcludeInv DEF Accept, Failed
<1>7. CASE AcceptGarbled
  BY <1>7, ConcludeInv DEF AcceptGarbled, Failed
<1>8. CASE Refused
  BY <1>8, ConcludeInv DEF Refused
<1>9. CASE ServerError
  BY <1>9, WaitEnds DEF ServerError, server
<1>10. CASE NetworkError
  BY <1>10, WaitEnds DEF NetworkError
<1> QED BY <1>2, <1>3, <1>4, <1>5, <1>6, <1>7, <1>8, <1>9, <1>10 DEF Dialog

LEMMA OrdersNextInv == OInv /\ [OrdersNext]_orderVars => OInv'
<1> SUFFICES ASSUME OInv, [OrdersNext]_orderVars PROVE OInv'
  OBVIOUS
<1>1. CASE UNCHANGED orderVars
  BY <1>1 DEF orderVars, page, server, OInv, OrdersTypeOK, DialogInOrder, IdNamesOneOrder, Orders,
              Counted, ShowsWhatItSends, OnceInOnePlace, HasArmy, Asked, Failed
<1> QED BY <1>1, OpenCommandInv, DialogInv, ServingInv, ReloadDialogInv DEF OrdersNext

(* A refusal is answered to the attempt that is waited for, and an order   *)
(* known by its id would have been recognised.                             *)
LEMMA RefusedIsNotThere ==
  ASSUME OInv, [OrdersNext]_orderVars, answer' = "refused", answer # "refused",
         NEW a \in armies'
  PROVE  a.id # pending.id
<1>1. PICK w \in wire : Execute(w) /\ answer' = "refused" /\ answer # "refused"
  <2>1. Serving
    BY DEF OrdersNext, OpenCommand, Dialog, CloseDialog, Submit, Resubmit, Post, EditSpears,
           Accept, AcceptGarbled, Refused, Conclude, ServerError, NetworkError, ReloadDialog,
           orderVars, page
  <2>2. ~HomeChanges /\ ~SessionChanges
    BY DEF HomeChanges, SessionChanges, page
  <2>3. \A w \in wire : ~ExecuteFailing(w)
    BY DEF ExecuteFailing, Reply
  <2> QED BY <2>1, <2>2, <2>3 DEF Serving
<1>2. /\ Awaited(w) /\ UNCHANGED armies
      /\ (IF Known(w.order) THEN w.order \notin armies ELSE home < w.order.spears)
  BY <1>1 DEF Execute, Reply
<1>3. pending.id = w.order.id
  BY <1>2, AwaitedIsPending
<1>4. ~Known(w.order)
  <2> SUFFICES ASSUME NEW b \in armies, b.id = w.order.id PROVE w.order \in armies
    BY <1>2 DEF Known
  <2>1. b \in Orders /\ w.order \in Orders
    BY DEF Orders
  <2> QED BY <2>1 DEF OInv, IdNamesOneOrder
<1> QED BY <1>2, <1>3, <1>4 DEF Known

LEMMA OrdersInvariant == OrdersSpec => []OInv
<1>1. OrdersInit => OInv
  BY OrdersInitInv
<1>2. OInv /\ [OrdersNext]_orderVars => OInv'
  BY OrdersNextInv
<1> QED BY <1>1, <1>2, PTL DEF OrdersSpec

(* The variables of the dialog and of the server keep their types; the     *)
(* soldiers at home (village_armies) are never fewer than none.            *)
THEOREM OrdersTypeCorrect == OrdersSpec => []OrdersTypeOK
<1>1. OInv => OrdersTypeOK
  BY DEF OInv
<1> QED BY <1>1, OrdersInvariant, PTL

(* An id never stands for two orders, on the page, on the way or in        *)
(* army_attacks (command-submit, send_attack).                             *)
THEOREM IdsNameOneOrder == OrdersSpec => []IdNamesOneOrder
<1>1. OInv => IdNamesOneOrder
  BY DEF OInv
<1> QED BY <1>1, OrdersInvariant, PTL

(* The dialog shows the order in doubt whenever sending would send that    *)
(* (openCommand).                                                          *)
THEOREM DialogShowsOrder == OrdersSpec => []ShowsWhatItSends
<1>1. OInv => ShowsWhatItSends
  BY DEF OInv
<1> QED BY <1>1, OrdersInvariant, PTL

(* However often an order is repeated, a refusal means that no army left   *)
(* on it (send_attack).                                                    *)
THEOREM RefusalsAreTrue == OrdersSpec => RefusalIsTrue
<1>1. OInv /\ [OrdersNext]_orderVars
        => [answer' = "refused" /\ answer # "refused" =>
              \A a \in armies' : a.id # pending.id]_orderVars
  BY RefusedIsNotThere
<1> QED BY <1>1, OrdersInvariant, PTL DEF OrdersSpec, RefusalIsTrue

(* An order sent once and given up as failed has not left, whatever is     *)
(* lost or comes late.                                                     *)
THEOREM FailedOnceMeansFailed == OrdersSpec => []FailedOnceIsFailed
<1>1. OInv => FailedOnceIsFailed
  <2> SUFFICES ASSUME OInv, NEW a \in armies, tries[a.id] = 1
               PROVE  fate[a.id] \notin {"refused", "expired"}
    BY DEF FailedOnceIsFailed
  <2>1. a.id \in Ids
    BY OrderTypes
  <2> QED BY <2>1 DEF OInv, OnceInOnePlace, HasArmy, Failed
<1> QED BY <1>1, OrdersInvariant, PTL

-----------------------------------------------------------------------------
(* The page.                                                               *)

LEMMA PageStepOfMap == MapPageNext => [AreaNext]_areaVars
<1> QED BY DEF MapPageNext, Command, UseMap, ReloadPage, AreaNext

LEMMA PageStepOfDialog == AInv /\ MapPageNext => [OrdersNext]_orderVars
<1> SUFFICES ASSUME AInv, MapPageNext PROVE [OrdersNext]_orderVars
  OBVIOUS
<1>1. ASSUME NEW type \in Commands, Command(type) PROVE OrdersNext
  <2>1. selected.id \in Targets
    BY <1>1, TargetsAssumption, AreaTypes DEF Command
  <2> QED BY <1>1, <2>1 DEF Command, OrdersNext
<1> QED BY <1>1 DEF MapPageNext, UseMap, ReloadPage, OrdersNext

(* The page implements the map by itself: the dialog takes nothing from    *)
(* and adds nothing to what the map does.                                  *)
THEOREM PageImplementsMap == MapPageSpec => AreaSpec
<1>1. MapPageInit => AreaInit
  BY DEF MapPageInit
<1>2. [MapPageNext]_pageVars => [AreaNext]_areaVars
  BY PageStepOfMap DEF pageVars
<1> QED BY <1>1, <1>2, PTL DEF MapPageSpec, AreaSpec

(* ... and the dialog by itself: only villages of others are selected for  *)
(* an order (openCommand, map.js:541).                                     *)
THEOREM PageImplementsDialog == MapPageSpec => OrdersSpec
<1>1. MapPageInit => OrdersInit
  BY DEF MapPageInit
<1>2. AInv /\ [MapPageNext]_pageVars => [OrdersNext]_orderVars
  BY PageStepOfDialog DEF pageVars
<1>3. MapPageSpec => []AInv
  BY PageImplementsMap, AreaInvariant
<1> QED BY <1>1, <1>2, <1>3, PTL DEF MapPageSpec, OrdersSpec
=============================================================================
