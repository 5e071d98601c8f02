SPECIFICATION MCSpec
CONSTANTS
  v0 = v0
  v1 = v1
  v2 = v2
  Villages = {v0, v1, v2}
  Home = v0
  Place <- Places
  Width = 9
  Unit = 2
  Spots = {18}
  Halves = {3, 4}
  MaxSpan = 4
  Limit = 8
  MaxPoints = 2
  MaxFlight = 2
  NoVillage = NoVillage
  Unread = Unread
  Targets = {v1, v2}
  i1 = i1
  i2 = i2
  Ids = {i1, i2}
  MaxSpears = 2
  MaxTries = 2
  NoTarget = NoTarget
  NoOrder = NoOrder
SYMMETRY SameIds
INVARIANTS AreaAccepted RestShowsView IdNamesOneOrder ShowsWhatItSends FailedOnceIsFailed
PROPERTIES NeverOlder RefusalIsTrue
CHECK_DEADLOCK FALSE
