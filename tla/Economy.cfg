SPECIFICATION Spec
CONSTANTS
  wood = wood
  iron = iron
  farm = farm
  Kinds = {wood, iron, farm}
  Resources = {wood, iron}
  MaxLevel = 2
  MaxLevelOf <- SmallLevels
  Rate <- SmallRates
  Hour = 3
  StartStock = 2
  StartLevel <- WoodOnly
  UnitCost <- OneWood
  UnitTime = 1
  Requires <- IronNeedsFarm
  SpearCost <- TwoEach
  Loots <- SmallLoots
  MaxStock = 3
  MaxTime = 5
  MaxLag = 1
  MaxAhead = 1
  NoKind = NoKind
INVARIANTS NeverPastBoundary DisplayIsSpendable OfferIsGood
PROPERTY ProducesAsIdeal
CHECK_DEADLOCK FALSE
