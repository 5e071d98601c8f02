SPECIFICATION FairSpec
CONSTANTS
  v1 = v1
  v2 = v2
  Villages = {v1, v2}
  Orders = {q1, q2}
  Travel <- OneUnit
  Barracks = {v1}
  StartSpears <- SmallArmies
  StartFarm <- SmallStartFarm
  FarmCapacity <- SmallFarms
  SpearCost = 1
  SpearCarry = 2
  Hidden = 1
  FarmCost = 1
  TrainTime = 1
  BuildTime = 1
  StartStock = 2
  Yield = 1
  MaxStock = 3
  MaxCount = 6
  MaxTime = 4
  NoVillage = NoVillage
INVARIANTS FarmBound JobsMatchRecords ReportsAreRight
PROPERTIES RaidsConserveWealth RaidsRespectLimits SoldiersAccounted AttacksEnd
CHECK_DEADLOCK FALSE
