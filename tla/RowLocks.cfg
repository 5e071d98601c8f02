SPECIFICATION FairSpec
CONSTANTS
  Villages = {1, 2}
  Commands = {1}
  Sends <- BothWays
  Jobs <- RaidAndReturn
  Txns = {t1, t2, t3}
  PoolSize = 2
INVARIANTS NoLostUpdate CyclesGoDownhill
PROPERTY EveryoneFinishes
