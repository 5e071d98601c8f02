SPECIFICATION Spec
CONSTANTS
  Villages = {1, 2}
  Commands = {1, 2}
  Sends <- BothWays
  Jobs <- MutualRaids
  Txns = {t1, t2}
  PoolSize = 2
INVARIANT NoWaitCycle
