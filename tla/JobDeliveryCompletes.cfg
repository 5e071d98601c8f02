SPECIFICATION FairSpec
CONSTANTS
  Jobs = {j1, j2}
  RunDelays = {1}
  Dispatchers = {d1}
  Requests = {r1}
  BatchLimit = 1
  Stale = 1
  MaxSkew = 1
  MaxAttempts = 3
  RetryDelay = 1
  MaxStalls = 1
  Concurrency = 2
  MaxFaults = 2
  Free = Free
PROPERTY Completes
