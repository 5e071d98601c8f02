SPECIFICATION Spec
CONSTANTS
  Jobs = {j1, j2}
  RunDelays = {0, 1}
  Dispatchers = {d1, d2}
  Requests = {r1, r2}
  BatchLimit = 2
  Stale = 1
  MaxSkew = 1
  MaxAttempts = 2
  RetryDelay = 1
  MaxStalls = 1
  Concurrency = 2
  MaxFaults = 2
  Free = Free
SYMMETRY Symmetry
INVARIANT OkMeansCommitted 
PROPERTIES NoResurrection Implements
