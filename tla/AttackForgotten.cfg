SPECIFICATION OrdersSpec
CONSTANTS
  Targets = {v1, v2}
  Ids = {i1, i2}
  MaxSpears = 2
  MaxTries = 2
  NoTarget = NoTarget
  NoOrder = NoOrder
INVARIANT ForgottenMeansRefused
CHECK_DEADLOCK FALSE
