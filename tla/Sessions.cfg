SPECIFICATION FairSpec
CONSTANTS
  Browsers = {b1, b2}
  Users = {u}
  Requests = {r1, r2}
  MaxFlows = 2
  MaxSessions = 2
  FlowLife = 1
  SessionLife = 1
INVARIANTS OneSessionPerFlow RightBrowser EndedIsDead
PROPERTY Cleaned
