SPECIFICATION FairSpec
CONSTANTS
  r1 = r1
  r2 = r2
  c1 = c1
  u2 = u2
  Routers = {r1, r2}
  Calls = {c1, u2}
  HomeOf <- MCHomeOf
  ScaleUps = {u2}
  ManualDown = TRUE
  SlowCalls = TRUE
  Faults = TRUE
PROPERTY CallsEnd
PROPERTY IdleScalesDown
