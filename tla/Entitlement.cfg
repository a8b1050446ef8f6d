SPECIFICATION FairSpec
CONSTANTS
  w1 = w1
  w2 = w2
  r1 = r1
  MaxSubs = 2
  Webhooks = {w1, w2}
  Routers = {r1}
  MaxEvents = 3
  Interval = 1
INVARIANT RowDecidesKeys
INVARIANT RowFollowsStripe
INVARIANT StaleIsKnown
PROPERTY UnpaidIsRefused
