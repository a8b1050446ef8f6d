SPECIFICATION FairSpec
CONSTANTS
  s1 = s1
  s2 = s2
  t1 = t1
  t2 = t2
  e1 = e1
  e2 = e2
  e3 = e3
  Original = Original
  Reordered = Reordered
  None = None
  Sessions = {s1, s2}
  Threads = {t1, t2}
  SessionOf <- MCSessionOf
  Events = {e1, e2, e3}
  MaxOld = 1
  Deploys = TRUE
  Faults = TRUE
CHECK_DEADLOCK FALSE
INVARIANT ChainIntact
INVARIANT TamperShows
PROPERTY WritesEnd
