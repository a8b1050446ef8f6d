SPECIFICATION Spec
CONSTANTS
  s1 = s1
  t1 = t1
  t2 = t2
  e1 = e1
  e2 = e2
  e3 = e3
  Original = Original
  Reordered = Reordered
  None = None
  Sessions = {s1}
  Threads = {t1, t2}
  SessionOf <- MCSessionOf
  Events = {e1, e2, e3}
  MaxOld = 1
  Deploys = FALSE
  Faults = FALSE
CHECK_DEADLOCK FALSE
INVARIANT AlwaysIntact
