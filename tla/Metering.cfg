SPECIFICATION FairSpec
CONSTANTS
  p1 = p1
  p2 = p2
  c1 = c1
  Runs = {p1, p2}
  Calls = {c1}
  MaxTime = 3
INVARIANT NothingSkipped
INVARIANT OnceUnlessMishap
PROPERTY CallsGetBilled
