SPECIFICATION FairSpec
CONSTANTS
  b1 = b1
  k1 = k1
  k2 = k2
  named = named
  v2file = v2file
  None = None
  r1 = r1
  r2 = r2
  Replicas = {r1, r2}
  Singles = {}
  Batches = {b1}
  Kids = {k1, k2}
  Parent <- MCParent
  Index <- MCIndex
  Pipelines = {v2file}
  Engine <- MCEngine
  NSteps = 1
  SemSize = 1
  Crashes = FALSE
  DbFaults = FALSE
INVARIANT OpenRowsHaveTasks
INVARIANT BatchTellsOfChildren
PROPERTY JobsEnd
