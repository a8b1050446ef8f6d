SPECIFICATION Spec
CONSTANTS
  j1 = j1
  b1 = b1
  k1 = k1
  named = named
  v2file = v2file
  v2db = v2db
  None = None
  r1 = r1
  Replicas = {r1}
  Singles = {j1}
  Batches = {b1}
  Kids = {k1}
  Parent <- MCParent
  Index <- MCIndex
  Pipelines = {named, v2db}
  Engine <- MCEngine
  NSteps = 2
  SemSize = 1
  Crashes = TRUE
  DbFaults = TRUE
INVARIANT RegisteredIffLive
INVARIANT CancelIsFinal
INVARIANT CompletedNamedRan
PROPERTY EndedRowsStand
PROPERTY LifecycleSpec
