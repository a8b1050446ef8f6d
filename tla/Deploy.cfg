SPECIFICATION FairSpec
CONSTANTS
  None = None
  d1 = d1
  d2 = d2
  d3 = d3
  Deploys = {d1, d2, d3}
  HasTools = {d1}
  Alike = {d1, d2}
INVARIANT CatalogAgrees
INVARIANT DeployedIsServed
INVARIANT RunningRowIsTrue
PROPERTY DeploysEnd
