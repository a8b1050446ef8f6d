SPECIFICATION MCSpec
CONSTANTS
  acme = acme
  n1 = n1
  n2 = n2
  A = A
  B = B
  U = U
  W = W
  i1 = i1
  i2 = i2
  Tenants = {acme}
  Names = {n1, n2}
  Replicas = {1, 2}
  Values = {"v1", "v2"}
  Keys = {A, B}
  UserKeys = {U, W}
  Ids = {i1, i2}
  Stages <- MCStages
  ByokKey = U
  Legacy = A
  InCluster = TRUE
  NoKey = NoKey
  Bare = Bare
  Nothing = Nothing
  Features = {sso}
  Signers = {k1, k2}
  LicenseIds = {licensed}
  Environments <- MCEnvironments
  Terms = {2}
  Requests = {q1, q2}
  TTL = 2
  PortalTTL = 1
  LicenseHorizon = 3
  Addresses = {a1, a2}
  Tokens = {t1, t2}
  Resources = {mcp}
  Registered = {mcp}
  SigningKeys = {k1, k2}
  Pinned = NoKey
  Secret = Secret
  HS256Allowed = TRUE
  Signer <- MCSigner
  Expires <- MCExpires
  IsAdmin = {t1}
  Window = 1
  MaxAttempts = 2
  MaxBuckets = 3
  JwksTTL = 2
  TokenHorizon = 2
  Reads = {look}
  Writes = {write, erase}
  MaxSteps = 4
  MaxCalls = 2
  Mcps = {seeded, unseeded}
  Types = {AnA, AB, Plain}
  Prims = {Plain}
  ToolDefs <- MCToolDefs
  Roles = {r1, r2}
  Groups = {g}
  Fields = {f1, f2}
  Seed <- MCSeed
  FileOrder <- MCFileOrder
  Offers <- MCOffers
  Registrants = {acme, other}
  MaxRegistrations = 3
  sso = sso
  k1 = k1
  k2 = k2
  licensed = licensed
  q1 = q1
  q2 = q2
  Perpetual = Perpetual
  Unnamed = Unnamed
  NoLicense = NoLicense
  Nobody = Nobody
  a1 = a1
  a2 = a2
  t1 = t1
  t2 = t2
  mcp = mcp
  Never = Never
  look = look
  write = write
  erase = erase
  seeded = seeded
  unseeded = unseeded
  other = other
  r1 = r1
  r2 = r2
  g = g
  f1 = f1
  f2 = f2
  AnA = AnA
  AB = AB
  Plain = Plain
SYMMETRY Symmetry
INVARIANT ResolvesLatest
INVARIANT AnswersAreRecent
INVARIANT IssuedInOrder
INVARIANT TurnsAreSound
INVARIANT GuardsStand
INVARIANT CapabilitiesStand
CHECK_DEADLOCK FALSE
