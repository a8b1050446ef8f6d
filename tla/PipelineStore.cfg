CONSTANTS
    Routers = {r1, r2}
    Customers = {a, b}
    Pipes = {p}
    Shipped = {p}
    MaxVersions = 2
    MaxMishaps = 1
SPECIFICATION PipelinesSpec
SYMMETRY Symmetry
INVARIANT LoadedAgrees
INVARIANT OwnOrShared
INVARIANT JobRunsWhatWasAccepted
