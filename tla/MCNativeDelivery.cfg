\* One delivery or one standalone build, two servers, one of which may die or
\* outlive its lease.
SPECIFICATION NativeFairSpec
CONSTANTS
    Deliveries = {d1}
    Requests = {r1}
    Processes = {s1, s2}
    MaxMishaps = 1
    Workers = {w1}
    Keys <- MCKeys
    Capabilities <- MCCapabilities
    Native <- MCCapabilities
    Budgets = {1}
    Lease = 2
    Hour = 3
    MaxTime = 4
    None = None
CONSTRAINT OneOfThem
INVARIANTS
    ArtifactStaysValid
PROPERTIES
    DeliveriesEnd
