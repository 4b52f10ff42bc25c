\* A candidate and its promotion, two servers, one push.
SPECIFICATION Spec
CONSTANTS
    Servers = {s1, s2}
    Clients = {c1, c2}
    Repositories = {r1, r2}
    None = None
    MaxOps = 2
    MaxPushes = 1
    MaxEvents = 1
SYMMETRY Symmetry
CHECK_DEADLOCK FALSE
INVARIANTS
    BuiltFromMain
    NoPushIsLost
    OneCandidatePerKey
PROPERTIES
    ReleasedWasVerified
