\* One deployment by direct commit or by pull request, two servers, one
\* reservation and one mishap.
SPECIFICATION FairSpec
CONSTANTS
    Ops = {o1}
    Servers = {s1, s2}
    Digests = {d1}
    GitOpsModes = {"DIRECT", "PR"}
    None = None
    MaxMishaps = 1
    MaxEpoch = 1
INVARIANTS
    DispatchedOnce
    HoldIsQuiet
    AppliedWasSeen
PROPERTIES
    OperationsSettle
    NoChangeIsLost
