\* One job with its check, two servers, lost answers and late requests.
SPECIFICATION CheckFairSpec
CONSTANTS
    Keys = {k1}
    Workers = {w1}
    Capabilities = {"local_oci_build"}
    Native = {"local_oci_build"}
    Budgets = {1}
    Lease = 1
    Hour = 2
    MaxTime = 3
    None = None
    Servers = {s1, s2}
    Finalize = 1
    ObservationBudget = 3
    MaxFaults = 1
INVARIANTS
    CreatedOnce
    ConclusionIsTrue
    StoredIsValid
PROPERTIES
    ChecksEnd
