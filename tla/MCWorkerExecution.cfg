\* One request in depth: two workers, up to three attempts, a lease of two
\* ticks and deadlines up to four ticks away, so that a lease ends before, at
\* and after the deadline and a third attempt is reached.
SPECIFICATION FairSpec
CONSTANTS
    Keys = {k1}
    Workers = {w1, w2}
    Capabilities = {"source_check", "local_oci_build"}
    Native = {"local_oci_build"}
    Budgets = {1, 2, 3}
    Lease = 2
    Hour = 4
    MaxTime = 5
    None = None
INVARIANTS
    StartedAtMostOnce
    VerdictStands
    SingleLiveAttempt
PROPERTIES
    JobsSettle
    ImplementsLifecycle
