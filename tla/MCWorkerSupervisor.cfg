\* Two jobs in sequence on one host.  The one that comes second is followed up
\* to its journal entry, while what the first left behind goes on moving.
SPECIFICATION FairSpec
CONSTANTS
    Owners = {o1, o2}
    Names = {"check"}
    MaxFaults = 1
    MaxStarted = 1
    NoOwner = NoOwner
INVARIANTS
    DoneMeansGone
    AloneOnHost
PROPERTIES
    DeadlineReaps
