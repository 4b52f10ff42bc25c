\* Two components, up to two restorations, and one mishap at any point.
SPECIFICATION Spec
CONSTANTS
    c1 = c1
    c2 = c2
    Components = {c1, c2}
    Layouts <- TwoFiles
    Original = Original
    Candidate = Candidate
    Other = Other
    MaxCaptures = 1
    MaxGeneration = 2
    MaxVerifications = 1
    Edited = {c1}
    MaxMishaps = 1
\* Nothing is left to do once the reservation is released.
CHECK_DEADLOCK FALSE
INVARIANTS
    ReleaseIsClean
    AppliedWasApproved
    ProposedOnce
PROPERTIES
    ForeignImageKept
