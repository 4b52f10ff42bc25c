\* One integration, two servers.
SPECIFICATION Spec
CONSTANTS
    Servers = {s1, s2}
    Integrations = {i1}
    None = None
    MaxOps = 2
    MaxEvents = 1
SYMMETRY Symmetry
CHECK_DEADLOCK FALSE
INVARIANTS
    WrittenOnce
    PersonDecides
PROPERTIES
    ProgressIsKept
